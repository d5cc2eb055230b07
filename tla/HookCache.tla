----------------------------- MODULE HookCache -----------------------------
(***************************************************************************)
(* The hooking proxy of memorySearch (ast-hook): AnyProxy calls process()  *)
(* for every response; JavaScript is rewritten by injectHook(), stored     *)
(* under ./js-file-cache, listed in meta.jsonl and in a Map, and sent      *)
(* behind the code of the plugins, which is itself cached for a second.    *)
(*                                                                         *)
(* Node runs process() without interruption, so responses do not           *)
(* interleave; what falls between its writes is a crash or a full disk.    *)
(* Rewritten code is identified by the body it was made from.              *)
(***************************************************************************)
CONSTANTS
    Urls,
    Bodies,      \* contents of script files and of inline scripts
    Small,       \* bodies of at most 2000 characters
    Json,        \* bodies that start with "{"
    Throwing,    \* bodies on which injectHook() throws
    Pages,       \* an HTML page: its inline scripts, None for one without code
    Base,        \* Url -> the same Url without its query
    Versions,    \* versions of the plugin files
    None,        \* no file, no plugin code, no line
    Torn         \* a file or a line that was not completed

ASSUME BodiesAssumption ==
    /\ Small \subseteq Bodies /\ Json \subseteq Bodies /\ Throwing \subseteq Bodies
    /\ Pages \subseteq SUBSET (Bodies \cup {None})
    /\ None \notin Bodies /\ Torn \notin Bodies /\ None # Torn
ASSUME UrlsAssumption == None \notin Urls /\ Torn \notin Urls
ASSUME BaseAssumption == Base \in [Urls -> Urls]
ASSUME VersionsAssumption == None \notin Versions

VARIABLES
    file,                \* Url -> what its cache file holds
    meta,                \* the URLs with a line of their own in meta.jsonl
    tail,                \* what follows the last newline in it: nothing (None),
                         \* a part of a line (Torn), or the line of a URL
    glued,               \* an earlier line of it is not JSON
    proxy,               \* "down" | "up" | "failed": refused to start
    cached,              \* keys of injectSuccessJsFileCache
    at,                  \* how far process() is with the response
    now,                 \* the JavaScript response it is writing
    pluginFiles,         \* version of the plugin files, None: one cannot be read
    pluginsJsCodeCache,
    recent,              \* lastReadDiskTs is at most 1000 ms ago
    sent,                \* the last response: whose, made from what, with which plugins
    seen,                \* history: Url -> bodies sent for it that can be rewritten
    readFailed,          \* history: the last attempt to read the plugins failed
    unended              \* history: URLs of which the disk was full when all of
                         \* the line but its newline had been written

metaVars == <<meta, tail, glued>>
diskVars == <<file, metaVars, unended>>
pluginVars == <<pluginsJsCodeCache, recent, readFailed>>
vars == <<diskVars, proxy, cached, at, now, pluginFiles, pluginVars, sent, seen>>

Idle == proxy = "up" /\ at = "idle"

\* The value of now while process() is not writing.
NoResponse == [url |-> None, body |-> None]

Init ==
    /\ file = [u \in Urls |-> None] /\ unended = {}
    /\ meta = {} /\ tail = None /\ glued = FALSE
    /\ proxy = "down" /\ cached = {} /\ at = "idle"
    /\ now = NoResponse
    /\ pluginFiles \in Versions
    /\ pluginsJsCodeCache = None /\ recent = FALSE /\ readFailed = FALSE
    /\ sent = [url |-> None, codes |-> {}, plugins |-> None]
    /\ seen = [u \in Urls |-> {}]
----------------------------------------------------------------------------
(* Plugins *)

\* loadPluginsAsStringWithCache(), which throws: the time stamp is set before
\* the files are read, the cache is not.
PluginsThrow ==
    /\ ~recent /\ pluginFiles = None
    /\ recent' = TRUE /\ readFailed' = TRUE
    /\ UNCHANGED pluginsJsCodeCache

\* loadPluginsAsStringWithCache(), which returns pluginsJsCodeCache'.
PluginsLoad ==
    /\ recent \/ pluginFiles # None
    /\ recent' = TRUE
    /\ pluginsJsCodeCache' = IF recent THEN pluginsJsCodeCache ELSE pluginFiles
    /\ readFailed' = (recent /\ readFailed)

\* The plugin files are edited (hot loading), or one of them goes away.
EditPlugins ==
    /\ \E v \in (Versions \cup {None}) \ {pluginFiles} : pluginFiles' = v
    /\ UNCHANGED <<diskVars, proxy, cached, at, now, pluginVars, sent, seen>>

\* More than 1000 ms pass between two responses.
Later ==
    /\ Idle /\ recent
    /\ recent' = FALSE
    /\ UNCHANGED <<diskVars, proxy, cached, at, now, pluginFiles,
                   pluginsJsCodeCache, readFailed, sent, seen>>
----------------------------------------------------------------------------
(* Responses *)

\* process() has swallowed an exception, or there was nothing to do.
SendOriginal(u) == sent' = [url |-> u, codes |-> {}, plugins |-> None]

\* The plugins and the rewritten code; the original when the plugins throw.
SendHooked(u, codes) ==
    \/ /\ PluginsLoad
       /\ sent' = [url |-> u, codes |-> codes, plugins |-> pluginsJsCodeCache']
    \/ /\ PluginsThrow
       /\ SendOriginal(u)

\* Mutant of CacheKey: the key drops the query, as in the commented-out line.
CacheKeyBase(u) == Base[u]

\* What the cache file and the Map are keyed with.
CacheKey(u) == u

\* A response reaches the proxy.
Receive(u, bodies) ==
    /\ Idle
    /\ seen' = [seen EXCEPT ![u] = @ \cup (bodies \ (Throwing \cup {None}))]
    /\ UNCHANGED <<diskVars, proxy, pluginFiles>>

isNeedIgnoreHook(b) == b \in Json

UsesCache(u, b) == b \notin Small /\ CacheKey(u) \in cached

\* JSON, or injectHook() throws.
PassThrough(u, b) ==
    /\ Receive(u, {b})
    /\ isNeedIgnoreHook(b) \/ (~UsesCache(u, b) /\ b \in Throwing)
    /\ SendOriginal(u)
    /\ UNCHANGED <<cached, at, now, pluginVars>>

\* A long script whose URL is in the Map: the file is sent, whatever the body.
processFromCache(u, b) ==
    /\ Receive(u, {b})
    /\ ~isNeedIgnoreHook(b) /\ UsesCache(u, b)
    /\ IF file[CacheKey(u)] = None
       THEN SendOriginal(u) /\ UNCHANGED pluginVars
       ELSE SendHooked(u, {file[CacheKey(u)]})
    /\ UNCHANGED <<cached, at, now>>

\* The script is rewritten; processRealtime() is about to write.
processRealtime(u, b) ==
    /\ Receive(u, {b})
    /\ ~isNeedIgnoreHook(b) /\ ~UsesCache(u, b) /\ b \notin Throwing
    /\ at' = "write" /\ now' = [url |-> u, body |-> b]
    /\ UNCHANGED <<cached, pluginVars, sent>>

\* Mutant of OpenFile: the line is written before the file.
OpenFileListed ==
    /\ proxy = "up" /\ at = "write"
    /\ meta' = meta \cup {CacheKey(now.url)}
    /\ at' = "content"
    /\ UNCHANGED <<file, tail, glued, unended, proxy, cached, now, pluginFiles,
                   pluginVars, sent, seen>>

\* writeFileSync() opens the file, which truncates it ...
OpenFile ==
    /\ proxy = "up" /\ at = "write"
    /\ file' = [file EXCEPT ![CacheKey(now.url)] = Torn]
    /\ at' = "content"
    /\ UNCHANGED <<metaVars, unended, proxy, cached, now, pluginFiles, pluginVars, sent, seen>>

\* ... and writes the rewritten code.
WriteFile ==
    /\ proxy = "up" /\ at = "content"
    /\ file' = [file EXCEPT ![CacheKey(now.url)] = now.body]
    /\ at' = "append"
    /\ UNCHANGED <<metaVars, unended, proxy, cached, now, pluginFiles, pluginVars, sent, seen>>

\* appendFileSync() adds the line and its newline: a line of its own, or, when
\* the file does not end in a newline, the rest of a line that is not JSON.
AppendMeta ==
    /\ proxy = "up" /\ at = "append"
    /\ meta' = IF tail = None THEN meta \cup {CacheKey(now.url)} ELSE meta
    /\ glued' = (glued \/ tail # None)
    /\ tail' = None /\ at' = "set"
    /\ UNCHANGED <<file, unended, proxy, cached, now, pluginFiles, pluginVars, sent, seen>>

\* What is written of a line when appendFileSync() does not come to its end:
\* nothing, a part of it, or all but the newline.
AppendCut ==
    /\ \/ UNCHANGED tail
       \/ at = "append" /\ tail' = Torn
       \/ at = "append" /\ tail = None /\ tail' = CacheKey(now.url)
    /\ UNCHANGED <<meta, glued>>

\* Mutant of DiskFull: the writer goes on with the response it has given up.
DiskFullGoesOn ==
    /\ proxy = "up" /\ at \in {"write", "content", "append"}
    /\ AppendCut
    /\ unended' = unended \cup ({tail'} \ {tail, Torn})
    /\ now' = NoResponse
    /\ SendOriginal(now.url)
    /\ UNCHANGED <<file, proxy, cached, at, pluginFiles, pluginVars, seen>>

\* The disk is full: the write throws, the response goes out as it came, and
\* what was written of a line stays.
DiskFull ==
    /\ proxy = "up" /\ at \in {"write", "content", "append"}
    /\ AppendCut
    /\ unended' = unended \cup ({tail'} \ {tail, Torn})
    /\ at' = "idle" /\ now' = NoResponse
    /\ SendOriginal(now.url)
    /\ UNCHANGED <<file, proxy, cached, pluginFiles, pluginVars, seen>>

\* The Map is filled and the response goes out.
Reply ==
    /\ proxy = "up" /\ at = "set"
    /\ cached' = cached \cup {CacheKey(now.url)}
    /\ SendHooked(now.url, {now.body})
    /\ at' = "idle" /\ now' = NoResponse
    /\ UNCHANGED <<diskVars, proxy, pluginFiles, seen>>

\* An HTML response with inline scripts: the plugins go into the first one. A
\* script without code, or an exception, also of a later script, leaves the
\* whole page as it was, the plugins being loaded once a script has been
\* rewritten.
processHtmlResponse(u, page) ==
    LET stops == page \cap (Throwing \cup {None}) IN
    /\ Receive(u, page)
    /\ \/ stops = {} /\ page # {} /\ SendHooked(u, page)
       \/ stops # {} /\ SendOriginal(u)
          /\ \/ UNCHANGED pluginVars
             \/ page \ stops # {} /\ (PluginsLoad \/ PluginsThrow)
       \/ page = {} /\ SendOriginal(u) /\ UNCHANGED pluginVars
    /\ UNCHANGED <<cached, at, now>>
----------------------------------------------------------------------------
(* The process *)

\* The URLs of the lines of meta.jsonl, and whether all of them are JSON.
Listed == meta \cup ({tail} \ {None, Torn})
Readable == ~glued /\ tail # Torn

\* Mutant of Start: the first second counts as recent.
StartRecent ==
    /\ proxy \in {"down", "failed"} /\ Readable
    /\ proxy' = "up" /\ cached' = Listed
    /\ pluginsJsCodeCache' = None /\ recent' = TRUE /\ readFailed' = FALSE
    /\ UNCHANGED <<diskVars, at, now, pluginFiles, sent, seen>>

\* The proxy is started: initInjectSuccessJsFileCache() reads meta.jsonl.
Start ==
    /\ proxy \in {"down", "failed"} /\ Readable
    /\ proxy' = "up" /\ cached' = Listed
    /\ pluginsJsCodeCache' = None /\ recent' = FALSE /\ readFailed' = FALSE
    /\ UNCHANGED <<diskVars, at, now, pluginFiles, sent, seen>>

\* JSON.parse() throws on a line that is not JSON, and nothing catches it.
StartFails ==
    /\ proxy \in {"down", "failed"} /\ ~Readable
    /\ proxy' = "failed"
    /\ UNCHANGED <<diskVars, cached, at, now, pluginFiles, pluginVars, sent, seen>>

\* The process ends, at rest or in the middle of a write.
Crash ==
    /\ proxy = "up"
    /\ AppendCut
    /\ proxy' = "down" /\ cached' = {} /\ at' = "idle" /\ now' = NoResponse
    /\ pluginsJsCodeCache' = None /\ recent' = FALSE /\ readFailed' = FALSE
    /\ UNCHANGED <<file, unended, pluginFiles, sent, seen>>

Next ==
    \/ EditPlugins \/ Later
    \/ \E u \in Urls, b \in Bodies :
          PassThrough(u, b) \/ processFromCache(u, b) \/ processRealtime(u, b)
    \/ \E u \in Urls, page \in Pages : processHtmlResponse(u, page)
    \/ OpenFile \/ WriteFile \/ AppendMeta \/ DiskFull \/ Reply
    \/ Start \/ StartFails \/ Crash

Spec == Init /\ [][Next]_vars
----------------------------------------------------------------------------
TypeOK ==
    /\ file \in [Urls -> Bodies \cup {None, Torn}]
    /\ meta \subseteq Urls /\ tail \in Urls \cup {None, Torn} /\ glued \in BOOLEAN
    /\ unended \subseteq Urls
    /\ proxy \in {"down", "up", "failed"} /\ cached \subseteq Urls
    /\ at \in {"idle", "write", "content", "append", "set"}
    /\ IF at = "idle" THEN now = NoResponse ELSE now \in [url : Urls, body : Bodies]
    /\ pluginFiles \in Versions \cup {None}
    /\ pluginsJsCodeCache \in Versions \cup {None}
    /\ recent \in BOOLEAN /\ readFailed \in BOOLEAN
    /\ sent \in [url : Urls \cup {None}, codes : SUBSET (Bodies \cup {Torn}),
                 plugins : Versions \cup {None}]
    /\ seen \in [Urls -> SUBSET Bodies]

\* What a restart finds. As long as every line is JSON, without which the proxy
\* does not start again, every URL of the Map is listed, so that nothing is
\* forgotten. Every listed URL has a file, complete unless a short
\* body of the same URL was being written to it again, or the disk was full when
\* its line was written and it came to be listed without being in the Map.
CacheSurvives ==
    /\ Readable => cached \subseteq Listed
    /\ \A u \in Listed :
          /\ file[u] # None
          /\ file[u] = Torn => seen[u] \cap Small # {} \/ u \in unended

\* Whatever was served before, restarts included: rewritten code is made from
\* what the site has sent for that very URL, and a file cut short is sent only
\* for a URL that also had short bodies, or was listed by an append that failed.
\* A URL whose body never changes always gets its own code.
ServesOwnHistory ==
    sent.codes # {} =>
        /\ sent.codes \ {Torn} \subseteq seen[sent.url]
        /\ Torn \in sent.codes => seen[sent.url] \cap Small # {} \/ sent.url \in unended

\* Rewritten code calls cc11001100_hook: it goes out without the plugins that
\* define it only while the last attempt to read them has failed, for at most
\* a second: loadPluginsAsStringWithCache() notes the time before it reads.
HooksDefined ==
    [][sent' # sent /\ sent'.codes # {} /\ sent'.plugins = None => readFailed]_vars

============================================================================
