-------------------------- MODULE HookCache_proofs --------------------------
(***************************************************************************)
(* The cache of the hooking proxy, for any URLs, bodies, pages and         *)
(* versions of the plugins, and any number of crashes and full disks.      *)
(***************************************************************************)
EXTENDS HookCache, TLAPS

\* The writer: it is idle while the proxy is down; while it is up, a listed URL
\* is in the Map, or about to be, or was listed by an append that failed. A file
\* is opened for a short body, for such a URL, or for one not known so far.
WriteInv ==
    /\ proxy # "up" => at = "idle" /\ cached = {}
    /\ proxy = "up" =>
          Listed \subseteq cached \cup unended \cup {u \in Urls : at = "set" /\ u = now.url}
    /\ at # "idle" => now.body \in seen[now.url]
    /\ at \in {"write", "content", "append"} =>
          \/ now.body \in Small
          \/ now.url \in unended
          \/ now.url \notin cached \cup Listed
    /\ at \in {"append", "set"} => file[now.url] = now.body
    /\ at = "set" /\ Readable => now.url \in Listed

\* A file holds code made from a body of its URL.
FileInv == \A u \in Urls : file[u] \in seen[u] \cup {None, Torn}

\* The file of a URL is there, and complete but for the two exceptions.
Stored(u) ==
    /\ file[u] # None
    /\ file[u] = Torn => seen[u] \cap Small # {} \/ u \in unended

\* The URLs of the Map are stored, also while they are not listed any more.
CachedInv == \A u \in cached : Stored(u)

\* A recent attempt to read the plugins that left nothing has failed.
PluginInv == recent /\ pluginsJsCodeCache = None => readFailed

\* What was sent was sent for a URL.
SentInv == sent.codes # {} => sent.url \in Urls

IInv ==
    /\ TypeOK /\ WriteInv /\ FileInv /\ CachedInv /\ PluginInv /\ SentInv
    /\ CacheSurvives /\ ServesOwnHistory

\* The type of what the plugin cache and the answers hold.
LEMMA HookedType ==
    ASSUME TypeOK, NEW u \in Urls, NEW codes \in SUBSET (Bodies \cup {Torn}),
           SendHooked(u, codes)
    PROVE  /\ pluginsJsCodeCache' \in Versions \cup {None}
           /\ recent' \in BOOLEAN /\ readFailed' \in BOOLEAN
           /\ sent' \in [url : Urls \cup {None}, codes : SUBSET (Bodies \cup {Torn}),
                         plugins : Versions \cup {None}]
<1>1. CASE PluginsLoad /\ sent' = [url |-> u, codes |-> codes, plugins |-> pluginsJsCodeCache']
    <2>1. pluginsJsCodeCache' \in Versions \cup {None}
        BY <1>1, Zenon DEF PluginsLoad, TypeOK
    <2>2. recent' \in BOOLEAN /\ readFailed' \in BOOLEAN
        BY <1>1, Zenon DEF PluginsLoad, TypeOK
    <2> QED
        BY <1>1, <2>1, <2>2
<1>2. CASE PluginsThrow /\ SendOriginal(u)
    BY <1>2 DEF PluginsThrow, SendOriginal, TypeOK
<1> QED
    BY <1>1, <1>2 DEF SendHooked

\* SendOriginal() answers with no rewritten code.
LEMMA OriginalType ==
    ASSUME NEW u \in Urls, SendOriginal(u)
    PROVE  sent' \in [url : Urls \cup {None}, codes : SUBSET (Bodies \cup {Torn}),
                      plugins : Versions \cup {None}]
BY DEF SendOriginal

\* Receive() records a body of the response.
LEMMA ReceiveType ==
    ASSUME TypeOK, NEW u \in Urls, NEW bodies \in SUBSET (Bodies \cup {None}),
           Receive(u, bodies)
    PROVE  /\ seen' \in [Urls -> SUBSET Bodies]
           /\ seen'[u] = seen[u] \cup (bodies \ (Throwing \cup {None}))
           /\ \A v \in Urls : seen[v] \subseteq seen'[v]
BY DEF TypeOK, Receive

\* While the disk and the writer stay as they are, more bodies do no harm.
LEMMA SeenGrows ==
    ASSUME IInv, UNCHANGED <<diskVars, proxy, cached, at, now>>,
           \A v \in Urls : seen[v] \subseteq seen'[v]
    PROVE  WriteInv' /\ FileInv' /\ CachedInv' /\ CacheSurvives'
<1>0. Listed' = Listed /\ Readable' = Readable /\ Listed \subseteq Urls
    BY DEF Listed, Readable, diskVars, metaVars, IInv, TypeOK
<1>1. WriteInv'
    <2>1. at # "idle" => now.url \in Urls
        BY DEF IInv, TypeOK
    <2> QED
        BY <1>0, <2>1 DEF IInv, WriteInv, diskVars
<1>2. FileInv'
    BY DEF IInv, FileInv, diskVars
<1>3. CachedInv' /\ CacheSurvives'
    BY <1>0 DEF IInv, TypeOK, CachedInv, Stored, CacheSurvives, diskVars
<1> QED
    BY <1>1, <1>2, <1>3

\* An answer without rewritten code, with more bodies on record.
LEMMA OriginalServes ==
    ASSUME NEW u \in Urls, SendOriginal(u)
    PROVE  SentInv' /\ ServesOwnHistory'
BY DEF SendOriginal, SentInv, ServesOwnHistory

\* An answer with rewritten code that was made from bodies on record.
LEMMA HookedServes ==
    ASSUME IInv, NEW u \in Urls, NEW codes, SendHooked(u, codes),
           codes \ {Torn} \subseteq seen'[u],
           Torn \in codes => seen'[u] \cap Small # {} \/ u \in unended'
    PROVE  SentInv' /\ ServesOwnHistory' /\ PluginInv'
<1>1. CASE PluginsLoad /\ sent' = [url |-> u, codes |-> codes, plugins |-> pluginsJsCodeCache']
    <2>1. SentInv' /\ ServesOwnHistory'
        BY <1>1 DEF SentInv, ServesOwnHistory
    <2>2. PluginInv'
        BY <1>1, Zenon DEF IInv, PluginInv, PluginsLoad
    <2> QED
        BY <2>1, <2>2
<1>2. CASE PluginsThrow /\ SendOriginal(u)
    BY <1>2, OriginalServes DEF PluginsThrow, PluginInv
<1> QED
    BY <1>1, <1>2 DEF SendHooked

\* PassThrough() sends the response as it came.
LEMMA PassThroughInv ==
    ASSUME IInv, NEW u \in Urls, NEW b \in Bodies, PassThrough(u, b)
    PROVE  IInv'
<1>0. TypeOK /\ {b} \in SUBSET (Bodies \cup {None}) /\ Receive(u, {b})
    BY DEF IInv, PassThrough
<1>1. TypeOK'
    BY <1>0, ReceiveType, OriginalType DEF TypeOK, PassThrough, Receive, diskVars, metaVars, pluginVars, NoResponse
<1>2. WriteInv' /\ FileInv' /\ CachedInv' /\ CacheSurvives'
    BY <1>0, ReceiveType, SeenGrows DEF PassThrough, Receive, diskVars
<1>3. PluginInv'
    BY DEF IInv, PluginInv, PassThrough, pluginVars
<1>4. SentInv' /\ ServesOwnHistory'
    BY OriginalServes DEF PassThrough
<1> QED
    BY <1>1, <1>2, <1>3, <1>4 DEF IInv

\* processFromCache() sends the file of a listed URL.
LEMMA FromCacheInv ==
    ASSUME IInv, NEW u \in Urls, NEW b \in Bodies, processFromCache(u, b)
    PROVE  IInv'
<1>0. TypeOK /\ {b} \in SUBSET (Bodies \cup {None}) /\ Receive(u, {b})
    BY DEF IInv, processFromCache
<1>1. WriteInv' /\ FileInv' /\ CachedInv' /\ CacheSurvives'
    BY <1>0, ReceiveType, SeenGrows DEF processFromCache, Receive, diskVars
<1>2. CASE file[u] = None
    <2>1. SendOriginal(u) /\ UNCHANGED pluginVars
        BY <1>2 DEF processFromCache, CacheKey
    <2>2. TypeOK'
        BY <1>0, <2>1, ReceiveType, OriginalType
           DEF TypeOK, processFromCache, Receive, diskVars, metaVars, pluginVars, NoResponse
    <2>3. PluginInv'
        BY <2>1 DEF IInv, PluginInv, pluginVars
    <2>4. SentInv' /\ ServesOwnHistory'
        BY <2>1, OriginalServes
    <2> QED
        BY <1>1, <2>2, <2>3, <2>4 DEF IInv
<1>3. CASE file[u] # None
    <2>1. SendHooked(u, {file[u]})
        BY <1>3 DEF processFromCache, CacheKey
    <2>2. u \in cached
        BY DEF processFromCache, UsesCache, CacheKey
    <2>3. /\ file[u] \in seen[u] \cup {Torn}
          /\ file[u] = Torn => seen[u] \cap Small # {} \/ u \in unended
        BY <1>3, <2>2 DEF IInv, FileInv, CachedInv, Stored
    <2>4. /\ {file[u]} \ {Torn} \subseteq seen'[u]
          /\ Torn \in {file[u]} => seen'[u] \cap Small # {} \/ u \in unended'
        BY <1>0, <2>3, ReceiveType DEF Receive, diskVars
    <2>5. SentInv' /\ ServesOwnHistory' /\ PluginInv'
        BY <2>1, <2>4, HookedServes
    <2>6. {file[u]} \in SUBSET (Bodies \cup {Torn})
        BY <1>0, <1>3 DEF TypeOK
    <2>7. TypeOK'
        BY <1>0, <2>1, <2>6, ReceiveType, HookedType
           DEF TypeOK, processFromCache, Receive, diskVars, metaVars, NoResponse
    <2> QED
        BY <1>1, <2>5, <2>7 DEF IInv
<1> QED
    BY <1>2, <1>3

\* processHtmlResponse() sends the page with all of its scripts rewritten, or
\* as it came.
LEMMA HtmlInv ==
    ASSUME IInv, NEW u \in Urls, NEW page \in Pages, processHtmlResponse(u, page)
    PROVE  IInv'
<1>0. TypeOK /\ page \in SUBSET (Bodies \cup {None}) /\ Receive(u, page)
    BY BodiesAssumption DEF IInv, processHtmlResponse
<1>1. WriteInv' /\ FileInv' /\ CachedInv' /\ CacheSurvives'
    BY <1>0, ReceiveType, SeenGrows DEF processHtmlResponse, Receive, diskVars
<1>2. CASE page \cap (Throwing \cup {None}) = {} /\ SendHooked(u, page)
    <2>1. page \ {Torn} \subseteq seen'[u] /\ Torn \notin page
        BY <1>0, <1>2, ReceiveType, BodiesAssumption
    <2>2. SentInv' /\ ServesOwnHistory' /\ PluginInv'
        BY <1>2, <2>1, HookedServes
    <2>3. page \in SUBSET (Bodies \cup {Torn})
        BY <1>0, <1>2
    <2>4. TypeOK'
        BY <1>0, <1>2, <2>3, ReceiveType, HookedType
           DEF TypeOK, processHtmlResponse, Receive, diskVars, metaVars, NoResponse
    <2> QED
        BY <1>1, <2>2, <2>4 DEF IInv
<1>3. CASE SendOriginal(u) /\ (UNCHANGED pluginVars \/ PluginsLoad \/ PluginsThrow)
    <2>1. /\ pluginsJsCodeCache' \in Versions \cup {None}
          /\ recent' \in BOOLEAN /\ readFailed' \in BOOLEAN
        BY <1>0, <1>3, Zenon DEF TypeOK, PluginsLoad, PluginsThrow, pluginVars
    <2>2. TypeOK'
        BY <1>0, <1>3, <2>1, ReceiveType, OriginalType
           DEF TypeOK, processHtmlResponse, Receive, diskVars, metaVars, NoResponse
    <2>3. PluginInv'
        <3>1. CASE UNCHANGED pluginVars
            BY <3>1 DEF IInv, PluginInv, pluginVars
        <3>2. CASE PluginsLoad
            BY <3>2, Zenon DEF IInv, PluginInv, PluginsLoad
        <3>3. CASE PluginsThrow
            BY <3>3 DEF PluginInv, PluginsThrow
        <3> QED
            BY <1>3, <3>1, <3>2, <3>3
    <2>4. SentInv' /\ ServesOwnHistory'
        BY <1>3, OriginalServes
    <2> QED
        BY <1>1, <2>2, <2>3, <2>4 DEF IInv
<1> QED
    BY <1>2, <1>3 DEF processHtmlResponse

\* processRealtime() begins to write for a short body or a URL not in the Map.
LEMMA RealtimeInv ==
    ASSUME IInv, NEW u \in Urls, NEW b \in Bodies, processRealtime(u, b)
    PROVE  IInv'
<1>0. TypeOK /\ {b} \in SUBSET (Bodies \cup {None}) /\ Receive(u, {b})
    BY DEF IInv, processRealtime
<1>1. TypeOK'
    BY <1>0, ReceiveType DEF TypeOK, processRealtime, Receive, diskVars, metaVars, pluginVars
<1>a. Listed' = Listed /\ Readable' = Readable /\ Listed \subseteq Urls
    BY <1>0 DEF Listed, Readable, Receive, diskVars, metaVars, TypeOK
<1>2. WriteInv'
    <2>1. at = "idle" /\ proxy = "up" /\ Listed \subseteq cached \cup unended
        BY <1>0 DEF Receive, Idle, IInv, WriteInv
    <2>2. b \in seen'[u]
        BY <1>0, ReceiveType, BodiesAssumption DEF processRealtime
    <2>3. b \in Small \/ u \in unended \/ u \notin cached \cup Listed
        BY <2>1 DEF processRealtime, UsesCache, CacheKey
    <2> QED
        BY <1>0, <1>a, <2>1, <2>2, <2>3 DEF processRealtime, Receive, diskVars, WriteInv
<1>3. FileInv' /\ CachedInv' /\ CacheSurvives'
    BY <1>0, <1>a, ReceiveType
       DEF IInv, TypeOK, FileInv, CachedInv, Stored, CacheSurvives, processRealtime, Receive, diskVars
<1>4. PluginInv'
    BY DEF IInv, PluginInv, processRealtime, pluginVars
<1>5. SentInv' /\ ServesOwnHistory'
    BY <1>0, ReceiveType DEF IInv, SentInv, ServesOwnHistory, processRealtime, Receive, diskVars
<1> QED
    BY <1>1, <1>2, <1>3, <1>4, <1>5 DEF IInv

\* While nothing is received or sent, what was sent stays right.
LEMMA ServesUnchanged ==
    ASSUME IInv, UNCHANGED <<sent, seen>>, unended \subseteq unended'
    PROVE  SentInv' /\ ServesOwnHistory'
BY DEF IInv, SentInv, ServesOwnHistory

\* writeFileSync(): the file is torn for a moment, and complete again before
\* its URL is listed.
LEMMA FileSteps ==
    ASSUME IInv, OpenFile \/ WriteFile
    PROVE  IInv'
<1>0. now \in [url : Urls, body : Bodies] /\ proxy = "up"
    BY DEF IInv, TypeOK, OpenFile, WriteFile
<1>a. Listed' = Listed /\ Readable' = Readable /\ Listed \subseteq Urls
    BY DEF Listed, Readable, OpenFile, WriteFile, metaVars, IInv, TypeOK
<1>1. TypeOK'
    BY <1>0 DEF IInv, TypeOK, OpenFile, WriteFile, CacheKey, pluginVars, metaVars
<1>2. WriteInv'
    BY <1>0, <1>a DEF IInv, TypeOK, WriteInv, OpenFile, WriteFile, CacheKey
<1>3. FileInv'
    BY <1>0 DEF IInv, TypeOK, WriteInv, FileInv, OpenFile, WriteFile, CacheKey
<1>4. CachedInv' /\ CacheSurvives'
    <2>1. CASE OpenFile
        <3>1. now.url \in cached \cup Listed => seen[now.url] \cap Small # {} \/ now.url \in unended
            BY <2>1 DEF IInv, WriteInv, OpenFile
        <3> QED
            BY <1>0, <1>a, <2>1, <3>1, BodiesAssumption
               DEF IInv, TypeOK, CachedInv, Stored, CacheSurvives, OpenFile, CacheKey
    <2>2. CASE WriteFile
        BY <1>0, <1>a, <2>2, BodiesAssumption
           DEF IInv, TypeOK, CachedInv, Stored, CacheSurvives, WriteFile, CacheKey
    <2> QED
        BY <2>1, <2>2
<1>5. PluginInv' /\ SentInv' /\ ServesOwnHistory'
    BY ServesUnchanged DEF IInv, PluginInv, OpenFile, WriteFile, pluginVars
<1> QED
    BY <1>1, <1>2, <1>3, <1>4, <1>5 DEF IInv

\* appendFileSync(): the file of the URL that is listed is complete, and a line
\* that is glued to another cannot be read back.
LEMMA AppendInv ==
    ASSUME IInv, AppendMeta
    PROVE  IInv'
<1>0. now \in [url : Urls, body : Bodies] /\ file[now.url] = now.body
    BY DEF IInv, TypeOK, WriteInv, AppendMeta
<1>a. /\ Listed' \subseteq Listed \cup {now.url}
      /\ Readable' => Readable /\ tail = None /\ Listed' = Listed \cup {now.url}
      /\ Listed \subseteq Urls
    BY DEF Listed, Readable, AppendMeta, CacheKey, IInv, TypeOK
<1>1. TypeOK'
    <2>1. glued' \in BOOLEAN
        BY Zenon DEF IInv, TypeOK, AppendMeta
    <2> QED
        BY <1>0, <2>1 DEF IInv, TypeOK, AppendMeta, CacheKey, pluginVars
<1>2. WriteInv'
    BY <1>0, <1>a DEF IInv, TypeOK, WriteInv, AppendMeta
<1>3. FileInv' /\ CachedInv' /\ CacheSurvives'
    BY <1>0, <1>a, BodiesAssumption
       DEF IInv, TypeOK, FileInv, CachedInv, Stored, CacheSurvives, AppendMeta
<1>4. PluginInv' /\ SentInv' /\ ServesOwnHistory'
    BY ServesUnchanged DEF IInv, PluginInv, AppendMeta, pluginVars
<1> QED
    BY <1>1, <1>2, <1>3, <1>4 DEF IInv

\* What a cut-off append leaves: at most the URL that was being stored is listed
\* in addition, and what was listed stays so while all lines can be read.
LEMMA CutFacts ==
    ASSUME IInv, AppendCut
    PROVE  /\ tail' \in Urls \cup {None, Torn}
           /\ UNCHANGED <<meta, glued>>
           /\ Listed' \subseteq Listed \cup ({tail'} \ {None, tail, Torn})
           /\ tail' \notin {None, tail, Torn} => at = "append" /\ tail' = now.url
           /\ tail' \notin {tail, Torn} => tail' # None
           /\ Readable' => Listed \subseteq Listed'
           /\ Readable' => Readable
<1>1. at = "append" => now.url \in Urls
    BY DEF IInv, TypeOK
<1>2. tail \in Urls \cup {None, Torn} /\ UNCHANGED <<meta, glued>>
    BY DEF IInv, TypeOK, AppendCut
<1>3. CASE tail' = tail
    BY <1>2, <1>3 DEF Listed, Readable
<1>4. CASE tail' = Torn
    BY <1>2, <1>4 DEF Listed, Readable
<1>5. CASE at = "append" /\ tail = None /\ tail' = now.url
    BY <1>1, <1>2, <1>5, UrlsAssumption, BodiesAssumption DEF Listed, Readable
<1> QED
    BY <1>3, <1>4, <1>5 DEF AppendCut, CacheKey

\* A full disk: the writer is idle again, and its URL may be listed.
LEMMA DiskFullInv ==
    ASSUME IInv, DiskFull
    PROVE  IInv'
<1>0. /\ now.url \in Urls /\ SendOriginal(now.url) /\ AppendCut /\ proxy = "up"
      /\ unended' = unended \cup ({tail'} \ {tail, Torn})
      /\ UNCHANGED <<file, proxy, cached, seen>> /\ at' = "idle" /\ now' = NoResponse
    BY DEF IInv, TypeOK, DiskFull
<1>a. Listed \subseteq Urls /\ Listed' \subseteq Urls
    BY <1>0, CutFacts DEF Listed, IInv, TypeOK
<1>1. TypeOK'
    <2>1. unended' \subseteq Urls
        BY <1>0, CutFacts DEF IInv, TypeOK
    <2> QED
        BY <1>0, <2>1, CutFacts, OriginalType DEF IInv, TypeOK, DiskFull, pluginVars
<1>2. WriteInv'
    <2>1. Listed \subseteq cached \cup unended
        BY <1>0 DEF IInv, WriteInv, DiskFull
    <2>2. Listed' \subseteq cached' \cup unended'
        BY <1>0, <2>1, CutFacts
    <2> QED
        BY <1>0, <2>2 DEF WriteInv
<1>3. FileInv' /\ CachedInv'
    BY <1>0 DEF IInv, FileInv, CachedInv, Stored
<1>4. CacheSurvives'
    <2>1. \A u \in Listed' : u \in Listed \/ (u = now.url /\ at = "append")
        BY <1>0, CutFacts
    <2>2. at = "append" => file[now.url] \in Bodies
        BY DEF IInv, TypeOK, WriteInv
    <2>3. \A u \in Listed' : Stored(u)'
        BY <1>0, <1>a, <2>1, <2>2, BodiesAssumption DEF IInv, CacheSurvives, Stored
    <2>4. Readable' => cached' \subseteq Listed'
        BY <1>0, CutFacts DEF IInv, CacheSurvives
    <2> QED
        BY <2>3, <2>4 DEF CacheSurvives, Stored
<1>5. PluginInv'
    BY DEF IInv, PluginInv, DiskFull, pluginVars
<1>6. SentInv' /\ ServesOwnHistory'
    BY <1>0, OriginalServes
<1> QED
    BY <1>1, <1>2, <1>3, <1>4, <1>5, <1>6 DEF IInv

\* The end of processRealtime(): the Map gets what is listed already.
LEMMA ReplyInv ==
    ASSUME IInv, Reply
    PROVE  IInv'
<1>0. now \in [url : Urls, body : Bodies] /\ SendHooked(now.url, {now.body})
    BY DEF IInv, TypeOK, Reply
<1>a. Listed' = Listed /\ Readable' = Readable /\ Listed \subseteq Urls
    BY DEF Listed, Readable, Reply, diskVars, metaVars, IInv, TypeOK
<1>1. now.body \in seen[now.url] /\ now.body # Torn /\ seen' = seen
    BY <1>0, BodiesAssumption DEF IInv, WriteInv, Reply
<1>2. SentInv' /\ ServesOwnHistory' /\ PluginInv'
    <2>1. {now.body} \ {Torn} \subseteq seen'[now.url] /\ Torn \notin {now.body}
        BY <1>1
    <2> QED
        BY <1>0, <2>1, HookedServes
<1>3. TypeOK'
    <2>1. {now.body} \in SUBSET (Bodies \cup {Torn})
        BY <1>0
    <2> QED
        BY <1>0, <2>1, HookedType DEF IInv, TypeOK, Reply, CacheKey, diskVars, metaVars
<1>4. WriteInv'
    BY <1>0, <1>a DEF IInv, TypeOK, WriteInv, Reply, CacheKey, diskVars
<1>5. FileInv' /\ CachedInv' /\ CacheSurvives'
    BY <1>0, <1>a, <1>1, BodiesAssumption
       DEF IInv, WriteInv, FileInv, CachedInv, Stored, CacheSurvives, Reply, CacheKey, diskVars
<1> QED
    BY <1>2, <1>3, <1>4, <1>5 DEF IInv

\* A start reads back what is listed.
LEMMA StartInv ==
    ASSUME IInv, Start \/ StartFails
    PROVE  IInv'
<1>a. Listed' = Listed /\ Readable' = Readable /\ Listed \subseteq Urls
    BY DEF Listed, Readable, Start, StartFails, diskVars, metaVars, IInv, TypeOK
<1>1. TypeOK'
    BY <1>a DEF IInv, TypeOK, Start, StartFails, diskVars, metaVars, pluginVars
<1>2. WriteInv'
    BY <1>a DEF IInv, TypeOK, WriteInv, Start, StartFails, diskVars
<1>3. FileInv' /\ CachedInv' /\ CacheSurvives'
    BY <1>a DEF IInv, FileInv, CachedInv, Stored, CacheSurvives, Start, StartFails, diskVars
<1>4. PluginInv' /\ SentInv' /\ ServesOwnHistory'
    BY ServesUnchanged DEF IInv, PluginInv, Start, StartFails, pluginVars, diskVars
<1> QED
    BY <1>1, <1>2, <1>3, <1>4 DEF IInv

\* A crash keeps what is listed, and may list the URL that was being stored.
LEMMA CrashInv ==
    ASSUME IInv, Crash
    PROVE  IInv'
<1>0. AppendCut /\ UNCHANGED <<file, unended, seen, sent>> /\ cached' = {} /\ at' = "idle"
    BY DEF Crash
<1>a. Listed \subseteq Urls /\ Listed' \subseteq Urls
    BY <1>0, CutFacts DEF Listed, IInv, TypeOK
<1>1. TypeOK'
    BY <1>0, CutFacts DEF IInv, TypeOK, Crash
<1>2. WriteInv'
    BY DEF WriteInv, Crash
<1>3. FileInv' /\ CachedInv'
    BY <1>0 DEF IInv, FileInv, CachedInv
<1>4. CacheSurvives'
    <2>1. \A u \in Listed' : u \in Listed \/ (u = now.url /\ at = "append")
        BY <1>0, CutFacts
    <2>2. at = "append" => file[now.url] \in Bodies
        BY DEF IInv, TypeOK, WriteInv
    <2> QED
        BY <1>0, <2>1, <2>2, BodiesAssumption DEF IInv, CacheSurvives
<1>5. PluginInv' /\ SentInv' /\ ServesOwnHistory'
    BY <1>0, ServesUnchanged DEF PluginInv, Crash
<1> QED
    BY <1>1, <1>2, <1>3, <1>4, <1>5 DEF IInv

\* The plugin files change, or time passes.
LEMMA PluginSteps ==
    ASSUME IInv, EditPlugins \/ Later
    PROVE  IInv'
<1>1. TypeOK'
    BY DEF IInv, TypeOK, EditPlugins, Later, diskVars, metaVars, pluginVars, NoResponse
<1>2. WriteInv' /\ FileInv' /\ CachedInv' /\ CacheSurvives'
    BY SeenGrows DEF EditPlugins, Later
<1>3. PluginInv' /\ SentInv' /\ ServesOwnHistory'
    BY ServesUnchanged DEF IInv, PluginInv, EditPlugins, Later, pluginVars, diskVars
<1> QED
    BY <1>1, <1>2, <1>3 DEF IInv

\* The initial states satisfy the invariant.
LEMMA InitInv == Init => IInv
<1> SUFFICES ASSUME Init PROVE IInv
    OBVIOUS
<1>1. TypeOK
    BY DEF Init, TypeOK
<1>2. WriteInv
    BY DEF Init, WriteInv
<1>3. FileInv /\ CachedInv /\ CacheSurvives
    BY DEF Init, FileInv, CachedInv, CacheSurvives, Listed
<1>4. PluginInv /\ SentInv /\ ServesOwnHistory
    BY DEF Init, PluginInv, SentInv, ServesOwnHistory
<1> QED
    BY <1>1, <1>2, <1>3, <1>4 DEF IInv

\* Every step keeps the invariant.
LEMMA NextInv == IInv /\ [Next]_vars => IInv'
<1> SUFFICES ASSUME IInv, [Next]_vars PROVE IInv'
    OBVIOUS
<1>1. CASE UNCHANGED vars
    <2>1. WriteInv' /\ FileInv' /\ CachedInv' /\ CacheSurvives'
        BY <1>1, SeenGrows DEF vars
    <2>2. SentInv' /\ ServesOwnHistory' /\ PluginInv'
        BY <1>1, ServesUnchanged DEF vars, diskVars, pluginVars, IInv, PluginInv
    <2>3. TypeOK'
        BY <1>1 DEF vars, diskVars, metaVars, pluginVars, IInv, TypeOK, NoResponse
    <2> QED
        BY <2>1, <2>2, <2>3 DEF IInv
<1> QED
    BY <1>1, PassThroughInv, FromCacheInv, RealtimeInv, HtmlInv, FileSteps, AppendInv,
       DiskFullInv, ReplyInv, StartInv, CrashInv, PluginSteps
       DEF Next
-----------------------------------------------------------------------------
\* Every state of the proxy and its cache is well typed.
THEOREM TypeCorrect == Spec => []TypeOK
<1>1. IInv => TypeOK
    BY DEF IInv
<1> QED
    BY <1>1, InitInv, NextInv, PTL DEF Spec

\* processRealtime() writes the file, then its line, then the Map: whatever
\* write the process dies or the disk runs full in, a meta.jsonl that can still
\* be read lists every URL of the Map, and every listed URL has a file, torn only
\* if short bodies of that URL were rewritten over it, or if its line was
\* completed but for the newline by an append that failed.
THEOREM CacheSurvivesCrashes == Spec => []CacheSurvives
<1>1. IInv => CacheSurvives
    BY DEF IInv
<1> QED
    BY <1>1, InitInv, NextInv, PTL DEF Spec

\* process(): rewritten code was made from a body of the URL it is sent for,
\* across restarts.
THEOREM ServesItsOwn == Spec => []ServesOwnHistory
<1>1. IInv => ServesOwnHistory
    BY DEF IInv
<1> QED
    BY <1>1, InitInv, NextInv, PTL DEF Spec

\* loadPluginsAsStringWithCache(): code without its hook is sent only in the
\* second after a failed attempt to read the plugins.
THEOREM HooksAreDefined == Spec => HooksDefined
<1>1. ASSUME IInv, NEW u, NEW codes, SendHooked(u, codes),
             sent'.codes # {}, sent'.plugins = None
      PROVE  readFailed
    <2>1. CASE PluginsLoad /\ sent' = [url |-> u, codes |-> codes, plugins |-> pluginsJsCodeCache']
        <3>1. pluginsJsCodeCache' = None
            BY <1>1, <2>1
        <3>2. recent /\ pluginsJsCodeCache = None
            BY <2>1, <3>1, Zenon DEF PluginsLoad
        <3> QED
            BY <1>1, <3>2 DEF IInv, PluginInv
    <2>2. CASE PluginsThrow /\ SendOriginal(u)
        BY <1>1, <2>2 DEF SendOriginal
    <2> QED
        BY <1>1, <2>1, <2>2 DEF SendHooked
<1>2. ASSUME NEW u, SendOriginal(u) PROVE sent'.codes = {}
    BY <1>2 DEF SendOriginal
<1>3. IInv /\ [Next]_vars =>
        [sent' # sent /\ sent'.codes # {} /\ sent'.plugins = None => readFailed]_vars
    <2> SUFFICES ASSUME IInv, Next, sent' # sent, sent'.codes # {}, sent'.plugins = None
                 PROVE  readFailed
        BY DEF vars
    <2>1. ASSUME NEW u \in Urls, NEW b \in Bodies,
                 PassThrough(u, b) \/ processFromCache(u, b) \/ processRealtime(u, b)
          PROVE  readFailed
        BY <1>1, <1>2, <2>1 DEF PassThrough, processFromCache, processRealtime
    <2>2. ASSUME NEW u \in Urls, NEW page \in Pages, processHtmlResponse(u, page)
          PROVE  readFailed
        BY <1>1, <1>2, <2>2 DEF processHtmlResponse
    <2>3. CASE DiskFull
        BY <1>2, <2>3 DEF DiskFull
    <2>4. CASE Reply
        BY <1>1, <2>4 DEF Reply
    <2> QED
        BY <2>1, <2>2, <2>3, <2>4
           DEF Next, EditPlugins, Later, OpenFile, WriteFile, AppendMeta, Start, StartFails, Crash
<1> QED
    BY <1>3, InitInv, NextInv, PTL DEF Spec, HooksDefined
=============================================================================
