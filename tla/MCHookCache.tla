---------------------------- MODULE MCHookCache ----------------------------
\* Two URLs that differ in their query, a short and two long scripts, one of
\* which injectHook() cannot rewrite, and JSON.
EXTENDS HookCache

CONSTANTS u1, u2, short, long, bad, json

BaseOfQuery == [u \in Urls |-> u1]
PagesMC == {{}, {short}, {short, bad}, {short, None}}
============================================================================
