---------------------------- MODULE DocumentSync ----------------------------
(***************************************************************************)
(* What text synchronization promises, without threads, jobs or locks.     *)
(* Every document has a current text and a published parse.  An edit makes *)
(* the parse stale.  While it is stale, parses of anything may be          *)
(* published; the publication that ends the staleness is of the current    *)
(* text.                                                                   *)
(***************************************************************************)
CONSTANTS Uris, Contents, NoText

VARIABLES text, parsed, stale, up
vars == <<text, parsed, stale, up>>

Init ==
    /\ text = [u \in Uris |-> NoText]
    /\ parsed = [u \in Uris |-> NoText]
    /\ stale = {}
    /\ up = TRUE

\* The document is opened or changed, perhaps to the text it has already.
Edit(u, t) ==
    /\ up
    /\ text' = [text EXCEPT ![u] = t]
    /\ stale' = stale \cup {u}
    /\ UNCHANGED <<parsed, up>>

\* A publication that a further one will follow.
PublishOutdated(u, t) ==
    /\ up
    /\ u \in stale
    /\ parsed' = [parsed EXCEPT ![u] = t]
    /\ UNCHANGED <<text, stale, up>>

Publish(u) ==
    /\ up
    /\ u \in stale
    /\ parsed' = [parsed EXCEPT ![u] = text[u]]
    /\ stale' = stale \ {u}
    /\ UNCHANGED <<text, up>>

Fail ==
    /\ up' = FALSE
    /\ UNCHANGED <<text, parsed, stale>>

Next ==
    \/ \E u \in Uris :
          \/ \E t \in Contents : Edit(u, t) \/ PublishOutdated(u, t)
          \/ Publish(u)
    \/ Fail

SafeSpec == Init /\ [][Next]_vars

Spec == SafeSpec /\ \A u \in Uris : WF_vars(Publish(u))

-----------------------------------------------------------------------------
TypeOK ==
    /\ text \in [Uris -> Contents]
    /\ parsed \in [Uris -> Contents]
    /\ stale \subseteq Uris
    /\ up \in BOOLEAN

\* A parse that is not due to be replaced is the parse of the current text
\* (handlers.cpp:81-83, 120-125; parse_manager.cpp:33-37).
Consistent == \A u \in Uris \ stale : parsed[u] = text[u]
=============================================================================
