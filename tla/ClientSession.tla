---------------------------- MODULE ClientSession ----------------------------
(***************************************************************************)
(* LanguageServer talking to a client that keeps to the protocol: it opens *)
(* a document that is not open, gives every change of an open document a   *)
(* higher version, closes and asks about open documents only.  The client  *)
(* remembers what it has told the server.                                  *)
(***************************************************************************)
EXTENDS LanguageServer

CONSTANT Reopens    \* the client opens documents again that it has closed
ASSUME ReopensAssumption == Reopens \in BOOLEAN

VARIABLE client     \* for each uri: is it open, its version and its text
sessionVars == <<client, vars>>

SessionInit ==
    /\ Init
    /\ client = [u \in Uris |-> [open |-> FALSE, version |-> 0, text |-> NoText]]

ClientOpens(u, v, t) ==
    /\ ~client[u].open
    /\ Reopens \/ client[u].version = 0
    /\ client' = [client EXCEPT ![u] = [open |-> TRUE, version |-> v, text |-> t]]
    /\ DidOpen(u, v, t)

\* `t' is the text after all the changes of the message.
ClientChanges(u, v, t, changes) ==
    /\ client[u].open
    /\ v > client[u].version
    /\ client' = [client EXCEPT ![u].version = v, ![u].text = t]
    /\ DidChange(u, v, t, changes) \/ IgnoreChange(u, v, changes)

ClientCloses(u) ==
    /\ client[u].open
    /\ client' = [client EXCEPT ![u].open = FALSE]
    /\ DidClose(u)

ClientAsks(u) ==
    /\ client[u].open
    /\ Request("references", u) \/ Request("definition", u)
    /\ UNCHANGED client

\* The session starts with initialize and ends with exit.
ClientControls ==
    /\ \/ nread = 0 /\ Initialize
       \/ Other
       \/ Shutdown
       \/ Exit
    /\ UNCHANGED client

ClientStep ==
    \/ ClientControls
    \/ \E u \in Uris :
          \/ \E v \in Versions, t \in Texts :
                \/ ClientOpens(u, v, t)
                \/ \E changes \in 1..MaxChanges : ClientChanges(u, v, t, changes)
          \/ ClientCloses(u)
          \/ ClientAsks(u)

ServerStep == Internal /\ UNCHANGED client

SessionNext == ClientStep \/ ServerStep \/ (Finished /\ UNCHANGED client)

SessionSpec == SessionInit /\ [][SessionNext]_sessionVars

FairSessionSpec ==
    /\ SessionSpec
    /\ WF_sessionVars(MainStep /\ UNCHANGED client)
    /\ WF_sessionVars(StrandStep /\ UNCHANGED client)
    /\ WF_sessionVars(CompleteWrite /\ UNCHANGED client)

-----------------------------------------------------------------------------
\* What the client believes the server has: the text it sent last.
BothAgree(u) == documents[u].text = client[u].text

\* "else protocol error!" (handlers.cpp:127): between two messages the server
\* holds the client's text of every open document, a change being left alone
\* only when the client broke the protocol.
TextIsTheClients ==
    pc = "reading" => \A u \in Uris : client[u].open => BothAgree(u)

\* didOpen makes a document open again, didClose closed (server.hpp:40,
\* handlers.cpp:146-149).
StateIsTheClients ==
    pc = "reading" =>
        \A u \in Uris : documents[u].present =>
            (documents[u].state = "OPEN" <=> client[u].open)

\* The messages of a correct client never make documents.at throw
\* (handlers.cpp:116, 145; parse_manager.cpp:47), which would drop a request or
\* end the loop.
OnlyKnownDocuments ==
    pc \in {"writing", "closing", "cursor", "lookup"} =>
        documents[req.uri].present

\* The parse of an open document ends up being that of the client's text
\* (handlers.cpp:71-84, 110-126), unless the process dies of a race.
ParseIsTheClients ==
    \A u \in Uris :
        []<>(\/ client[u].open => documents[u].script = client[u].text
             \/ life = "crashed")
=============================================================================
