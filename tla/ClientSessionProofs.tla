------------------------ MODULE ClientSessionProofs ------------------------
(***************************************************************************)
(* Proofs about ClientSession, for any documents, contents and bounds.     *)
(***************************************************************************)
EXTENDS ClientSession, LanguageServerProofs

-----------------------------------------------------------------------------
(* A session is a run of the server.                                       *)

LEMMA ClientStepIsDispatch == ClientStep => Dispatch
<1> SUFFICES ASSUME ClientStep PROVE Dispatch OBVIOUS
<1>1. CASE ClientControls BY <1>1 DEF ClientControls, Dispatch
<1>2. ASSUME NEW u \in Uris, NEW v \in Versions, NEW t \in Texts, ClientOpens(u, v, t)
      PROVE  Dispatch
  BY <1>2 DEF ClientOpens, Dispatch
<1>3. ASSUME NEW u \in Uris, NEW v \in Versions, NEW t \in Texts,
             NEW changes \in 1..MaxChanges, ClientChanges(u, v, t, changes)
      PROVE  Dispatch
  BY <1>3 DEF ClientChanges, Dispatch
<1>4. ASSUME NEW u \in Uris, ClientCloses(u) \/ ClientAsks(u)
      PROVE  Dispatch
  BY <1>4 DEF ClientCloses, ClientAsks, Dispatch
<1> QED BY <1>1, <1>2, <1>3, <1>4 DEF ClientStep

LEMMA SessionStepIsStep == [SessionNext]_sessionVars => [Next]_vars
  BY ClientStepIsDispatch DEF SessionNext, ServerStep, Next, sessionVars

\* Whatever is proved of the server, of any client, holds in a session with a
\* client that keeps to the protocol (server.cpp:47-189).
THEOREM SessionsAreRuns == SessionSpec => Spec
  BY SessionStepIsStep, PTL DEF SessionSpec, SessionInit, Spec

LEMMA SessionTypes == SessionSpec => []TypeInv
  BY SessionsAreRuns, InitTypeInv, NextTypeInv, PTL DEF Spec

-----------------------------------------------------------------------------
(* What the steps do to the documents, as far as a client knows them.      *)

\* The text, version and state of no document change, and no message is begun.
Quiet ==
    /\ UNCHANGED client
    /\ \A u \in Uris : /\ documents'[u].present = documents[u].present
                       /\ documents'[u].state = documents[u].state
                       /\ documents'[u].version = documents[u].version
                       /\ documents'[u].text = documents[u].text
    /\ \/ UNCHANGED <<pc, req>>
       \/ pc' \in {"reading", "shutdown", "ended"} /\ pc \notin {"writing", "closing", "ended"}
       \/ pc' = "ended" /\ pc = "ended"
       \/ pc' = "lookup" /\ pc = "cursor" /\ req' = req

\* A message of a client begins: its document is known already, or is opened.
LEMMA SessionFrame ==
    ASSUME TypeInv, [SessionNext]_sessionVars
    PROVE  \/ Quiet
           \/ \E u \in Uris, v \in Versions, t \in Texts :
                 \/ ClientOpens(u, v, t)
                 \/ \E changes \in 1..MaxChanges : ClientChanges(u, v, t, changes)
           \/ \E u \in Uris : ClientCloses(u) \/ ClientAsks(u)
           \/ (FinishChange \/ FinishClose) /\ UNCHANGED client
<1>0. documents \in [Uris -> Document] /\ (job.pc # "idle" => job.uri \in Uris)
  BY DEF TypeInv, TypeOK, DataTypeOK, StrandTypeOK
<1>1. CASE UNCHANGED sessionVars
  BY <1>1 DEF sessionVars, vars, mainVars, Quiet
<1>2. CASE ClientControls
  BY <1>2 DEF ClientControls, Initialize, Other, Shutdown, Exit, Read, mainVars, Quiet
<1>3. CASE ClientStep
  BY <1>2, <1>3 DEF ClientStep
<1>4. CASE UNCHANGED client /\ MainStep
  <2>1. CASE CursorUnknown \/ CursorMiss \/ CursorHit \/ Lookup
    BY <1>4, <2>1 DEF CursorUnknown, CursorMiss, CursorHit, Lookup, Quiet
  <2>2. CASE LookupCrash \/ AbortWrite \/ ResumeHandler \/ Destroy
    BY <1>4, <2>2 DEF LookupCrash, Crash, AbortWrite, ResumeHandler, Destroy, mainVars, Quiet
  <2> QED BY <1>4, <2>1, <2>2 DEF MainStep
<1>5. CASE UNCHANGED client /\ CompleteWrite
  BY <1>5 DEF CompleteWrite, InEventLoop, Quiet
<1>6. CASE UNCHANGED client /\ StrandStep
  <2>1. CASE StartReparse \/ StartCrash \/ Parse \/ LockIndex
    BY <1>6, <2>1 DEF StartReparse, StartCrash, Crash, Parse, LockIndex, mainVars, Quiet
  <2>2. CASE MoveContext \/ MoveScript
    BY <1>0, <1>6, <2>2 DEF MoveContext, MoveScript, JobAt, Document, mainVars, Quiet
  <2>3. CASE MoveIndex \/ FinishReparse
    BY <1>6, <2>3 DEF MoveIndex, FinishReparse, mainVars, Quiet
  <2> QED BY <1>6, <2>1, <2>2, <2>3 DEF StrandStep
<1>7. CASE UNCHANGED client /\ Finished
  BY <1>7 DEF Finished, vars, mainVars, Quiet
<1> QED BY <1>1, <1>3, <1>4, <1>5, <1>6, <1>7 DEF SessionNext, ServerStep, Internal

-----------------------------------------------------------------------------
(* The invariant.  A document is known from its first didOpen on, which is  *)
(* when the client has given it a version.                                  *)

ClientTypeOK == client \in [Uris -> [open : BOOLEAN, version : Versions \cup {0},
                                     text : Texts \cup {NoText}]]

Opened == \A u \in Uris :
              /\ client[u].open => client[u].version # 0
              /\ documents[u].present <=> client[u].version # 0

KnownInv == ClientTypeOK /\ Opened /\ OnlyKnownDocuments

\* The client and the server agree on the text and the version of the open
\* documents, except for the change that is being made.
AgreeOn(u) ==
    IF pc = "writing" /\ req.uri = u
    THEN client[u].text = req.text /\ client[u].version = req.version
    ELSE client[u].text = documents[u].text /\ client[u].version = documents[u].version

\* They agree on which are open, except for the one that is being closed.
ClosedOn(u) ==
    IF pc = "closing" /\ req.uri = u
    THEN ~client[u].open
    ELSE documents[u].state = "OPEN" <=> client[u].open

AgreeInv == /\ \A u \in Uris : client[u].open => AgreeOn(u)
            /\ pc = "writing" => client[req.uri].open
            /\ \A u \in Uris : documents[u].present => ClosedOn(u)

LEMMA InitSession == SessionInit => KnownInv /\ AgreeInv
  BY DEF SessionInit, Init, Absent, KnownInv, ClientTypeOK, Opened,
         OnlyKnownDocuments, AgreeInv, AgreeOn, ClosedOn

LEMMA OpenSession ==
    ASSUME TypeInv, KnownInv,
           NEW u \in Uris, NEW v \in Versions, NEW t \in Texts, ClientOpens(u, v, t)
    PROVE  KnownInv' /\ (~Reopens /\ AgreeInv => AgreeInv')
<1>1. /\ documents \in [Uris -> Document]
      /\ client \in [Uris -> [open : BOOLEAN, version : Versions \cup {0},
                              text : Texts \cup {NoText}]]
  BY DEF TypeInv, TypeOK, DataTypeOK, KnownInv, ClientTypeOK
<1>2. /\ ~client[u].open /\ (Reopens \/ client[u].version = 0)
      /\ client' = [client EXCEPT ![u] = [open |-> TRUE, version |-> v, text |-> t]]
      /\ pc = "reading" /\ pc' = "reading"
  BY DEF ClientOpens, DidOpen, Read
<1>3. ClientTypeOK' BY <1>1, <1>2 DEF ClientTypeOK
<1>4. /\ client'[u] = [open |-> TRUE, version |-> v, text |-> t]
      /\ \A w \in Uris : w # u => client'[w] = client[w]
  BY <1>1, <1>2
<1>5. /\ \A w \in Uris : w # u => documents'[w] = documents[w]
      /\ documents[u].present => documents'[u] = documents[u]
      /\ ~documents[u].present => /\ documents'[u].version = v
                                  /\ documents'[u].text = t
                                  /\ documents'[u].state = "OPEN"
      /\ documents'[u].present
  BY <1>1 DEF ClientOpens, DidOpen, Absent
<1>6. Opened' BY <1>4, <1>5 DEF KnownInv, Opened, Versions
<1>7. OnlyKnownDocuments' BY <1>2 DEF OnlyKnownDocuments
<1>8. ASSUME ~Reopens, AgreeInv PROVE AgreeInv'
  <2>1. ~documents[u].present BY <1>2, <1>8 DEF KnownInv, Opened
  <2> QED BY <1>2, <1>4, <1>5, <1>8, <2>1 DEF AgreeInv, AgreeOn, ClosedOn
<1> QED BY <1>3, <1>6, <1>7, <1>8 DEF KnownInv

LEMMA ChangeSession ==
    ASSUME TypeInv, KnownInv,
           NEW u \in Uris, NEW v \in Versions, NEW t \in Texts,
           NEW changes \in 1..MaxChanges, ClientChanges(u, v, t, changes)
    PROVE  KnownInv' /\ (MaxChanges <= 1 /\ AgreeInv => AgreeInv')
<1>1. /\ documents \in [Uris -> Document]
      /\ client \in [Uris -> [open : BOOLEAN, version : Versions \cup {0},
                              text : Texts \cup {NoText}]]
  BY DEF TypeInv, TypeOK, DataTypeOK, KnownInv, ClientTypeOK
<1>2. /\ client[u].open /\ v > client[u].version
      /\ client' = [client EXCEPT ![u].version = v, ![u].text = t]
      /\ pc = "reading" /\ documents' = documents
      /\ \/ DidChange(u, v, t, changes)
         \/ ~Accepts(u, v, changes) /\ pc' = pc
  BY DEF ClientChanges, DidChange, IgnoreChange, Read
<1>3. ClientTypeOK' BY <1>1, <1>2 DEF ClientTypeOK
<1>4. /\ client'[u].open /\ client'[u].version = v /\ client'[u].text = t
      /\ \A w \in Uris : w # u => client'[w] = client[w]
  BY <1>1, <1>2
<1>5. documents[u].present BY <1>2 DEF KnownInv, Opened
<1>6. Opened'
  <2>1. v # 0 BY DEF Versions
  <2> QED BY <1>2, <1>4, <1>5, <2>1 DEF KnownInv, Opened
<1>7. OnlyKnownDocuments'
  BY <1>2, <1>5 DEF OnlyKnownDocuments, DidChange
<1>8. ASSUME MaxChanges <= 1, AgreeInv PROVE AgreeInv'
  <2>1. client[u].version = documents[u].version
    BY <1>2, <1>8 DEF AgreeInv, AgreeOn
  <2>2. changes = 1 BY <1>8, BoundsAssumption
  <2>3. Accepts(u, v, changes)
    BY <1>1, <1>2, <1>5, <2>1, <2>2 DEF Accepts, Document
  <2>4. pc' = "writing" /\ req'.uri = u /\ req'.text = t /\ req'.version = v
    BY <1>2, <2>3 DEF DidChange
  <2>5. ASSUME NEW w \in Uris, w # u, AgreeOn(w) PROVE AgreeOn(w)'
    <3>1. client'[w] = client[w] BY <1>4, <2>5
    <3> QED BY <1>2, <2>4, <2>5, <3>1 DEF AgreeOn
  <2> QED BY <1>2, <1>4, <1>8, <2>4, <2>5 DEF AgreeInv, AgreeOn, ClosedOn
<1> QED BY <1>3, <1>6, <1>7, <1>8 DEF KnownInv

LEMMA CloseSession ==
    ASSUME TypeInv, KnownInv, NEW u \in Uris, ClientCloses(u)
    PROVE  KnownInv' /\ (AgreeInv => AgreeInv')
<1>1. client \in [Uris -> [open : BOOLEAN, version : Versions \cup {0},
                           text : Texts \cup {NoText}]]
  BY DEF KnownInv, ClientTypeOK
<1>2. /\ client[u].open /\ client' = [client EXCEPT ![u].open = FALSE]
      /\ pc = "reading" /\ pc' = "closing" /\ req'.uri = u /\ documents' = documents
  BY DEF ClientCloses, DidClose, Read, NoRequest
<1>3. /\ ~client'[u].open /\ client'[u].version = client[u].version
      /\ client'[u].text = client[u].text
      /\ \A w \in Uris : w # u => client'[w] = client[w]
  BY <1>1, <1>2
<1>4. ClientTypeOK' BY <1>1, <1>2 DEF ClientTypeOK
<1>5. Opened' /\ OnlyKnownDocuments'
  BY <1>2, <1>3 DEF KnownInv, Opened, OnlyKnownDocuments
<1>6. ASSUME AgreeInv PROVE AgreeInv'
  BY <1>2, <1>3, <1>6 DEF AgreeInv, AgreeOn, ClosedOn
<1> QED BY <1>4, <1>5, <1>6 DEF KnownInv

LEMMA AskSession ==
    ASSUME KnownInv, NEW u \in Uris, ClientAsks(u)
    PROVE  KnownInv' /\ (AgreeInv => AgreeInv')
<1>1. /\ client[u].open /\ client' = client /\ documents' = documents
      /\ pc = "reading" /\ pc' = "cursor" /\ req'.uri = u
  BY DEF ClientAsks, Request, Read, NoRequest
<1>2. documents[u].present BY <1>1 DEF KnownInv, Opened
<1> QED
  BY <1>1, <1>2 DEF KnownInv, ClientTypeOK, Opened, OnlyKnownDocuments,
                    AgreeInv, AgreeOn, ClosedOn

LEMMA FinishChangeSession ==
    ASSUME TypeInv, KnownInv, FinishChange, UNCHANGED client
    PROVE  KnownInv' /\ (AgreeInv => AgreeInv')
<1> DEFINE u == req.uri
<1>1. documents \in [Uris -> Document] /\ u \in Uris /\ pc = "writing" /\ pc' = "reading"
  BY DEF TypeInv, TypeOK, DataTypeOK, MainTypeOK, FinishChange
<1>2. /\ documents'[u].text = req.text /\ documents'[u].version = req.version
      /\ documents'[u].present = documents[u].present
      /\ documents'[u].state = documents[u].state
      /\ \A w \in Uris : w # u => documents'[w] = documents[w]
  BY <1>1 DEF FinishChange, Document
<1>3. KnownInv'
  BY <1>1, <1>2 DEF KnownInv, ClientTypeOK, Opened, OnlyKnownDocuments
<1>4. ASSUME AgreeInv PROVE AgreeInv'
  BY <1>1, <1>2, <1>4 DEF AgreeInv, AgreeOn, ClosedOn
<1> QED BY <1>3, <1>4

LEMMA FinishCloseSession ==
    ASSUME TypeInv, KnownInv, FinishClose, UNCHANGED client
    PROVE  KnownInv' /\ (AgreeInv => AgreeInv')
<1> DEFINE u == req.uri
<1>1. documents \in [Uris -> Document] /\ u \in Uris /\ pc = "closing"
  BY DEF TypeInv, TypeOK, DataTypeOK, MainTypeOK, FinishClose
<1>2. documents[u].present BY <1>1 DEF KnownInv, OnlyKnownDocuments
<1>3. /\ documents' = [documents EXCEPT ![u].state = "CLOSED"] /\ pc' = "reading"
  BY <1>2 DEF FinishClose
<1>4. /\ documents'[u].text = documents[u].text
      /\ documents'[u].version = documents[u].version
      /\ documents'[u].present = documents[u].present
      /\ documents'[u].state = "CLOSED"
      /\ \A w \in Uris : w # u => documents'[w] = documents[w]
  BY <1>1, <1>3 DEF Document
<1>5. KnownInv'
  BY <1>3, <1>4 DEF KnownInv, ClientTypeOK, Opened, OnlyKnownDocuments
<1>6. ASSUME AgreeInv PROVE AgreeInv'
  BY <1>1, <1>2, <1>3, <1>4, <1>6 DEF AgreeInv, AgreeOn, ClosedOn
<1> QED BY <1>5, <1>6

LEMMA QuietSession ==
    ASSUME TypeInv, KnownInv, Quiet
    PROVE  KnownInv' /\ (AgreeInv => AgreeInv')
<1>1. (req.uri \in Uris \/ pc \notin {"writing", "closing", "cursor", "lookup"})
  BY DEF TypeInv, TypeOK, MainTypeOK
<1>2. client' = client BY DEF Quiet
<1>3. KnownInv'
  BY <1>1, <1>2 DEF Quiet, KnownInv, ClientTypeOK, Opened, OnlyKnownDocuments
<1>4. ASSUME AgreeInv PROVE AgreeInv'
  BY <1>2, <1>4 DEF Quiet, AgreeInv, AgreeOn, ClosedOn
<1> QED BY <1>3, <1>4

LEMMA NextSession ==
    ASSUME TypeInv, KnownInv, [SessionNext]_sessionVars
    PROVE  KnownInv' /\ (~Reopens /\ MaxChanges <= 1 /\ AgreeInv => AgreeInv')
<1>1. CASE Quiet BY <1>1, QuietSession
<1>2. ASSUME NEW u \in Uris, NEW v \in Versions, NEW t \in Texts, ClientOpens(u, v, t)
      PROVE  KnownInv' /\ (~Reopens /\ MaxChanges <= 1 /\ AgreeInv => AgreeInv')
  BY <1>2, OpenSession
<1>3. ASSUME NEW u \in Uris, NEW v \in Versions, NEW t \in Texts,
             NEW changes \in 1..MaxChanges, ClientChanges(u, v, t, changes)
      PROVE  KnownInv' /\ (~Reopens /\ MaxChanges <= 1 /\ AgreeInv => AgreeInv')
  BY <1>3, ChangeSession
<1>4. ASSUME NEW u \in Uris, ClientCloses(u) \/ ClientAsks(u)
      PROVE  KnownInv' /\ (~Reopens /\ MaxChanges <= 1 /\ AgreeInv => AgreeInv')
  BY <1>4, CloseSession, AskSession
<1>5. CASE (FinishChange \/ FinishClose) /\ UNCHANGED client
  BY <1>5, FinishChangeSession, FinishCloseSession
<1> QED BY SessionFrame, <1>1, <1>2, <1>3, <1>4, <1>5

LEMMA KnownInvariant == SessionSpec => []KnownInv
<1>1. SessionInit => KnownInv BY InitSession
<1>2. TypeInv /\ KnownInv /\ [SessionNext]_sessionVars => KnownInv' BY NextSession
<1> QED BY <1>1, <1>2, SessionTypes, PTL DEF SessionSpec

LEMMA AgreeInvariant ==
    ASSUME ~Reopens, MaxChanges <= 1
    PROVE  SessionSpec => []AgreeInv
<1>1. SessionInit => AgreeInv BY InitSession
<1>2. TypeInv /\ KnownInv /\ AgreeInv /\ [SessionNext]_sessionVars => AgreeInv'
  BY NextSession
<1> QED BY <1>1, <1>2, SessionTypes, KnownInvariant, PTL DEF SessionSpec

\* The messages of a client that keeps to the protocol never name a document that
\* the server does not know, reopened documents included (handlers.cpp:116, 145;
\* parse_manager.cpp:47).
THEOREM DocumentsAreKnown == SessionSpec => []OnlyKnownDocuments
<1>1. KnownInv => OnlyKnownDocuments BY DEF KnownInv
<1> QED BY <1>1, KnownInvariant, PTL

\* Between two messages the server holds the client's text of every open document,
\* if the client sends one change at a time and opens no document again
\* (handlers.cpp:71-128).
THEOREM TextsAgree ==
    ASSUME ~Reopens, MaxChanges <= 1
    PROVE  SessionSpec => []TextIsTheClients
<1>1. AgreeInv => TextIsTheClients
  BY DEF AgreeInv, AgreeOn, TextIsTheClients, BothAgree
<1> QED BY <1>1, AgreeInvariant, PTL

\* Under the same conditions it holds open what the client does (server.hpp:40,
\* handlers.cpp:146-149).
THEOREM StatesAgree ==
    ASSUME ~Reopens, MaxChanges <= 1
    PROVE  SessionSpec => []StateIsTheClients
<1>1. AgreeInv => StateIsTheClients
  BY DEF AgreeInv, ClosedOn, StateIsTheClients
<1> QED BY <1>1, AgreeInvariant, PTL
=============================================================================
