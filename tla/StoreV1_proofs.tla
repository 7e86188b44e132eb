---------------------------- MODULE StoreV1_proofs ----------------------------
(***************************************************************************)
(* Inv, AckedIsStored and NoWriteAfterSuppression of StoreV1 for any       *)
(* number of handlers, installations, bodies and privacy requests.  The    *)
(* argument is what a handler knows between two statements because it      *)
(* holds v1Mu or v2Mu (Knows), and what a step of one handler leaves to    *)
(* the others (OthersKnow).                                                *)
(***************************************************************************)
EXTENDS StoreV1, TLAPS

V1Steps == Tables \cup {"suppression"}
V2Steps == {"request", "record"}

\* What handler h may rely on before its next statement.
Knows(h) ==
  /\ pc[h] = "v1lock" => arg[h] \in Bodies \cup LegacyBodies
  /\ pc[h] \in V1Steps => arg[h] \in Bodies /\ v1Mu = h
  /\ pc[h] \in Tables => ~Suppressed(arg[h])
  /\ pc[h] = "session_summaries" /\ "events" \in PartsOf[arg[h]] => arg[h] \in rows["events"]
  /\ pc[h] \in {"v2lock"} \cup V2Steps =>
       arg[h] \in PrivacyBodies /\ (arg[h] \in LegacyBodies => v1Mu = h)
  /\ pc[h] \in V2Steps => v2Mu = h
  /\ pc[h] = "record" => \A q \in suppressions : RequestOf[q] # RequestOf[arg[h]]

HandlersKnow == \A h \in Handlers : Knows(h)

ErasedIsRecorded == \A p \in LegacyBodies : erased[p] > 0 => p \in suppressions

TablesAgree == OneBodyPerRequest /\ ErasedStaysErased /\ ErasedIsRecorded /\ AckedIsStored

IInv == TypeOK /\ HandlersKnow /\ TablesAgree

\* What a step of handler h leaves to the others.
LeavesOthers(h) ==
  /\ \A k \in Handlers \ {h} :
       /\ pc'[k] = pc[k] /\ arg'[k] = arg[k]
       /\ (v1Mu = k => v1Mu' = k) /\ (v2Mu = k => v2Mu' = k)
  /\ \/ suppressions' = suppressions
     \/ pc[h] = "record" /\ suppressions' = suppressions \cup {arg[h]}
  /\ \A b \in Bodies : ~Suppressed(b) /\ b \in rows["events"] => b \in rows'["events"]

LEMMA OthersKnow ==
  ASSUME IInv, NEW h \in Handlers, LeavesOthers(h), NEW k \in Handlers \ {h}
  PROVE  Knows(k)'
<1>1. Knows(k) /\ Knows(h)
  BY DEF IInv, HandlersKnow
<1>2. pc'[k] = pc[k] /\ arg'[k] = arg[k] /\ (v1Mu = k => v1Mu' = k) /\ (v2Mu = k => v2Mu' = k)
  BY DEF LeavesOthers
<1>3. ASSUME pc[k] \in Tables
      PROVE  ~Suppressed(arg[k])'
  <2>1. arg[k] \in Bodies /\ v1Mu = k /\ ~Suppressed(arg[k])
    BY <1>1, <1>3 DEF Knows, V1Steps
  <2>2. \A p \in LegacyBodies : p \in suppressions' => p \in suppressions
    BY <1>1, <2>1 DEF LeavesOthers, Knows, V2Steps
  <2> QED BY <1>2, <2>1, <2>2 DEF Suppressed, Mine
<1>4. ASSUME pc[k] = "record"
      PROVE  suppressions' = suppressions
  BY <1>1, <1>4 DEF LeavesOthers, Knows, V2Steps
<1> QED
  BY <1>1, <1>2, <1>3, <1>4 DEF Knows, LeavesOthers, V1Steps, V2Steps, Tables

-----------------------------------------------------------------------------
(* Types and tables                                                        *)

LocalsOK ==
  /\ v1Mu \in Handlers \cup {Nobody} /\ v2Mu \in Handlers \cup {Nobody}
  /\ pc \in [Handlers -> V1Steps \cup V2Steps \cup {"idle", "v1lock", "v2lock"}]
  /\ arg \in [Handlers -> Bodies \cup PrivacyBodies \cup {NoBody}]

TablesOK ==
  /\ rows \in [Tables -> SUBSET Bodies]
  /\ suppressions \subseteq PrivacyBodies
  /\ erased \in [LegacyBodies -> 0..2]
  /\ outage \in BOOLEAN /\ acked \subseteq Bodies \cup PrivacyBodies

LEMMA TypeParts ==
  /\ TypeOK <=> LocalsOK /\ TablesOK
  /\ TypeOK' <=> LocalsOK' /\ TablesOK'
BY DEF TypeOK, LocalsOK, TablesOK, V1Steps, V2Steps

LEMMA TablesUntouched ==
  ASSUME IInv, UNCHANGED <<tables, erased>>, outage' \in BOOLEAN,
         acked' \subseteq Bodies \cup PrivacyBodies,
         \A b \in (acked' \ acked) \cap Bodies : Suppressed(b) \/ \A t \in PartsOf[b] : b \in rows[t],
         (acked' \ acked) \cap PrivacyBodies \subseteq suppressions
  PROVE  TablesOK' /\ TablesAgree'
<1>1. TablesOK /\ TablesAgree
  BY TypeParts DEF IInv
<1>2. TablesOK'
  BY <1>1 DEF TablesOK, tables
<1>3. OneBodyPerRequest' /\ ErasedStaysErased' /\ ErasedIsRecorded'
  BY <1>1 DEF TablesAgree, OneBodyPerRequest, ErasedStaysErased, ErasedIsRecorded, tables, Mine
<1>4. AckedIsStored'
  BY <1>1 DEF TablesAgree, AckedIsStored, Suppressed, Mine, tables
<1> QED BY <1>2, <1>3, <1>4 DEF TablesAgree

\* The three things a step of a handler has to show.
LEMMA HandlerStep ==
  ASSUME IInv, NEW h \in Handlers, LeavesOthers(h), LocalsOK', Knows(h)', TablesOK', TablesAgree'
  PROVE  IInv'
BY OthersKnow, TypeParts DEF IInv, HandlersKnow

\* The handler returns: it gives its mutexes back and knows nothing any more.
LEMMA AnswerKeepsLocals ==
  ASSUME IInv, NEW h \in Handlers, Answer(h)
  PROVE  /\ LocalsOK' /\ Knows(h)'
         /\ \A k \in Handlers \ {h} :
              /\ pc'[k] = pc[k] /\ arg'[k] = arg[k]
              /\ (v1Mu = k => v1Mu' = k) /\ (v2Mu = k => v2Mu' = k)
<1>1. LocalsOK
  BY TypeParts DEF IInv
<1>2. pc'[h] = "idle" /\ \A k \in Handlers \ {h} : pc'[k] = pc[k] /\ arg'[k] = arg[k]
  BY <1>1 DEF Answer, LocalsOK
<1>3. LocalsOK'
  BY <1>1 DEF Answer, LocalsOK
<1>4. Knows(h)'
  BY <1>2 DEF Knows, V1Steps, V2Steps, Tables
<1>5. \A k \in Handlers \ {h} : (v1Mu = k => v1Mu' = k) /\ (v2Mu = k => v2Mu' = k)
  BY DEF Answer
<1> QED BY <1>2, <1>3, <1>4, <1>5

LEMMA GotoKeepsLocals ==
  ASSUME IInv, NEW h \in Handlers, NEW step \in V1Steps \cup V2Steps, Goto(h, step)
  PROVE  /\ LocalsOK' /\ pc'[h] = step /\ arg' = arg /\ UNCHANGED mutexes
         /\ \A k \in Handlers \ {h} : pc'[k] = pc[k]
BY TypeParts DEF IInv, LocalsOK, Goto, mutexes

-----------------------------------------------------------------------------
(* The actions                                                             *)

LEMMA AnswerKeepsIInv ==
  ASSUME IInv, NEW h \in Handlers, Answer(h), UNCHANGED <<tables, erased>>, outage' \in BOOLEAN,
         acked' \subseteq Bodies \cup PrivacyBodies,
         \A b \in (acked' \ acked) \cap Bodies : Suppressed(b) \/ \A t \in PartsOf[b] : b \in rows[t],
         (acked' \ acked) \cap PrivacyBodies \subseteq suppressions
  PROVE  IInv'
<1>1. LeavesOthers(h)
  BY AnswerKeepsLocals DEF LeavesOthers, tables
<1> QED BY <1>1, AnswerKeepsLocals, TablesUntouched, HandlerStep

LEMMA BeginKeepsIInv ==
  ASSUME IInv, NEW h \in Handlers, NEW x \in Bodies \cup PrivacyBodies, Begin(h, x)
  PROVE  IInv'
<1>1. LocalsOK
  BY TypeParts DEF IInv
<1>2. /\ pc'[h] = (IF x \in ScopedBodies THEN "v2lock" ELSE "v1lock") /\ arg'[h] = x
      /\ LocalsOK' /\ LeavesOthers(h)
  BY <1>1 DEF Begin, LocalsOK, LeavesOthers, mutexes, tables
<1>3. Knows(h)'
  BY <1>2, V1Assumption DEF Knows, V1Steps, V2Steps, Tables, PrivacyBodies
<1>4. TablesOK' /\ TablesAgree'
  BY TablesUntouched, TypeParts DEF Begin, IInv, TablesOK
<1> QED BY <1>2, <1>3, <1>4, HandlerStep

LEMMA LockKeepsIInv ==
  ASSUME IInv, NEW h \in Handlers, LockV1(h) \/ LockV2(h)
  PROVE  IInv'
<1>1. LocalsOK /\ Knows(h)
  BY TypeParts DEF IInv, HandlersKnow
<1>2. TablesOK' /\ TablesAgree'
  BY TablesUntouched, TypeParts DEF LockV1, LockV2, IInv, TablesOK
<1>3. Nobody \notin Handlers
  BY V1Assumption
<1>4. LocalsOK' /\ LeavesOthers(h)
  BY <1>1, <1>3 DEF LockV1, LockV2, LocalsOK, LeavesOthers, tables, V1Steps, V2Steps
<1>5. Knows(h)'
  BY <1>1 DEF LockV1, LockV2, LocalsOK, Knows, V1Steps, V2Steps, Tables, PrivacyBodies
<1> QED BY <1>2, <1>4, <1>5, HandlerStep

LEMMA CheckSuppressionKeepsIInv ==
  ASSUME IInv, NEW h \in Handlers, CheckSuppression(h)
  PROVE  IInv'
<1>1. /\ UNCHANGED <<tables, erased, outage, acked>>
      /\ outage' \in BOOLEAN /\ acked' \subseteq Bodies \cup PrivacyBodies
  BY TypeParts DEF CheckSuppression, IInv, TablesOK
<1>2. CASE Answer(h)
  BY <1>1, <1>2, AnswerKeepsIInv
<1>3. CASE ~Suppressed(arg[h]) /\ Goto(h, FirstPart(arg[h]))
  <2>1. arg[h] \in Bodies /\ v1Mu = h
    BY DEF IInv, HandlersKnow, Knows, CheckSuppression, V1Steps
  <2>2. FirstPart(arg[h]) \in PartsOf[arg[h]] \cap Tables
        /\ (FirstPart(arg[h]) = "session_summaries" => "events" \notin PartsOf[arg[h]])
    BY <2>1, V1Assumption DEF FirstPart, Tables
  <2>3. /\ LocalsOK' /\ pc'[h] = FirstPart(arg[h]) /\ arg' = arg /\ UNCHANGED mutexes
        /\ \A k \in Handlers \ {h} : pc'[k] = pc[k]
    BY <1>3, <2>2, GotoKeepsLocals DEF V1Steps
  <2>4. LeavesOthers(h)
    BY <1>1, <2>3 DEF LeavesOthers, tables, mutexes
  <2>5. Knows(h)'
    BY <1>1, <1>3, <2>1, <2>2, <2>3
    DEF Knows, V1Steps, V2Steps, Tables, mutexes, tables, Suppressed, Mine
  <2> QED BY <1>1, <2>3, <2>4, <2>5, TablesUntouched, HandlerStep
<1> QED BY <1>2, <1>3 DEF CheckSuppression

\* A body that is not suppressed may be added anywhere: no deletion reaches it.
LEMMA AddingKeepsTables ==
  ASSUME IInv, NEW b \in Bodies, ~Suppressed(b), NEW t \in Tables,
         rows' = [rows EXCEPT ![t] = @ \cup {b}],
         UNCHANGED <<suppressions, erased, outage>>,
         \/ acked' = acked
         \/ acked' = acked \cup {b} /\ \A u \in PartsOf[b] : u = t \/ b \in rows[u]
  PROVE  TablesOK' /\ TablesAgree'
<1>1. TablesOK /\ TablesAgree
  BY TypeParts DEF IInv
<1>2. TablesOK'
  BY <1>1 DEF TablesOK
<1>3. OneBodyPerRequest' /\ ErasedIsRecorded'
  BY <1>1 DEF TablesAgree, OneBodyPerRequest, ErasedIsRecorded
<1>4. \A p \in LegacyBodies : p \in suppressions => b \notin Mine(p)
  BY DEF Suppressed
<1>5. \A u \in Tables : rows'[u] \subseteq rows[u] \cup {b}
  BY <1>1 DEF TablesOK
<1>6. ErasedStaysErased'
  <2>. SUFFICES ASSUME NEW p \in LegacyBodies
                PROVE  /\ erased[p] >= 1 => rows'["events"] \cap Mine(p) = {}
                       /\ erased[p] = 2 => rows'["session_summaries"] \cap Mine(p) = {}
    BY DEF ErasedStaysErased, Mine
  <2>1. erased[p] \in 0..2
    BY <1>1 DEF TablesOK
  <2>2. erased[p] >= 1 => b \notin Mine(p)
    BY <1>1, <1>4, <2>1 DEF TablesAgree, ErasedIsRecorded
  <2> QED BY <1>1, <1>5, <2>1, <2>2 DEF TablesAgree, ErasedStaysErased, Tables
<1>7. AckedIsStored'
  <2>1. \A c \in Bodies : Suppressed(c) <=> Suppressed(c)'
    BY DEF Suppressed, Mine
  <2>2. \A c \in Bodies, u \in Tables : c \in rows[u] \/ (c = b /\ u = t) => c \in rows'[u]
    BY <1>1 DEF TablesOK
  <2>3. \A c \in Bodies : PartsOf[c] \subseteq Tables
    BY V1Assumption
  <2>4. b \notin PrivacyBodies
    BY V1Assumption
  <2> QED BY <1>1, <2>1, <2>2, <2>3, <2>4 DEF TablesAgree, AckedIsStored
<1> QED BY <1>2, <1>3, <1>6, <1>7 DEF TablesAgree

LEMMA InsertKeepsIInv ==
  ASSUME IInv, NEW h \in Handlers, Insert(h)
  PROVE  IInv'
<1> DEFINE b == arg[h]
           t == pc[h]
<1>1. TablesOK /\ LocalsOK /\ Knows(h)
  BY TypeParts DEF IInv, HandlersKnow
<1>2. /\ t \in Tables /\ b \in Bodies /\ ~Suppressed(b) /\ v1Mu = h
      /\ (t = "session_summaries" /\ "events" \in PartsOf[b] => b \in rows["events"])
  BY <1>1 DEF Insert, Knows, V1Steps
<1>3. rows' = [rows EXCEPT ![t] = @ \cup {b}] /\ UNCHANGED <<suppressions, erased, outage>>
  BY DEF Insert
<1>4. \A c \in Bodies, u \in Tables : c \in rows[u] => c \in rows'[u]
  BY <1>1, <1>3 DEF TablesOK
<1>5. CASE t # "session_summaries" /\ Goto(h, "session_summaries") /\ UNCHANGED acked
  <2>1. t = "events" /\ b \in rows'["events"]
    BY <1>1, <1>2, <1>3, <1>5 DEF Tables, TablesOK
  <2>2. /\ LocalsOK' /\ pc'[h] = "session_summaries" /\ arg' = arg /\ UNCHANGED mutexes
        /\ \A k \in Handlers \ {h} : pc'[k] = pc[k]
    BY <1>5, GotoKeepsLocals DEF V1Steps, Tables
  <2>3. LeavesOthers(h)
    BY <1>3, <1>4, <2>2 DEF LeavesOthers, mutexes, Tables
  <2>4. Knows(h)'
    BY <1>2, <1>3, <2>1, <2>2 DEF Knows, V1Steps, V2Steps, Tables, mutexes, Suppressed, Mine
  <2>5. TablesOK' /\ TablesAgree'
    BY <1>2, <1>3, <1>5, AddingKeepsTables
  <2> QED BY <2>2, <2>3, <2>4, <2>5, HandlerStep
<1>6. CASE /\ Answer(h)
           /\ \/ acked' = acked
              \/ /\ acked' = acked \cup {b}
                 /\ t = "session_summaries" \/ "session_summaries" \notin PartsOf[b]
  <2>1. LeavesOthers(h) /\ LocalsOK' /\ Knows(h)'
    BY <1>3, <1>4, <1>6, AnswerKeepsLocals DEF LeavesOthers, Tables
  <2>2. \/ t = "session_summaries" \/ "session_summaries" \notin PartsOf[b]
        => \A u \in PartsOf[b] : u = t \/ b \in rows[u]
    <3>1. PartsOf[b] \subseteq {"events", "session_summaries"} /\ t \in {"events", "session_summaries"}
      BY <1>2, V1Assumption DEF Tables
    <3> QED BY <1>2, <3>1
  <2>3. TablesOK' /\ TablesAgree'
    BY <1>2, <1>3, <1>6, <2>2, AddingKeepsTables
  <2> QED BY <2>1, <2>3, HandlerStep
<1> QED BY <1>5, <1>6 DEF Insert

LEMMA ReadRequestKeepsIInv ==
  ASSUME IInv, NEW h \in Handlers, ReadRequest(h)
  PROVE  IInv'
<1> DEFINE taken == {q \in suppressions : RequestOf[q] = RequestOf[arg[h]]}
<1>1. TablesOK /\ LocalsOK /\ Knows(h)
  BY TypeParts DEF IInv, HandlersKnow
<1>2. /\ arg[h] \in PrivacyBodies /\ (arg[h] \in LegacyBodies => v1Mu = h) /\ v2Mu = h
  BY <1>1 DEF Knows, ReadRequest, V2Steps
<1>3. /\ UNCHANGED <<tables, erased, outage>> /\ acked' = acked \cup (taken \cap {arg[h]})
      /\ taken \subseteq suppressions
  BY DEF ReadRequest
<1>4. /\ (acked' \ acked) \cap Bodies = {} /\ (acked' \ acked) \cap PrivacyBodies \subseteq suppressions
      /\ acked' \subseteq Bodies \cup PrivacyBodies /\ outage' \in BOOLEAN
  BY <1>1, <1>2, <1>3, V1Assumption DEF TablesOK
<1>5. CASE Answer(h)
  BY <1>3, <1>4, <1>5, AnswerKeepsIInv
<1>6. CASE taken = {} /\ Goto(h, "record")
  <2>1. /\ LocalsOK' /\ pc'[h] = "record" /\ arg' = arg /\ UNCHANGED mutexes
        /\ \A k \in Handlers \ {h} : pc'[k] = pc[k]
    BY <1>6, GotoKeepsLocals DEF V2Steps
  <2>2. LeavesOthers(h)
    BY <1>3, <2>1 DEF LeavesOthers, tables, mutexes
  <2>3. Knows(h)'
    BY <1>2, <1>3, <1>6, <2>1 DEF Knows, V1Steps, V2Steps, Tables, mutexes, tables
  <2> QED BY <1>3, <1>4, <2>1, <2>2, <2>3, TablesUntouched, HandlerStep
<1> QED BY <1>5, <1>6 DEF ReadRequest

LEMMA RecordRequestKeepsIInv ==
  ASSUME IInv, NEW h \in Handlers, RecordRequest(h)
  PROVE  IInv'
<1>1. TablesOK /\ LocalsOK /\ Knows(h) /\ TablesAgree
  BY TypeParts DEF IInv, HandlersKnow
<1>2. arg[h] \in PrivacyBodies /\ \A q \in suppressions : RequestOf[q] # RequestOf[arg[h]]
  BY <1>1 DEF Knows, RecordRequest, V2Steps
<1>3. /\ suppressions' = suppressions \cup {arg[h]} /\ UNCHANGED <<rows, erased, outage>>
      /\ acked' \in {acked, acked \cup {arg[h]}} /\ Answer(h) /\ pc[h] = "record"
  BY DEF RecordRequest
<1>4. LeavesOthers(h) /\ LocalsOK' /\ Knows(h)'
  BY <1>3, AnswerKeepsLocals DEF LeavesOthers
<1>5. TablesOK'
  BY <1>1, <1>2, <1>3 DEF TablesOK
<1>6. OneBodyPerRequest' /\ ErasedStaysErased' /\ ErasedIsRecorded'
  BY <1>1, <1>2, <1>3
  DEF TablesAgree, OneBodyPerRequest, ErasedStaysErased, ErasedIsRecorded, Mine
<1>7. AckedIsStored'
  <2>1. \A b \in Bodies : Suppressed(b) => Suppressed(b)'
    BY <1>3 DEF Suppressed, Mine
  <2>2. arg[h] \notin Bodies
    BY <1>2, V1Assumption
  <2> QED BY <1>1, <1>3, <2>1, <2>2 DEF TablesAgree, AckedIsStored
<1> QED BY <1>4, <1>5, <1>6, <1>7, HandlerStep DEF TablesAgree

LEMMA FailKeepsIInv ==
  ASSUME IInv, NEW h \in Handlers, Fail(h)
  PROVE  IInv'
BY AnswerKeepsIInv, TypeParts DEF Fail, IInv, TablesOK

LEMMA CrashKeepsIInv ==
  ASSUME IInv, Crash
  PROVE  IInv'
<1>1. LocalsOK' /\ HandlersKnow'
  BY DEF Crash, LocalsOK, HandlersKnow, Knows, V1Steps, V2Steps, Tables
<1>2. TablesOK' /\ TablesAgree'
  BY TablesUntouched, TypeParts DEF Crash, IInv, TablesOK
<1> QED BY <1>1, <1>2, TypeParts DEF IInv

LEMMA EraseTableKeepsIInv ==
  ASSUME IInv, NEW p \in LegacyBodies, EraseTable(p)
  PROVE  IInv'
<1>1. TablesOK /\ LocalsOK /\ TablesAgree
  BY TypeParts DEF IInv
<1>2. PICK t \in Tables :
        /\ t = (IF erased[p] = 0 THEN "events" ELSE "session_summaries")
        /\ rows' = [rows EXCEPT ![t] = @ \ Mine(p)]
  BY DEF EraseTable, Tables
<1>3. /\ p \in suppressions /\ erased[p] \in 0..1
      /\ erased' \in {erased, [erased EXCEPT ![p] = @ + 1]}
      /\ UNCHANGED <<suppressions, mutexes, pc, arg, outage, acked>>
  BY <1>1 DEF EraseTable, TablesOK
<1>4. \A b \in Bodies : Suppressed(b) <=> Suppressed(b)'
  BY <1>3 DEF Suppressed, Mine
<1>5. \A b \in Bodies : b \in Mine(p) => Suppressed(b)
  BY <1>3 DEF Suppressed
<1>6. /\ \A b \in Bodies, u \in Tables : b \in rows[u] /\ ~Suppressed(b) => b \in rows'[u]
      /\ \A u \in Tables : rows'[u] \subseteq rows[u]
      /\ rows'[t] \cap Mine(p) = {}
  BY <1>1, <1>2, <1>5 DEF TablesOK
<1>7. LocalsOK' /\ HandlersKnow'
  BY <1>1, <1>3, <1>4, <1>6
  DEF IInv, LocalsOK, HandlersKnow, Knows, V1Steps, V2Steps, Tables, mutexes
<1>8. TablesOK'
  BY <1>1, <1>2, <1>3 DEF TablesOK
<1>9. OneBodyPerRequest' /\ ErasedIsRecorded'
  BY <1>1, <1>3 DEF TablesAgree, OneBodyPerRequest, ErasedIsRecorded, TablesOK
<1>10. ErasedStaysErased'
  <2>. SUFFICES ASSUME NEW q \in LegacyBodies
                PROVE  /\ erased'[q] >= 1 => rows'["events"] \cap Mine(q) = {}
                       /\ erased'[q] = 2 => rows'["session_summaries"] \cap Mine(q) = {}
    BY DEF ErasedStaysErased, Mine
  <2>1. /\ erased[q] >= 1 => rows["events"] \cap Mine(q) = {}
        /\ erased[q] = 2 => rows["session_summaries"] \cap Mine(q) = {}
    BY <1>1 DEF TablesAgree, ErasedStaysErased
  <2>2. CASE q # p
    BY <1>1, <1>3, <1>6, <2>1, <2>2 DEF TablesOK, Tables
  <2>3. CASE q = p
    BY <1>1, <1>2, <1>3, <1>6, <2>1, <2>3 DEF TablesOK, Tables
  <2> QED BY <2>2, <2>3
<1>11. AckedIsStored'
  BY <1>1, <1>3, <1>4, <1>6, V1Assumption DEF TablesAgree, AckedIsStored
<1> QED BY <1>7, <1>8, <1>9, <1>10, <1>11, TypeParts DEF IInv, TablesAgree

-----------------------------------------------------------------------------
(* The theorems                                                            *)

LEMMA InitIInv ==
  ASSUME Init
  PROVE  IInv
<1>1. TypeOK
  BY DEF Init, TypeOK, Tables
<1>2. HandlersKnow
  BY DEF Init, HandlersKnow, Knows, V1Steps, V2Steps, Tables
<1>3. TablesAgree
  BY DEF Init, TablesAgree, OneBodyPerRequest, ErasedStaysErased, ErasedIsRecorded,
         AckedIsStored, Tables
<1> QED BY <1>1, <1>2, <1>3 DEF IInv

LEMMA UnmovedKeepsIInv ==
  ASSUME IInv, UNCHANGED <<rows, suppressions, erased, v1Mu, v2Mu, pc, arg, acked>>,
         outage' \in BOOLEAN
  PROVE  IInv'
<1>1. TablesOK' /\ TablesAgree'
  BY TablesUntouched, TypeParts DEF IInv, TablesOK, tables
<1>2. LocalsOK' /\ HandlersKnow'
  BY TypeParts DEF IInv, LocalsOK, HandlersKnow, Knows, Suppressed, Mine
<1> QED BY <1>1, <1>2, TypeParts DEF IInv

LEMMA NextKeepsIInv ==
  ASSUME IInv, [Next \/ Recover]_vars
  PROVE  IInv'
<1>1. CASE UNCHANGED vars \/ Recover
  BY <1>1, UnmovedKeepsIInv, TypeParts DEF vars, Recover, tables, mutexes, IInv, TablesOK
<1>2. ASSUME NEW h \in Handlers,
             \/ \E x \in Bodies \cup PrivacyBodies : Begin(h, x)
             \/ LockV1(h) \/ LockV2(h) \/ Serve(h) \/ Fail(h)
      PROVE  IInv'
  BY <1>2, BeginKeepsIInv, LockKeepsIInv, CheckSuppressionKeepsIInv, InsertKeepsIInv,
     ReadRequestKeepsIInv, RecordRequestKeepsIInv, FailKeepsIInv DEF Serve
<1>3. CASE Crash
  BY <1>3, CrashKeepsIInv
<1>4. CASE \E p \in LegacyBodies : EraseTable(p)
  BY <1>4, EraseTableKeepsIInv
<1> QED BY <1>1, <1>2, <1>3, <1>4 DEF Next

\* The invariant holds while statements fail and after they have stopped failing.
THEOREM V1Invariance == Init /\ [][Next \/ Recover]_vars => []IInv
<1>1. Init => IInv
  BY InitIInv
<1>2. IInv /\ [Next \/ Recover]_vars => IInv'
  BY NextKeepsIInv
<1> QED BY <1>1, <1>2, PTL

\* Types, request ids and finished deletions, for any number of handlers and bodies.
THEOREM V1StateIsSound == FairSpec => []Inv
<1>1. IInv => Inv
  BY DEF IInv, TablesAgree, Inv
<1> QED BY <1>1, V1Invariance, PTL DEF FairSpec

\* What was answered 202 is in the tables or was suppressed since.
THEOREM V1AcknowledgedIsDurable == FairSpec => []AckedIsStored
<1>1. IInv => AckedIsStored
  BY DEF IInv, TablesAgree
<1> QED BY <1>1, V1Invariance, PTL DEF FairSpec

LEMMA RowsOfUnsuppressed ==
  ASSUME IInv, [Next \/ Recover]_vars
  PROVE  \A t \in Tables : \A b \in rows'[t] \ rows[t] : ~Suppressed(b)
<1>1. TablesOK
  BY TypeParts DEF IInv
<1>2. CASE rows' = rows
  BY <1>2
<1>3. ASSUME NEW h \in Handlers, Insert(h)
      PROVE  \A t \in Tables : \A b \in rows'[t] \ rows[t] : ~Suppressed(b)
  <2>1. ~Suppressed(arg[h])
    BY <1>3 DEF IInv, HandlersKnow, Knows, Insert
  <2> QED BY <1>1, <1>3, <2>1 DEF Insert, TablesOK
<1>4. ASSUME NEW p \in LegacyBodies, EraseTable(p)
      PROVE  \A t \in Tables : rows'[t] \subseteq rows[t]
  BY <1>1, <1>4 DEF EraseTable, TablesOK
<1>5. rows' = rows \/ (\E h \in Handlers : Insert(h)) \/ (\E p \in LegacyBodies : EraseTable(p))
  BY DEF Next, Serve, Begin, LockV1, LockV2, CheckSuppression, ReadRequest, RecordRequest, Fail,
         Crash, Recover, tables, vars
<1> QED BY <1>2, <1>3, <1>4, <1>5

\* No statement adds a row of an installation whose deletion has been recorded.
THEOREM V1SuppressionHolds == FairSpec => NoWriteAfterSuppression
<1>1. IInv /\ [Next \/ Recover]_vars =>
        [\A t \in Tables : \A b \in rows'[t] \ rows[t] : ~Suppressed(b)]_vars
  BY RowsOfUnsuppressed
<1> QED BY <1>1, V1Invariance, PTL DEF FairSpec, NoWriteAfterSuppression
=============================================================================
