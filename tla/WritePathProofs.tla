--------------------------- MODULE WritePathProofs ---------------------------
(***************************************************************************)
(* What a client write may and may not do, for any number of sessions,     *)
(* rows, buckets and concurrent transactions of the application.           *)
(***************************************************************************)
EXTENDS WritePath, TLAPS

\* A leaf that names no prover is tried with these.
USE SMTT(30), ZenonT(30)

Active(s) == task[s].pc \in {"scope", "apply", "store"}

\* What a request carries from one of its steps to the next: it has written
\* nothing and been answered nothing, its bucket is one that `find` may return,
\* and history has seen its row in scope if it is, or if the check passed.
RequestInv(s) ==
  Active(s) =>
    /\ served[s] \in 1..MaxRequests /\ reply[s] = NoError /\ ~wrote[s]
    /\ task[s].bucket \in Matching(s, task[s].row)
    /\ Scoped(s, task[s].row, db[task[s].row]) => inScope[s]
    /\ task[s].pc # "scope" => inScope[s]

\* The patches that a row must hold: those stored and not overlapped.
Kept(r) == stored[r] \ overlapped

\* What the next UPDATE of a CrdtPatch relies on.  The merged document holds
\* all the row must hold, because a patch stored after it was read overlapped.
MergeInv ==
  /\ \A r \in Rows : db[r] = Absent => stored[r] = {}
  /\ \A s \in Sessions : task[s].pc = "store" =>
       /\ Kept(task[s].row) \subseteq task[s].merged /\ Patch(s) \in task[s].merged
       /\ \A u \in Sessions \ {s} :
            task[u].pc = "store" /\ task[u].row = task[s].row => Patch(s) \in overlapped

Inv ==
  /\ TypeOK
  /\ \A s \in Sessions : RequestInv(s)
  /\ WritesInScope /\ RefusedChangesNothing
  /\ MergeInv /\ LostOnlyByOverlap

-----------------------------------------------------------------------------
(* Lemmas about the parts of a step.                                       *)

\* A request that is being handled has the fields of a Write.
LEMMA ActiveTask ==
  ASSUME TypeOK, NEW s \in Sessions, Active(s)
  PROVE  task[s] \in Writing
BY DEF TypeOK, Active, Idle, Closed

\* The codes of the Error frames that the write path sends.
LEMMA WireCodes ==
  /\ WireCode("AuthError") = 4001
  /\ WireCode("ProtocolError") = 4003
  /\ WireCode("Database") = 4099
BY DEF WireCode

\* A step that only ends what task s does, and reports an error, or none, of a
\* request that wrote nothing.
SetsTask(s, x) == task' = [task EXCEPT ![s] = x]
SetsReply(s, e) == reply' = [reply EXCEPT ![s] = e]

Finishes(s) ==
  /\ \E x \in {Idle, Closed} : SetsTask(s, x)
  /\ \E e \in {NoError, 4001, 4003, 4099} : SetsReply(s, e) /\ (e # NoError => ~wrote[s])
  /\ UNCHANGED <<db, served, changes, history>>

\* Such a step keeps the invariant: the failures of the scope check and of
\* apply_write, and the end and the start of a connection.
LEMMA FinishKeepsInv ==
  ASSUME Inv, NEW s \in Sessions, Finishes(s)
  PROVE  Inv'
<1> PICK x \in {Idle, Closed} : SetsTask(s, x)
  BY DEF Finishes
<1> PICK e \in {NoError, 4001, 4003, 4099} : SetsReply(s, e) /\ (e # NoError => ~wrote[s])
  BY DEF Finishes
<1>0. /\ TypeOK /\ MergeInv /\ LostOnlyByOverlap /\ WritesInScope /\ RefusedChangesNothing
      /\ \A u \in Sessions : RequestInv(u)
  BY DEF Inv
<1>1. /\ db' = db /\ served' = served /\ changes' = changes /\ inScope' = inScope
      /\ wrote' = wrote /\ stored' = stored /\ overlapped' = overlapped
  BY DEF Finishes, history
<1>2. x.pc \notin {"scope", "apply", "store"}
  BY DEF Idle, Closed
<1>3. \A u \in Sessions : task'[u] = IF u = s THEN x ELSE task[u]
  BY <1>0 DEF TypeOK, SetsTask
<1>4. \A u \in Sessions : reply'[u] = IF u = s THEN e ELSE reply[u]
  BY <1>0 DEF TypeOK, SetsReply
<1>5. TypeOK'
  <2>1. task' \in [Sessions -> Writing \cup {Idle, Closed}]
    BY <1>0 DEF TypeOK, SetsTask
  <2>2. reply' \in [Sessions -> {NoError, 4001, 4003, 4099}]
    BY <1>0 DEF TypeOK, SetsReply
  <2> QED BY <1>0, <1>1, <2>1, <2>2 DEF TypeOK
<1>6. ASSUME NEW u \in Sessions PROVE RequestInv(u)'
  <2>1. RequestInv(u)
    BY <1>0
  <2> QED BY <1>1, <1>2, <1>3, <1>4, <2>1 DEF RequestInv, Active, Scoped, Matching
<1>7. MergeInv'
  <2>1. \A r \in Rows : Kept(r)' = Kept(r)
    BY <1>1 DEF Kept
  <2>2. \A u \in Sessions : Patch(u)' = Patch(u)
    BY <1>1 DEF Patch
  <2>3. ASSUME NEW u \in Sessions, task'[u].pc = "store"
        PROVE  u # s /\ task'[u] = task[u] /\ task[u].row \in Rows
    BY <1>0, <1>2, <1>3, <2>3, ActiveTask DEF Active, Writing
  <2> QED BY <1>0, <1>1, <2>1, <2>2, <2>3 DEF MergeInv
<1>8. WritesInScope' /\ RefusedChangesNothing' /\ LostOnlyByOverlap'
  BY <1>0, <1>1, <1>4 DEF WritesInScope, RefusedChangesNothing, LostOnlyByOverlap
<1> QED BY <1>5, <1>6, <1>7, <1>8 DEF Inv

\* The answer to a request of an active task, whether or not the frame is sent.
LEMMA AnswerFinishes ==
  ASSUME Inv, NEW s \in Sessions, Active(s),
         NEW err \in {"AuthError", "ProtocolError", "Database"}, Answer(s, err),
         UNCHANGED <<db, served, changes, history>>
  PROVE  Finishes(s)
<1>1. TypeOK /\ RequestInv(s)
  BY DEF Inv
<1>2. ~wrote[s] /\ reply[s] = NoError
  BY <1>1 DEF RequestInv
<1>3. WireCode(err) \in {NoError, 4001, 4003, 4099}
  BY WireCodes
<1>4. UNCHANGED reply => SetsReply(s, NoError)
  BY <1>1, <1>2 DEF TypeOK, SetsReply
<1>5. \/ SetsReply(s, WireCode(err)) /\ SetsTask(s, Idle)
      \/ SetsTask(s, Closed) /\ UNCHANGED reply
  BY DEF Answer, SetsTask, SetsReply
<1> QED BY <1>2, <1>3, <1>4, <1>5 DEF Finishes

\* A statement on row r that leaves it with the patches `kept`, executed by the
\* tasks `by` (one, or none for the application's), which have then finished.
Statement(r, kept, by) ==
  /\ Record(r, kept, by)
  /\ db' \in [Rows -> Row \cup {Absent}]
  /\ \A q \in Rows \ {r} : db'[q] = db[q]
  /\ task' \in [Sessions -> Writing \cup {Idle, Closed}]
  /\ \A u \in Sessions : task'[u] = IF u \in by THEN Idle ELSE task[u]
  /\ \A u \in Sessions \cap by : inScope[u] /\ reply[u] = NoError
  /\ kept \subseteq Patches
  /\ \A p \in kept \ overlapped : db'[r] # Absent => db'[r].crdt # Null /\ p \in db'[r].crdt
  /\ \A u \in Sessions \ by : task[u].pc = "store" /\ task[u].row = r =>
       kept \ overlapped \subseteq task[u].merged
  /\ changes' \in 0..MaxChanges
  /\ UNCHANGED <<reply, served, overlapped>>

\* Such a statement keeps the invariant.
LEMMA StatementKeepsInv ==
  ASSUME Inv, NEW r \in Rows, NEW kept, NEW by, Statement(r, kept, by)
  PROVE  Inv'
<1>0. /\ TypeOK /\ MergeInv /\ LostOnlyByOverlap /\ WritesInScope /\ RefusedChangesNothing
      /\ \A u \in Sessions : RequestInv(u)
  BY DEF Inv
<1>1. /\ reply' = reply /\ served' = served /\ overlapped' = overlapped
      /\ \A q \in Rows \ {r} : db'[q] = db[q]
      /\ \A u \in Sessions : task'[u] = IF u \in by THEN Idle ELSE task[u]
      /\ \A u \in Sessions \cap by : inScope[u] /\ reply[u] = NoError
  BY DEF Statement
<1>2. /\ stored' \in [Rows -> SUBSET Patches]
      /\ stored'[r] = IF db'[r] = Absent THEN {} ELSE kept
      /\ \A q \in Rows \ {r} : stored'[q] = stored[q]
  BY <1>0 DEF Statement, Record, TypeOK
<1>3. /\ inScope' \in [Sessions -> BOOLEAN]
      /\ \A u \in Sessions : inScope[u] => inScope'[u]
      /\ \A u \in Sessions : Active(u) /\ task[u].row = r /\ Scoped(u, r, db'[r]) => inScope'[u]
  <2>1. inScope' = [u \in Sessions |-> inScope[u] \/
          /\ task[u].pc \in {"scope", "apply", "store"} /\ task[u].row = r /\ Scoped(u, r, db'[r])]
    BY DEF Statement, Record
  <2>2. \A u \in Sessions : inScope'[u] = (inScope[u] \/
          (Active(u) /\ task[u].row = r /\ Scoped(u, r, db'[r])))
    BY <2>1, Zenon DEF Active
  <2>3. inScope' \in [Sessions -> BOOLEAN]
    BY <2>1, Zenon
  <2> QED BY <2>2, <2>3, Zenon
<1>4. /\ wrote' \in [Sessions -> BOOLEAN]
      /\ \A u \in Sessions : wrote'[u] => wrote[u] \/ u \in by
  BY <1>0 DEF Statement, Record, TypeOK
<1>5. TypeOK'
  <2>1. /\ db' \in [Rows -> Row \cup {Absent}]
        /\ task' \in [Sessions -> Writing \cup {Idle, Closed}]
        /\ changes' \in 0..MaxChanges
    BY DEF Statement
  <2>2. /\ reply' \in [Sessions -> {NoError, 4001, 4003, 4099}]
        /\ served' \in [Sessions -> 0..MaxRequests] /\ overlapped' \subseteq Patches
    BY <1>0, <1>1 DEF TypeOK
  <2> QED BY <1>2, <1>3, <1>4, <2>1, <2>2 DEF TypeOK
<1>6. ASSUME NEW u \in Sessions PROVE RequestInv(u)'
  <2>1. RequestInv(u)
    BY <1>0
  <2> SUFFICES ASSUME Active(u)' PROVE RequestInv(u)'
    BY DEF RequestInv
  <2>2. u \notin by /\ task'[u] = task[u] /\ Active(u)
    BY <1>1 DEF Active, Idle
  <2>3. task[u].row \in Rows
    BY <1>0, <2>2, ActiveTask DEF Writing
  <2>4. ~wrote'[u]
    BY <1>4, <2>1, <2>2 DEF RequestInv
  <2>5. Scoped(u, task'[u].row, db'[task'[u].row]) => inScope'[u]
    <3>1. CASE task[u].row = r
      BY <1>3, <2>2, <3>1
    <3>2. CASE task[u].row # r
      BY <1>1, <1>3, <2>1, <2>2, <2>3, <3>2 DEF RequestInv
    <3> QED BY <3>1, <3>2
  <2>6. task'[u].pc # "scope" => inScope'[u]
    BY <1>3, <2>1, <2>2 DEF RequestInv
  <2>7. task'[u].bucket \in Matching(u, task'[u].row)
    BY <2>1, <2>2 DEF RequestInv
  <2>8. served'[u] \in 1..MaxRequests /\ reply'[u] = NoError
    BY <1>1, <2>1, <2>2 DEF RequestInv
  <2>9. /\ Scoped(u, task[u].row, db[task[u].row])' <=> Scoped(u, task'[u].row, db'[task'[u].row])
        /\ Matching(u, task[u].row)' = Matching(u, task'[u].row)
    BY DEF Scoped, Matching
  <2> QED BY <2>4, <2>5, <2>6, <2>7, <2>8, <2>9 DEF RequestInv
<1>7. MergeInv'
  <2>1. ASSUME NEW q \in Rows, db'[q] = Absent PROVE stored'[q] = {}
    BY <1>0, <1>1, <1>2, <2>1 DEF MergeInv
  <2>2. ASSUME NEW u \in Sessions, task'[u].pc = "store"
        PROVE  u \notin by /\ task'[u] = task[u] /\ task[u].row \in Rows
    BY <1>0, <1>1, <2>2, ActiveTask DEF Active, Writing, Idle
  <2>3. \A u \in Sessions : Patch(u)' = Patch(u)
    BY <1>1 DEF Patch
  <2>4. ASSUME NEW u \in Sessions, task'[u].pc = "store"
        PROVE  Kept(task[u].row)' \subseteq task'[u].merged
    <3>1. task[u].pc = "store" /\ task'[u] = task[u] /\ task[u].row \in Rows /\ u \notin by
      BY <2>2, <2>4
    <3>2. CASE task[u].row = r
      <4>1. kept \ overlapped \subseteq task[u].merged
        BY <3>1, <3>2 DEF Statement
      <4> QED BY <1>1, <1>2, <3>1, <3>2, <4>1 DEF Kept
    <3>3. CASE task[u].row # r
      BY <1>0, <1>1, <1>2, <3>1, <3>3 DEF Kept, MergeInv
    <3> QED BY <3>2, <3>3
  <2> QED BY <1>0, <1>1, <2>1, <2>2, <2>3, <2>4 DEF MergeInv
<1>8. WritesInScope' /\ RefusedChangesNothing'
  BY <1>0, <1>1, <1>3, <1>4 DEF WritesInScope, RefusedChangesNothing
<1>9. LostOnlyByOverlap'
  <2>1. \A p \in kept \ overlapped : db'[r] # Absent => db'[r].crdt # Null /\ p \in db'[r].crdt
    BY DEF Statement
  <2> QED BY <1>0, <1>1, <1>2, <2>1 DEF LostOnlyByOverlap
<1> QED BY <1>5, <1>6, <1>7, <1>8, <1>9 DEF Inv

\* A step of task s that leaves the rows and the histories of patches alone:
\* the other tasks are as they were, and s is not before an UPDATE of a patch.
Proceeds(s) ==
  /\ TypeOK'
  /\ \A u \in Sessions \ {s} :
       /\ task'[u] = task[u] /\ reply'[u] = reply[u] /\ served'[u] = served[u]
       /\ inScope'[u] = inScope[u] /\ wrote'[u] = wrote[u]
  /\ task'[s].pc # "store" /\ ~wrote'[s]
  /\ UNCHANGED <<db, stored, overlapped>>

\* Such a step keeps the invariant if it keeps what is said of s: reading a
\* frame, and the scope check.
LEMMA ProceedKeepsInv ==
  ASSUME Inv, NEW s \in Sessions, Proceeds(s), RequestInv(s)'
  PROVE  Inv'
<1>0. /\ TypeOK /\ MergeInv /\ LostOnlyByOverlap /\ WritesInScope /\ RefusedChangesNothing
      /\ \A u \in Sessions : RequestInv(u)
  BY DEF Inv
<1>1. /\ \A u \in Sessions \ {s} :
           /\ task'[u] = task[u] /\ reply'[u] = reply[u] /\ served'[u] = served[u]
           /\ inScope'[u] = inScope[u] /\ wrote'[u] = wrote[u]
      /\ task'[s].pc # "store" /\ ~wrote'[s]
      /\ db' = db /\ stored' = stored /\ overlapped' = overlapped
  BY DEF Proceeds
<1>2. ASSUME NEW u \in Sessions PROVE RequestInv(u)'
  <2>1. CASE u = s
    BY <2>1
  <2>2. CASE u # s
    <3>1. RequestInv(u)
      BY <1>0
    <3> QED BY <1>1, <2>2, <3>1 DEF RequestInv, Active, Scoped, Matching
  <2> QED BY <2>1, <2>2
<1>3. MergeInv'
  <2>1. ASSUME NEW u \in Sessions, task'[u].pc = "store"
        PROVE  u # s /\ task'[u] = task[u] /\ task[u].row \in Rows /\ Patch(u)' = Patch(u)
    BY <1>0, <1>1, <2>1, ActiveTask DEF Active, Writing, Patch
  <2>2. \A r \in Rows : Kept(r)' = Kept(r)
    BY <1>1 DEF Kept
  <2> QED BY <1>0, <1>1, <2>1, <2>2 DEF MergeInv
<1>4. WritesInScope' /\ RefusedChangesNothing' /\ LostOnlyByOverlap'
  BY <1>0, <1>1, ZenonT(30) DEF WritesInScope, RefusedChangesNothing, LostOnlyByOverlap
<1>5. TypeOK'
  BY DEF Proceeds
<1> QED BY <1>2, <1>3, <1>4, <1>5 DEF Inv

\* The served counter and the wrote flag of a request that has been read.
LEMMA RequestRead ==
  ASSUME TypeOK, NEW s \in Sessions, served[s] < MaxRequests,
         served' = [served EXCEPT ![s] = @ + 1], wrote' = [wrote EXCEPT ![s] = FALSE]
  PROVE  /\ served' \in [Sessions -> 0..MaxRequests] /\ served'[s] \in 1..MaxRequests
         /\ wrote' \in [Sessions -> BOOLEAN] /\ ~wrote'[s]
         /\ \A u \in Sessions \ {s} : served'[u] = served[u] /\ wrote'[u] = wrote[u]
<1>1. served' \in [Sessions -> 0..MaxRequests] /\ served'[s] \in 1..MaxRequests
  BY WriteAssumption DEF TypeOK
<1>2. wrote' \in [Sessions -> BOOLEAN] /\ ~wrote'[s]
  BY DEF TypeOK
<1>3. \A u \in Sessions \ {s} : served'[u] = served[u] /\ wrote'[u] = wrote[u]
  BY DEF TypeOK
<1> QED BY <1>1, <1>2, <1>3

\* What an answer leaves in the variables it assigns.
LEMMA Answered ==
  ASSUME TypeOK, NEW s \in Sessions,
         NEW err \in {"AuthError", "ProtocolError", "Database"}, Answer(s, err)
  PROVE  /\ task' \in [Sessions -> Writing \cup {Idle, Closed}]
         /\ reply' \in [Sessions -> {NoError, 4001, 4003, 4099}]
         /\ task'[s] \in {Idle, Closed}
         /\ \A u \in Sessions \ {s} : task'[u] = task[u] /\ reply'[u] = reply[u]
<1>1. WireCode(err) \in {NoError, 4001, 4003, 4099}
  BY WireCodes
<1>2. CASE reply' = [reply EXCEPT ![s] = WireCode(err)] /\ task' = [task EXCEPT ![s] = Idle]
  BY <1>1, <1>2 DEF TypeOK
<1>3. CASE task' = [task EXCEPT ![s] = Closed] /\ UNCHANGED reply
  BY <1>3 DEF TypeOK
<1> QED BY <1>2, <1>3 DEF Answer

-----------------------------------------------------------------------------
(* One lemma per action.                                                   *)

\* A frame that does not decode, or a second Subscribe, is answered.
LEMMA ProtocolFrameInv ==
  ASSUME Inv, NEW s \in Sessions, ProtocolFrame(s)
  PROVE  Inv'
<1>0. TypeOK
  BY DEF Inv
<1>1. /\ served[s] < MaxRequests /\ served' = [served EXCEPT ![s] = @ + 1]
      /\ wrote' = [wrote EXCEPT ![s] = FALSE] /\ Answer(s, "ProtocolError")
      /\ UNCHANGED <<db, changes, inScope, stored, overlapped>>
  BY DEF ProtocolFrame
<1>2. /\ served' \in [Sessions -> 0..MaxRequests] /\ wrote' \in [Sessions -> BOOLEAN]
      /\ ~wrote'[s]
      /\ \A u \in Sessions \ {s} : served'[u] = served[u] /\ wrote'[u] = wrote[u]
  BY <1>0, <1>1, RequestRead, ZenonT(30)
<1>3. /\ task' \in [Sessions -> Writing \cup {Idle, Closed}]
      /\ reply' \in [Sessions -> {NoError, 4001, 4003, 4099}]
      /\ task'[s] \in {Idle, Closed}
      /\ \A u \in Sessions \ {s} : task'[u] = task[u] /\ reply'[u] = reply[u]
  BY <1>0, <1>1, Answered
<1>4. TypeOK'
  BY <1>0, <1>1, <1>2, <1>3 DEF TypeOK
<1>5. Proceeds(s) /\ RequestInv(s)'
  BY <1>1, <1>2, <1>3, <1>4 DEF Proceeds, RequestInv, Active, Idle, Closed
<1> QED BY <1>5, ProceedKeepsInv

\* A Write is read: history starts from whether the row is in scope now.
LEMMA HandleWriteInv ==
  ASSUME Inv, NEW s \in Sessions, NEW r \in Rows, NEW op \in Ops, HandleWrite(s, r, op)
  PROVE  Inv'
<1>0. TypeOK
  BY DEF Inv
<1>1. /\ served[s] < MaxRequests /\ served' = [served EXCEPT ![s] = @ + 1]
      /\ wrote' = [wrote EXCEPT ![s] = FALSE]
      /\ inScope' = [inScope EXCEPT ![s] = Scoped(s, r, db[r])]
      /\ UNCHANGED <<db, changes, stored, overlapped>>
  BY DEF HandleWrite
<1>2. /\ served' \in [Sessions -> 0..MaxRequests] /\ served'[s] \in 1..MaxRequests
      /\ wrote' \in [Sessions -> BOOLEAN] /\ ~wrote'[s]
      /\ \A u \in Sessions \ {s} : served'[u] = served[u] /\ wrote'[u] = wrote[u]
  BY <1>0, <1>1, RequestRead, ZenonT(30)
<1>3. /\ inScope' \in [Sessions -> BOOLEAN] /\ inScope'[s] = Scoped(s, r, db[r])
      /\ \A u \in Sessions \ {s} : inScope'[u] = inScope[u]
  <2>1. Scoped(s, r, db[r]) \in BOOLEAN
    BY DEF Scoped
  <2> QED BY <1>0, <1>1, <2>1 DEF TypeOK
<1>4. CASE Answer(s, "AuthError")
  <2>1. /\ task' \in [Sessions -> Writing \cup {Idle, Closed}]
        /\ reply' \in [Sessions -> {NoError, 4001, 4003, 4099}]
        /\ task'[s] \in {Idle, Closed}
        /\ \A u \in Sessions \ {s} : task'[u] = task[u] /\ reply'[u] = reply[u]
    BY <1>0, <1>4, Answered
  <2>2. TypeOK'
    BY <1>0, <1>1, <1>2, <1>3, <2>1 DEF TypeOK
  <2>3. Proceeds(s) /\ RequestInv(s)'
    BY <1>1, <1>2, <1>3, <2>1, <2>2 DEF Proceeds, RequestInv, Active, Idle, Closed
  <2> QED BY <2>3, ProceedKeepsInv
<1>5. ASSUME NEW b \in Matching(s, r),
             task' = [task EXCEPT ![s] = [pc |-> "scope", row |-> r, op |-> op,
                                          bucket |-> b, merged |-> {}]],
             reply' = [reply EXCEPT ![s] = NoError]
      PROVE  Inv'
  <2> DEFINE w == [pc |-> "scope", row |-> r, op |-> op, bucket |-> b, merged |-> {}]
  <2>0. w \in Writing /\ w.pc = "scope" /\ w.row = r /\ w.bucket = b
    BY WriteAssumption DEF Writing, Matching
  <2> HIDE DEF w
  <2>1. /\ task' \in [Sessions -> Writing \cup {Idle, Closed}] /\ task'[s] = w
        /\ \A u \in Sessions \ {s} : task'[u] = task[u]
    <3>1. task \in [Sessions -> Writing \cup {Idle, Closed}]
      BY <1>0 DEF TypeOK
    <3> QED BY <1>5, <2>0, <3>1 DEF w
  <2>2. /\ reply' \in [Sessions -> {NoError, 4001, 4003, 4099}] /\ reply'[s] = NoError
        /\ \A u \in Sessions \ {s} : reply'[u] = reply[u]
    BY <1>0, <1>5 DEF TypeOK
  <2>3. TypeOK'
    BY <1>0, <1>1, <1>2, <1>3, <2>1, <2>2 DEF TypeOK
  <2>4. Proceeds(s)
    BY <1>1, <1>2, <1>3, <2>0, <2>1, <2>2, <2>3 DEF Proceeds
  <2>5. RequestInv(s)'
    <3>1. task'[s].pc = "scope" /\ task'[s].row = r /\ task'[s].bucket \in Matching(s, r)
      BY <2>0, <2>1
    <3>2. Scoped(s, task'[s].row, db'[task'[s].row]) <=> inScope'[s]
      BY <1>1, <1>3, <3>1
    <3>3. /\ Scoped(s, task[s].row, db[task[s].row])' <=> Scoped(s, task'[s].row, db'[task'[s].row])
          /\ Matching(s, task[s].row)' = Matching(s, task'[s].row)
      BY DEF Scoped, Matching
    <3> QED BY <1>2, <2>2, <3>1, <3>2, <3>3 DEF RequestInv
  <2> QED BY <2>4, <2>5, ProceedKeepsInv
<1> QED BY <1>4, <1>5, ZenonT(30) DEF HandleWrite

\* The scope check: the bucket that `find` returned selects the row, so some
\* bucket of the session does.
LEMMA CheckScopeInv ==
  ASSUME Inv, NEW s \in Sessions, CheckScope(s)
  PROVE  Inv'
<1>0. TypeOK /\ RequestInv(s) /\ Active(s)
  BY DEF Inv, CheckScope, Active
<1>1. ~wrote[s] /\ reply[s] = NoError
  BY <1>0 DEF RequestInv
<1>2. /\ task[s].pc = "scope" /\ UNCHANGED <<db, served, changes, history>>
      /\ \/ /\ WithinScope(task[s].bucket, task[s].row)
            /\ task' = [task EXCEPT ![s].pc = "apply"] /\ UNCHANGED reply
         \/ Answer(s, "AuthError")
         \/ task' = [task EXCEPT ![s] = Closed] /\ UNCHANGED reply
  BY DEF CheckScope
<1>3. CASE /\ WithinScope(task[s].bucket, task[s].row)
           /\ task' = [task EXCEPT ![s].pc = "apply"] /\ UNCHANGED reply
  <2>1. task[s] \in Writing
    BY <1>0, ActiveTask
  <2> DEFINE w == [task[s] EXCEPT !.pc = "apply"]
  <2>2. /\ w \in Writing /\ w.pc = "apply" /\ w.row = task[s].row
        /\ w.bucket = task[s].bucket
    BY <2>1 DEF Writing
  <2>3. task' = [task EXCEPT ![s] = w]
    BY <1>3
  <2> HIDE DEF w
  <2>4. /\ task' \in [Sessions -> Writing \cup {Idle, Closed}] /\ task'[s] = w
        /\ \A u \in Sessions \ {s} : task'[u] = task[u]
    BY <1>0, <2>2, <2>3 DEF TypeOK
  <2>5. /\ reply' = reply /\ db' = db /\ served' = served /\ changes' = changes
        /\ inScope' = inScope /\ wrote' = wrote /\ stored' = stored /\ overlapped' = overlapped
    BY <1>2, <1>3 DEF history
  <2>6. TypeOK'
    BY <1>0, <2>4, <2>5 DEF TypeOK
  <2>7. inScope[s]
    BY <1>0, <1>3 DEF RequestInv, WithinScope, Scoped
  <2>8. Proceeds(s)
    BY <1>1, <2>2, <2>4, <2>5, <2>6 DEF Proceeds
  <2>9. RequestInv(s)'
    BY <1>0, <1>1, <2>2, <2>4, <2>5, <2>7 DEF RequestInv, Scoped, Matching
  <2> QED BY <2>8, <2>9, ProceedKeepsInv
<1>4. CASE Answer(s, "AuthError")
  BY <1>0, <1>2, <1>4, AnswerFinishes, FinishKeepsInv
<1>5. CASE task' = [task EXCEPT ![s] = Closed] /\ UNCHANGED reply
  <2>1. SetsTask(s, Closed)
    BY <1>5 DEF SetsTask
  <2>2. SetsReply(s, NoError)
    BY <1>0, <1>1, <1>5 DEF SetsReply, TypeOK
  <2>3. Finishes(s)
    BY <1>2, <2>1, <2>2 DEF Finishes
  <2> QED BY <2>3, FinishKeepsInv
<1> QED BY <1>2, <1>3, <1>4, <1>5

\* The UPDATE of payload, or the DELETE, of a request that passed the check.
LEMMA ApplyStatementInv ==
  ASSUME Inv, NEW s \in Sessions, ApplyStatement(s)
  PROVE  Inv'
<1> DEFINE r == task[s].row
<1>0. /\ TypeOK /\ RequestInv(s) /\ MergeInv /\ LostOnlyByOverlap /\ task[s].pc = "apply"
  BY DEF Inv, ApplyStatement
<1>1. task[s] \in Writing /\ r \in Rows
  BY <1>0, ActiveTask DEF Active, Writing
<1>2. inScope[s] /\ reply[s] = NoError /\ Patch(s) \in Patches
  BY <1>0 DEF RequestInv, Active, Patch, Patches
<1>3. /\ db' = IF db[r] = Absent THEN db
               ELSE IF task[s].op = "Delete" THEN [db EXCEPT ![r] = Absent]
               ELSE [db EXCEPT ![r].payload = Patch(s)]
      /\ task' = [task EXCEPT ![s] = Idle]
      /\ Record(r, stored[r], {s})
      /\ UNCHANGED <<reply, served, changes, overlapped>>
  BY DEF ApplyStatement
<1>4. db[r] # Absent => /\ [db[r] EXCEPT !.payload = Patch(s)] \in Row
                        /\ [db[r] EXCEPT !.payload = Patch(s)].crdt = db[r].crdt
  BY <1>0, <1>1, <1>2 DEF TypeOK, Row
<1> HIDE DEF r
<1>5. /\ db' \in [Rows -> Row \cup {Absent}]
      /\ \A q \in Rows \ {r} : db'[q] = db[q]
      /\ db'[r] # Absent => db[r] # Absent /\ db'[r].crdt = db[r].crdt
  <2>1. CASE db[r] = Absent
    BY <1>0, <1>1, <1>3, <2>1 DEF TypeOK
  <2>2. CASE db[r] # Absent /\ task[s].op = "Delete"
    BY <1>0, <1>1, <1>3, <2>2 DEF TypeOK
  <2>3. CASE db[r] # Absent /\ task[s].op # "Delete"
    <3>1. db' = [db EXCEPT ![r] = [db[r] EXCEPT !.payload = Patch(s)]]
      BY <1>3, <2>3
    <3> QED BY <1>0, <1>1, <1>4, <2>3, <3>1 DEF TypeOK
  <2> QED BY <2>1, <2>2, <2>3
<1>6. /\ task' \in [Sessions -> Writing \cup {Idle, Closed}]
      /\ \A u \in Sessions : task'[u] = IF u \in {s} THEN Idle ELSE task[u]
  BY <1>0, <1>3 DEF TypeOK
<1>7. stored[r] \subseteq Patches /\ changes' \in 0..MaxChanges
  BY <1>0, <1>1, <1>3 DEF TypeOK
<1>8. \A p \in stored[r] \ overlapped : db'[r] # Absent => db'[r].crdt # Null /\ p \in db'[r].crdt
  BY <1>0, <1>1, <1>5 DEF LostOnlyByOverlap
<1>9. \A u \in Sessions \ {s} : task[u].pc = "store" /\ task[u].row = r =>
        stored[r] \ overlapped \subseteq task[u].merged
  BY <1>0 DEF MergeInv, Kept
<1>10. Statement(r, stored[r], {s})
  BY <1>2, <1>3, <1>5, <1>6, <1>7, <1>8, <1>9 DEF Statement
<1> QED BY <1>1, <1>10, StatementKeepsInv

\* The UPDATE of crdt_state: the other patches of the row that are being merged
\* have overlapped this one, so this one is none that they must hold.
LEMMA StoreStateInv ==
  ASSUME Inv, NEW s \in Sessions, StoreState(s)
  PROVE  Inv'
<1> DEFINE r == task[s].row
           kept == stored[r] \cup {Patch(s)}
<1>0. /\ TypeOK /\ RequestInv(s) /\ MergeInv /\ LostOnlyByOverlap /\ task[s].pc = "store"
  BY DEF Inv, StoreState
<1>1. task[s] \in Writing /\ r \in Rows /\ task[s].merged \in SUBSET Patches
  BY <1>0, ActiveTask DEF Active, Writing
<1>2. inScope[s] /\ reply[s] = NoError /\ Patch(s) \in Patches
  BY <1>0 DEF RequestInv, Active, Patch, Patches
<1>3. /\ db' = IF db[r] = Absent THEN db ELSE [db EXCEPT ![r].crdt = task[s].merged]
      /\ task' = [task EXCEPT ![s] = Idle]
      /\ Record(r, kept, {s})
      /\ UNCHANGED <<reply, served, changes, overlapped>>
  BY DEF StoreState
<1>4. db[r] # Absent => /\ [db[r] EXCEPT !.crdt = task[s].merged] \in Row
                        /\ [db[r] EXCEPT !.crdt = task[s].merged].crdt = task[s].merged
  BY <1>0, <1>1 DEF TypeOK, Row, Crdt
<1>5. kept \ overlapped \subseteq task[s].merged
  BY <1>0, <1>1 DEF MergeInv, Kept
<1>6. \A u \in Sessions \ {s} : task[u].pc = "store" /\ task[u].row = r =>
        kept \ overlapped \subseteq task[u].merged
  BY <1>0 DEF MergeInv, Kept
<1>7. kept \subseteq Patches
  BY <1>0, <1>1, <1>2 DEF TypeOK
<1> HIDE DEF r, kept
<1>8. /\ db' \in [Rows -> Row \cup {Absent}]
      /\ \A q \in Rows \ {r} : db'[q] = db[q]
      /\ db'[r] # Absent => db'[r].crdt = task[s].merged
  <2>1. CASE db[r] = Absent
    BY <1>0, <1>1, <1>3, <2>1 DEF TypeOK
  <2>2. CASE db[r] # Absent
    <3>1. db' = [db EXCEPT ![r] = [db[r] EXCEPT !.crdt = task[s].merged]]
      BY <1>3, <2>2
    <3> QED BY <1>0, <1>1, <1>4, <2>2, <3>1 DEF TypeOK
  <2> QED BY <2>1, <2>2
<1>9. /\ task' \in [Sessions -> Writing \cup {Idle, Closed}]
      /\ \A u \in Sessions : task'[u] = IF u \in {s} THEN Idle ELSE task[u]
  BY <1>0, <1>3 DEF TypeOK
<1>10. changes' \in 0..MaxChanges
  BY <1>0, <1>3 DEF TypeOK
<1>11. \A p \in kept \ overlapped : db'[r] # Absent => db'[r].crdt # Null /\ p \in db'[r].crdt
  BY <1>1, <1>5, <1>8, WriteAssumption
<1>12. Statement(r, kept, {s})
  BY <1>2, <1>3, <1>6, <1>7, <1>8, <1>9, <1>10, <1>11 DEF Statement
<1> QED BY <1>1, <1>12, StatementKeepsInv

\* The patch that s has merged holds what the row holds, and from now on it and
\* those of the tasks that are about to update the same row overlap.
LEMMA ReadStateInv ==
  ASSUME Inv, NEW s \in Sessions, ReadState(s)
  PROVE  Inv'
<1> DEFINE r == task[s].row
           others == {u \in Sessions \ {s} : task[u].pc = "store" /\ task[u].row = r}
           merged == CrdtState(r) \cup {Patch(s)}
           w == [task[s] EXCEPT !.pc = "store", !.merged = merged]
<1>0. /\ TypeOK /\ MergeInv /\ LostOnlyByOverlap /\ WritesInScope /\ RefusedChangesNothing
      /\ \A u \in Sessions : RequestInv(u)
  BY DEF Inv
<1>1. /\ task[s].pc = "apply" /\ CrdtState(r) # Null
      /\ task' = [task EXCEPT ![s] = w]
      /\ overlapped' = overlapped \cup
           (IF others = {} THEN {} ELSE {Patch(u) : u \in others \cup {s}})
      /\ db' = db /\ reply' = reply /\ served' = served /\ changes' = changes
      /\ inScope' = inScope /\ wrote' = wrote /\ stored' = stored
  BY ZenonT(30) DEF ReadState, ApplyDelta
<1>2. task[s] \in Writing /\ r \in Rows /\ Active(s)
  BY <1>0, <1>1, ActiveTask DEF Active, Writing
<1>3. ASSUME NEW u \in Sessions, Active(u) PROVE Patch(u) \in Patches
  <2>1. RequestInv(u)
    BY <1>0
  <2> QED BY <1>3, <2>1 DEF RequestInv, Patch, Patches
<1>4. merged \in SUBSET Patches
  <2>1. CrdtState(r) \in SUBSET Patches
    <3>1. db[r] \in Row \cup {Absent}
      BY <1>0, <1>2 DEF TypeOK
    <3>2. db[r] \in Row => db[r].crdt \in (SUBSET Patches) \cup {Null}
      BY DEF Row, Crdt
    <3>3. CrdtState(r) # Null
      BY <1>1
    <3> HIDE DEF r
    <3> QED BY <3>1, <3>2, <3>3 DEF CrdtState
  <2>2. Patch(s) \in Patches
    BY <1>2, <1>3
  <2> QED BY <2>1, <2>2
<1>5. Kept(r) \subseteq CrdtState(r)
  BY <1>0, <1>2 DEF Kept, CrdtState, MergeInv, LostOnlyByOverlap
<1>6. Kept(r) \subseteq merged /\ Patch(s) \in merged
  BY <1>5
<1> HIDE DEF merged
<1>7. /\ w \in Writing /\ w.pc = "store" /\ w.row = r /\ w.merged = merged
      /\ w.bucket = task[s].bucket
  BY <1>2, <1>4, ZenonT(30) DEF Writing
<1> HIDE DEF w
<1>8. /\ task' \in [Sessions -> Writing \cup {Idle, Closed}] /\ task'[s] = w
      /\ \A u \in Sessions \ {s} : task'[u] = task[u]
  BY <1>0, <1>1, <1>7 DEF TypeOK
<1>9. /\ overlapped \subseteq overlapped' /\ overlapped' \subseteq Patches
      /\ \A u \in others : Patch(u) \in overlapped' /\ Patch(s) \in overlapped'
  <2>1. \A u \in others \cup {s} : Patch(u) \in Patches
    BY <1>2, <1>3 DEF Active
  <2> HIDE DEF others
  <2> QED BY <1>0, <1>1, <2>1 DEF TypeOK
<1>10. TypeOK'
  BY <1>0, <1>1, <1>8, <1>9 DEF TypeOK
<1>11. ASSUME NEW u \in Sessions PROVE RequestInv(u)'
  <2>1. RequestInv(u) /\ RequestInv(s)
    BY <1>0
  <2>2. Active(u)' => Active(u)
    BY <1>2, <1>8 DEF Active
  <2>3. /\ task'[u].row = task[u].row /\ task'[u].bucket = task[u].bucket
        /\ task'[u].pc # "scope" => u = s \/ task[u].pc # "scope"
    BY <1>7, <1>8
  <2> QED BY <1>1, <1>2, <2>1, <2>2, <2>3, ZenonT(30) DEF RequestInv, Scoped, Matching
<1>12. MergeInv'
  <2>1. \A q \in Rows : Kept(q)' \subseteq Kept(q)
    BY <1>1, <1>9, ZenonT(30) DEF Kept
  <2>2. \A u \in Sessions : Patch(u)' = Patch(u)
    BY <1>1 DEF Patch
  <2>3. \A q \in Rows : db'[q] = Absent => stored'[q] = {}
    BY <1>0, <1>1 DEF MergeInv
  <2>4. ASSUME NEW u \in Sessions, task'[u].pc = "store"
        PROVE  /\ Kept(task[u].row)' \subseteq task'[u].merged /\ Patch(u)' \in task'[u].merged
               /\ task'[u].row \in Rows
    <3>1. CASE u = s
      <4>1. Kept(r)' \subseteq Kept(r) /\ task'[s].row = r /\ task'[s].merged = merged
        BY <1>2, <1>7, <1>8, <2>1
      <4>2. Kept(task[s].row)' = Kept(r)'
        BY <4>1 DEF Kept
      <4> QED BY <1>2, <1>6, <2>2, <3>1, <4>1, <4>2
    <3>2. CASE u # s
      <4>1. task'[u] = task[u] /\ task[u].row \in Rows
        BY <1>0, <1>8, <2>4, <3>2, ActiveTask DEF Active, Writing
      <4>2. Kept(task[u].row) \subseteq task[u].merged /\ Patch(u) \in task[u].merged
        BY <1>0, <2>4, <4>1 DEF MergeInv
      <4>3. Kept(task[u].row)' \subseteq Kept(task[u].row)
        BY <1>1, <1>9, <4>1 DEF Kept
      <4> QED BY <2>2, <4>1, <4>2, <4>3
    <3> QED BY <3>1, <3>2
  <2>5. ASSUME NEW u \in Sessions, NEW v \in Sessions \ {u},
               task'[u].pc = "store", task'[v].pc = "store", task'[v].row = task'[u].row
        PROVE  Patch(u)' \in overlapped'
    <3>1. CASE u = s
      BY <1>7, <1>8, <1>9, <2>2, <2>5, <3>1
    <3>2. CASE v = s
      BY <1>7, <1>8, <1>9, <2>2, <2>5, <3>2
    <3>3. CASE u # s /\ v # s
      BY <1>0, <1>8, <1>9, <2>2, <2>5, <3>3 DEF MergeInv
    <3> QED BY <3>1, <3>2, <3>3
  <2> QED BY <2>3, <2>4, <2>5 DEF MergeInv
<1>13. WritesInScope' /\ RefusedChangesNothing' /\ LostOnlyByOverlap'
  BY <1>0, <1>1, <1>9 DEF WritesInScope, RefusedChangesNothing, LostOnlyByOverlap
<1> QED BY <1>10, <1>11, <1>12, <1>13 DEF Inv

\* The SELECT, the merge or a statement of apply_write fails.
LEMMA FailureInv ==
  ASSUME Inv, NEW s \in Sessions, ReadStateFails(s) \/ StatementFails(s)
  PROVE  Inv'
<1>1. /\ Active(s) /\ UNCHANGED <<db, served, changes, history>>
      /\ Answer(s, "ProtocolError") \/ Answer(s, "Database")
  BY ZenonT(30) DEF ReadStateFails, StatementFails, Active
<1> QED BY <1>1, AnswerFinishes, FinishKeepsInv

\* A connection ends, or the client connects again.
LEMMA ConnectionInv ==
  ASSUME Inv, NEW s \in Sessions, Disconnect(s) \/ Reconnect(s)
  PROVE  Inv'
<1>0. TypeOK /\ RefusedChangesNothing
  BY DEF Inv
<1>1. CASE Disconnect(s)
  <2>1. SetsTask(s, Closed) /\ UNCHANGED <<db, reply, served, changes, history>>
    BY <1>1 DEF Disconnect, SetsTask
  <2>2. SetsReply(s, reply[s]) /\ reply[s] \in {NoError, 4001, 4003, 4099}
    BY <1>0, <2>1 DEF SetsReply, TypeOK
  <2>3. Finishes(s)
    BY <1>0, <2>1, <2>2 DEF Finishes, RefusedChangesNothing
  <2> QED BY <2>3, FinishKeepsInv
<1>2. CASE Reconnect(s)
  <2>1. /\ SetsTask(s, Idle) /\ SetsReply(s, NoError)
        /\ UNCHANGED <<db, served, changes, history>>
    BY <1>2 DEF Reconnect, SetsTask, SetsReply
  <2>2. Finishes(s)
    BY <2>1 DEF Finishes
  <2> QED BY <2>2, FinishKeepsInv
<1> QED BY <1>1, <1>2

\* The rows that the application creates.
LEMMA NewRows == NewRow \subseteq Row
BY DEF NewRow, Row, Crdt

\* A transaction of the application.  The row that it creates holds no patch.
LEMMA ApplicationWritesInv ==
  ASSUME Inv, NEW r \in Rows, ApplicationWrites(r)
  PROVE  Inv'
<1>0. TypeOK /\ MergeInv /\ LostOnlyByOverlap
  BY DEF Inv
<1>1. /\ changes < MaxChanges /\ changes' = changes + 1
      /\ Record(r, stored[r], {}) /\ UNCHANGED <<task, reply, served, overlapped>>
  BY DEF ApplicationWrites
<1>2. /\ db' \in [Rows -> Row \cup {Absent}]
      /\ \A q \in Rows \ {r} : db'[q] = db[q]
      /\ db'[r] # Absent /\ db[r] # Absent => db'[r].crdt = db[r].crdt
  <2>1. ASSUME NEW row \in NewRow, db[r] = Absent, db' = [db EXCEPT ![r] = row]
        PROVE  <1>2
    BY <1>0, <2>1, NewRows DEF TypeOK
  <2>2. CASE db[r] # Absent /\ db' = [db EXCEPT ![r] = Absent]
    BY <1>0, <2>2 DEF TypeOK
  <2>3. ASSUME NEW o \in Owners, db[r] # Absent, db' = [db EXCEPT ![r].owner = o]
        PROVE  <1>2
    <3>1. /\ [db[r] EXCEPT !.owner = o] \in Row
          /\ [db[r] EXCEPT !.owner = o].crdt = db[r].crdt
      BY <1>0, <2>3 DEF TypeOK, Row
    <3>2. db' = [db EXCEPT ![r] = [db[r] EXCEPT !.owner = o]]
      BY <2>3
    <3> QED BY <1>0, <3>1, <3>2 DEF TypeOK
  <2> QED BY <2>1, <2>2, <2>3 DEF ApplicationWrites
<1>3. stored[r] \subseteq Patches /\ changes' \in 0..MaxChanges
  BY <1>0, <1>1, WriteAssumption DEF TypeOK
<1>4. \A p \in stored[r] \ overlapped : db'[r] # Absent => db'[r].crdt # Null /\ p \in db'[r].crdt
  BY <1>0, <1>2 DEF LostOnlyByOverlap, MergeInv
<1>5. \A u \in Sessions : task[u].pc = "store" /\ task[u].row = r =>
        stored[r] \ overlapped \subseteq task[u].merged
  BY <1>0 DEF MergeInv, Kept
<1>6. /\ task' \in [Sessions -> Writing \cup {Idle, Closed}]
      /\ \A u \in Sessions : task'[u] = IF u \in {} THEN Idle ELSE task[u]
  BY <1>0, <1>1 DEF TypeOK
<1>7. Statement(r, stored[r], {})
  BY <1>1, <1>2, <1>3, <1>4, <1>5, <1>6, ZenonT(30) DEF Statement
<1> QED BY <1>7, StatementKeepsInv

-----------------------------------------------------------------------------
(* The theorems.                                                           *)

\* Initially no request is being handled and no patch is stored.
LEMMA InitInv == Init => Inv
<1> SUFFICES ASSUME Init PROVE Inv
  OBVIOUS
<1>1. db \in [Rows -> Row \cup {Absent}]
  BY NewRows DEF Init
<1>2. TypeOK
  BY <1>1, WriteAssumption DEF Init, TypeOK
<1>3. \A s \in Sessions : task[s].pc = "idle"
  BY DEF Init, Idle
<1>4. \A s \in Sessions : RequestInv(s)
  BY <1>3 DEF RequestInv, Active
<1>5. MergeInv /\ LostOnlyByOverlap /\ WritesInScope /\ RefusedChangesNothing
  BY <1>3, ZenonT(30) DEF Init, MergeInv, LostOnlyByOverlap, WritesInScope, RefusedChangesNothing
<1> QED BY <1>2, <1>4, <1>5 DEF Inv

\* Every step keeps the invariant.
LEMMA NextInv == Inv /\ [Next]_vars => Inv'
<1> SUFFICES ASSUME Inv, [Next]_vars PROVE Inv'
  OBVIOUS
<1>1. ASSUME NEW s \in Sessions, Handle(s) PROVE Inv'
  BY <1>1, ProtocolFrameInv, HandleWriteInv, CheckScopeInv, ApplyStatementInv,
     ReadStateInv, FailureInv, StoreStateInv DEF Handle
<1>2. ASSUME NEW s \in Sessions, Disconnect(s) \/ Reconnect(s) PROVE Inv'
  BY <1>2, ConnectionInv
<1>3. ASSUME NEW r \in Rows, ApplicationWrites(r) PROVE Inv'
  BY <1>3, ApplicationWritesInv
<1>4. CASE UNCHANGED vars
  <2>0. /\ TypeOK /\ MergeInv /\ LostOnlyByOverlap /\ WritesInScope /\ RefusedChangesNothing
        /\ \A s \in Sessions : RequestInv(s)
    BY DEF Inv
  <2>1. /\ db' = db /\ task' = task /\ reply' = reply /\ served' = served /\ changes' = changes
        /\ inScope' = inScope /\ wrote' = wrote /\ stored' = stored /\ overlapped' = overlapped
    BY <1>4 DEF vars, history
  <2>2. TypeOK'
    BY <2>0, <2>1 DEF TypeOK
  <2>3. \A s \in Sessions : RequestInv(s)'
    BY <2>0, <2>1, ZenonT(30) DEF RequestInv, Active, Scoped, Matching
  <2>4. MergeInv' /\ LostOnlyByOverlap'
    BY <2>0, <2>1, ZenonT(30) DEF MergeInv, Kept, Patch, LostOnlyByOverlap
  <2>5. WritesInScope' /\ RefusedChangesNothing'
    BY <2>0, <2>1, ZenonT(30) DEF WritesInScope, RefusedChangesNothing
  <2> QED BY <2>2, <2>3, <2>4, <2>5, ZenonT(30) DEF Inv
<1> QED BY <1>1, <1>2, <1>3, <1>4 DEF Next

\* The inductive invariant holds in every reachable state.
THEOREM Invariance == Spec => []Inv
BY InitInv, NextInv, PTL DEF Spec

\* handle_write() lets a write reach the database only for a row that was in
\* the scope of the session while the request was handled, for every number
\* of sessions, rows and requests.
THEOREM WritesInScopeCorrect == Spec => []WritesInScope
<1>1. Inv => WritesInScope
  BY DEF Inv
<1> QED BY <1>1, Invariance, PTL

\* A request that handle_write() or apply_write() refuses has changed nothing.
THEOREM RefusedChangesNothingCorrect == Spec => []RefusedChangesNothing
<1>1. Inv => RefusedChangesNothing
  BY DEF Inv
<1> QED BY <1>1, Invariance, PTL

\* The only patches that crdt_state loses are those whose read, merge and
\* write in apply_write() overlapped another's.
THEOREM LostOnlyByOverlapCorrect == Spec => []LostOnlyByOverlap
<1>1. Inv => LostOnlyByOverlap
  BY DEF Inv
<1> QED BY <1>1, Invariance, PTL

\* No UPDATE or DELETE of apply_write creates a row, brings back one that was
\* deleted after the scope check, or gives one to another owner.
THEOREM OnlyApplicationCreatesCorrect == Spec => OnlyApplicationCreates
<1> DEFINE Created(r) == db'[r] # Absent /\ (db[r] = Absent \/ db'[r].owner # db[r].owner)
<1>1. Inv /\ [Next]_vars =>
        [\A r \in Rows :
           /\ db'[r] # Absent
           /\ db[r] = Absent \/ db'[r].owner # db[r].owner
           => changes' # changes]_vars
  <2> SUFFICES ASSUME Inv, Next, NEW r \in Rows, Created(r) PROVE changes' # changes
    OBVIOUS
  <2>0. TypeOK
    BY DEF Inv
  <2>1. db' # db
    OBVIOUS
  <2>2. ASSUME NEW s \in Sessions, ApplyStatement(s) PROVE FALSE
    <3>1. task[s] \in Writing /\ task[s].row \in Rows
      BY <2>0, <2>2, ActiveTask DEF ApplyStatement, Active, Writing
    <3> QED BY <2>0, <2>2, <3>1 DEF ApplyStatement, TypeOK, Row
  <2>3. ASSUME NEW s \in Sessions, StoreState(s) PROVE FALSE
    <3>1. task[s] \in Writing /\ task[s].row \in Rows
      BY <2>0, <2>3, ActiveTask DEF StoreState, Active, Writing
    <3> QED BY <2>0, <2>3, <3>1 DEF StoreState, TypeOK, Row
  <2>4. ASSUME NEW s \in Sessions, Handle(s) \/ Disconnect(s) \/ Reconnect(s) PROVE FALSE
    BY <2>1, <2>2, <2>3, <2>4 DEF Handle, ProtocolFrame, HandleWrite, CheckScope, ReadState,
       ReadStateFails, StatementFails, Disconnect, Reconnect
  <2>5. ASSUME NEW q \in Rows, ApplicationWrites(q) PROVE changes' # changes
    <3>1. changes \in 0..MaxChanges
      BY <2>0 DEF TypeOK
    <3>2. changes' = changes + 1
      BY <2>5, ZenonT(30) DEF ApplicationWrites
    <3> QED BY <3>1, <3>2, WriteAssumption
  <2> QED BY <2>4, <2>5 DEF Next
<1> QED BY <1>1, InitInv, NextInv, PTL DEF Spec, OnlyApplicationCreates
=============================================================================
