---------------------------- MODULE RunStoreProofs ----------------------------
(***************************************************************************)
(* For every number of processes, runs and ids, with ids shared or saved   *)
(* again and savers killed at any point: the run store has the types of    *)
(* its specification, no file is overwritten, a save that returned is      *)
(* stored, and it implements AppendOnlyStore, for every id that no two     *)
(* saves tested before either of them made the file.  The inductive        *)
(* invariant says who may touch a file: at most one saver is past the test *)
(* of an id; the file is absent until that saver opens it, is then the     *)
(* chunks that saver has written, and closes the id to every later save.   *)
(***************************************************************************)
EXTENDS RunStore, TLAPS

(* A file's content is a sequence over the runs and holes. *)
LEMMA PutType ==
    ASSUME NEW content \in Seq(Runs \union {None}), NEW k \in Nat, NEW run \in Runs
    PROVE  Put(content, k, run) \in Seq(Runs \union {None})
<1> DEFINE n == IF k > Len(content) THEN k ELSE Len(content)
<1>1. n \in Nat
  OBVIOUS
<1>2. \A i \in 1 .. n : (IF i = k THEN run
                         ELSE IF i \in 1 .. Len(content) THEN content[i] ELSE None)
                            \in Runs \union {None}
  OBVIOUS
<1> QED
  BY <1>1, <1>2 DEF Put

LEMMA ChunksType ==
    ASSUME NEW run \in Runs, NEW n \in Nat
    PROVE  /\ Chunks(run, n) \in Seq(Runs \union {None})
           /\ Chunks(run, n) # None
           /\ DOMAIN Chunks(run, n) = 1 .. n
BY NoneAssumption DEF Chunks

(* Two stretches of one run are equal only at equal lengths. *)
LEMMA ChunksLength ==
    ASSUME NEW run \in Runs, NEW m \in Nat, NEW n \in Nat,
           Chunks(run, m) = Chunks(run, n)
    PROVE  m = n
<1>1. 1 .. m = 1 .. n
  BY DEF Chunks
<1> QED
  BY <1>1

LEMMA EmptyFile == ASSUME NEW run \in Runs PROVE <<>> = Chunks(run, 0)
BY DEF Chunks

(* Writing the next chunk extends the stretch by one. *)
LEMMA PutNext ==
    ASSUME NEW run \in Runs, NEW n \in Nat
    PROVE  Put(Chunks(run, n), n + 1, run) = Chunks(run, n + 1)
<1>1. Len(Chunks(run, n)) = n
  BY DEF Chunks
<1> QED
  BY <1>1 DEF Put, Chunks

LEMMA IdType == ASSUME NEW run \in Runs PROVE IdOf[run] \in Ids
BY DEF Ids

-----------------------------------------------------------------------------
(* Type correctness.  A process that is saving has a run, and a file it    *)
(* writes exists.                                                          *)

SavingHasARun ==
    \A p \in Savers :
        /\ saver[p].pc \in {"checking", "opening", "writing", "saved"} => saver[p].run \in Runs
        /\ saver[p].pc = "writing" => files[IdOf[saver[p].run]] # None

TypeInv == TypeOK /\ SavingHasARun

LEMMA TypeInvInit == Init => TypeInv
BY DEF Init, AtRest, TypeInv, TypeOK, SavingHasARun, SaverStates, ReaderStates

LEMMA TypeInvSaver ==
    ASSUME TypeInv, NEW p \in Savers,
           (\E run \in Runs : BeginSave(p, run)) \/ SaverStep(p) \/ Crash(p)
    PROVE  TypeInv'
<1> USE DEF TypeInv, TypeOK, SavingHasARun, SaverStates
<1>1. ASSUME NEW run \in Runs, BeginSave(p, run) PROVE TypeInv'
  BY <1>1 DEF BeginSave
<1>2. CASE CheckExists(p)
  <2>1. saver[p].run \in Runs /\ IdOf[saver[p].run] \in Ids
    BY <1>2, IdType DEF CheckExists, Saving
  <2>2. raced' \subseteq Ids
    BY <1>2, <2>1 DEF CheckExists, NowRaced
  <2> QED
    BY <1>2, <2>1, <2>2 DEF CheckExists, Saving, AtRest
<1>3. CASE OpenForWrite(p)
  <2>1. <<>> \in Seq(Runs \union {None}) /\ <<>> # None
    <3>1. <<>> \in Seq(Runs \union {None})
      OBVIOUS
    <3> QED
      BY <3>1, NoneAssumption
  <2>2. saver[p].run \in Runs /\ IdOf[saver[p].run] \in Ids
    BY <1>3, IdType DEF OpenForWrite, Saving
  <2>3. TypeOK'
    BY <1>3, <2>1 DEF OpenForWrite, Saving
  <2>4. SavingHasARun'
    BY <1>3, <2>1, <2>2, IdType DEF OpenForWrite, Saving
  <2> QED
    BY <2>3, <2>4
<1>4. CASE WriteChunk(p)
  <2> DEFINE run == saver[p].run
             content == Put(files[IdOf[run]], saver[p].written + 1, run)
  <2>1. run \in Runs /\ IdOf[run] \in Ids /\ files[IdOf[run]] # None
    BY <1>4, IdType DEF WriteChunk, Saving
  <2>2. content \in Seq(Runs \union {None}) /\ content # None
    <3>1. files[IdOf[run]] \in Seq(Runs \union {None})
      BY <2>1
    <3>2. saver[p].written + 1 \in Nat
      OBVIOUS
    <3>3. content \in Seq(Runs \union {None})
      BY <2>1, <3>1, <3>2, PutType
    <3> QED
      BY <3>3, NoneAssumption
  <2>3. files' = [files EXCEPT ![IdOf[run]] = content]
    BY <1>4 DEF WriteChunk
  <2> HIDE DEF content
  <2>4. TypeOK'
    BY <1>4, <2>1, <2>2, <2>3 DEF WriteChunk, Saving
  <2>5. SavingHasARun'
    BY <1>4, <2>1, <2>2, <2>3, IdType DEF WriteChunk, Saving
  <2> QED
    BY <2>4, <2>5
<1>5. CASE Crash(p)
  <2>1. saver[p].run \in Runs /\ IdOf[saver[p].run] \in Ids
    BY <1>5, IdType, RunAssumption DEF Crash
  <2> QED
    BY <1>5, <2>1 DEF Crash, AtRest
<1> QED
  BY <1>1, <1>2, <1>3, <1>4, <1>5 DEF SaverStep

LEMMA TypeInvReader ==
    ASSUME TypeInv, NEW q \in Readers,
           \/ \E target \in Targets \union {None} : BeginList(q, target)
           \/ \E id \in Ids : BeginLoad(q, id)
           \/ ReaderStep(q)
    PROVE  TypeInv'
<1> USE IdType
<1>0. ASSUME NEW r \in ReaderStates, reader' = [reader EXCEPT ![q] = r],
             UNCHANGED <<files, torn, raced, saver>>
      PROVE  TypeInv'
  BY <1>0 DEF TypeInv, TypeOK, SavingHasARun
<1>1. reader[q] \in ReaderStates /\ Stored \subseteq Runs /\ Existing \subseteq Ids
  BY DEF TypeInv, TypeOK, Stored, Existing
<1>2. ASSUME NEW target \in Targets \union {None}, BeginList(q, target) PROVE TypeInv'
  <2> DEFINE r == [pc |-> "listing", left |-> Existing, target |-> target,
                   got |-> {}, before |-> Stored]
  <2>1. r \in ReaderStates
    BY <1>1 DEF ReaderStates
  <2> QED
    BY <1>0, <1>2, <2>1 DEF BeginList
<1>3. ASSUME NEW id \in Ids, BeginLoad(q, id) PROVE TypeInv'
  <2> DEFINE r == [pc |-> IF files[id] = None THEN "nosuch" ELSE "loading",
                   left |-> IF files[id] = None THEN {} ELSE {id},
                   target |-> None, got |-> {}, before |-> {}]
  <2>1. r \in ReaderStates
    BY <1>1 DEF ReaderStates
  <2> QED
    BY <1>0, <1>3, <2>1 DEF BeginLoad
<1>4. ASSUME NEW id \in Ids, ReadNext(q, id) PROVE TypeInv'
  <2> DEFINE at == reader[q]
             found == {run \in Runs : Holds(files[id], run) /\ Wanted(at.target, run)}
             r == IF Parses(files[id])
                    THEN [at EXCEPT !.left = at.left \ {id}, !.got = at.got \union found]
                    ELSE Failed
  <2>1. r \in ReaderStates
    BY <1>1 DEF ReaderStates, Failed
  <2>2. reader' = [reader EXCEPT ![q] = r] /\ UNCHANGED <<files, torn, raced, saver>>
    BY <1>4 DEF ReadNext
  <2> QED
    BY <1>0, <2>1, <2>2
<1>5. ASSUME NEW id \in Ids, ReadLoaded(q, id) PROVE TypeInv'
  <2> DEFINE at == reader[q]
             r == IF Parses(files[id])
                    THEN [at EXCEPT !.pc = "loaded", !.left = {},
                                    !.got = {run \in Runs : Holds(files[id], run)}]
                    ELSE Failed
  <2>1. r \in ReaderStates
    BY <1>1 DEF ReaderStates, Failed
  <2>2. reader' = [reader EXCEPT ![q] = r] /\ UNCHANGED <<files, torn, raced, saver>>
    BY <1>5 DEF ReadLoaded
  <2> QED
    BY <1>0, <2>1, <2>2
<1>6. ASSUME EndList(q) PROVE TypeInv'
  <2> DEFINE r == [reader[q] EXCEPT !.pc = "listed"]
  <2>1. r \in ReaderStates
    BY <1>1 DEF ReaderStates
  <2>2. reader' = [reader EXCEPT ![q] = r] /\ UNCHANGED <<files, torn, raced, saver>>
    BY <1>6 DEF EndList
  <2> QED
    BY <1>0, <2>1, <2>2
<1> QED
  BY <1>2, <1>3, <1>4, <1>5, <1>6 DEF ReaderStep

LEMMA TypeInvStep == TypeInv /\ [Next]_vars => TypeInv'
<1> SUFFICES ASSUME TypeInv, [Next]_vars PROVE TypeInv'
  OBVIOUS
<1>1. CASE UNCHANGED vars
  BY <1>1 DEF TypeInv, TypeOK, SavingHasARun, vars
<1>2. CASE Next
  BY <1>2, TypeInvSaver, TypeInvReader DEF Next
<1> QED
  BY <1>1, <1>2

(* Every variable of the store keeps its type, whatever the processes do.  *)
THEOREM TypeCorrect == Spec => []TypeOK
<1>1. TypeInv => TypeOK
  BY DEF TypeInv
<1> QED
  BY <1>1, TypeInvInit, TypeInvStep, PTL DEF Spec

-----------------------------------------------------------------------------
(* One saver past the test of an id nobody raced for.                      *)

PastTest(p) == saver[p].pc \in {"opening", "writing"}
SavedId(p) == IdOf[saver[p].run]

OwnerInv ==
    \A p, q \in Savers :
        PastTest(p) /\ PastTest(q) /\ SavedId(p) = SavedId(q) /\ SavedId(p) \notin raced
            => p = q

(* A file is absent, or holds the beginning of one run with its id.        *)
FileInv ==
    \A id \in Ids \ raced :
        \/ files[id] = None
        \/ \E run \in Runs : \E n \in 0 .. SizeOf[run] :
              IdOf[run] = id /\ files[id] = Chunks(run, n)

(* What a saver knows of the file of its id. *)
Knows(p) ==
    LET run == saver[p].run
        id  == SavedId(p)
    IN  /\ saver[p].pc \in {"checking", "opening"} => saver[p].written = 0
        /\ saver[p].pc = "opening" /\ id \notin raced => files[id] = None
        /\ saver[p].pc = "writing" => saver[p].written < SizeOf[run]
        /\ saver[p].pc = "writing" /\ id \notin raced =>
              files[id] = Chunks(run, saver[p].written)
        /\ saver[p].pc = "saved" /\ id \notin raced => files[id] = Document(run)

SaverInv == \A p \in Savers : Knows(p)

StoreInv == TypeInv /\ OwnerInv /\ FileInv /\ SaverInv

(* A file that holds the beginning of a run parses only as that run, and   *)
(* only when it is whole.                                                  *)
LEMMA OneDocument ==
    ASSUME NEW run \in Runs, NEW n \in Nat, NEW other \in Runs,
           Chunks(run, n) = Document(other)
    PROVE  other = run /\ n = SizeOf[run]
<1>1. SizeOf[other] \in Nat /\ SizeOf[other] >= 1
  BY RunAssumption
<1>2. DOMAIN Chunks(run, n) = 1 .. n /\ DOMAIN Document(other) = 1 .. SizeOf[other]
  BY <1>1 DEF Chunks, Document
<1>3. 1 .. n = 1 .. SizeOf[other]
  BY <1>2
<1>4. n = SizeOf[other]
  BY <1>1, <1>3
<1>5. Chunks(run, n)[1] = run /\ Document(other)[1] = other
  BY <1>1, <1>4 DEF Chunks, Document
<1> QED
  BY <1>4, <1>5

LEMMA DocumentType ==
    ASSUME NEW run \in Runs
    PROVE  Document(run) # None /\ SizeOf[run] \in Nat /\ SizeOf[run] >= 1
<1>1. SizeOf[run] \in Nat /\ SizeOf[run] >= 1
  BY RunAssumption
<1> QED
  BY <1>1, ChunksType DEF Document

LEMMA StoreInvInit == Init => StoreInv
<1> SUFFICES ASSUME Init PROVE StoreInv
  OBVIOUS
<1>1. TypeInv
  BY TypeInvInit
<1>2. OwnerInv /\ SaverInv
  BY DEF Init, AtRest, OwnerInv, SaverInv, PastTest, Knows
<1>3. FileInv
  BY DEF Init, FileInv
<1> QED
  BY <1>1, <1>2, <1>3 DEF StoreInv

(* Starting a save, or dying, takes a saver away from every id.            *)
LEMMA StoreInvAway ==
    ASSUME StoreInv, TypeInv', NEW p \in Savers,
           files' = files, raced' = raced,
           \A q \in Savers \ {p} : saver'[q] = saver[q],
           saver'[p].pc \in {"idle", "checking"}, saver'[p].written = 0
    PROVE  StoreInv'
<1> USE DEF StoreInv
<1>1. OwnerInv'
  BY DEF OwnerInv, PastTest, SavedId
<1>2. FileInv'
  BY DEF FileInv
<1>3. ASSUME NEW q \in Savers PROVE Knows(q)'
  <2>1. CASE q = p
    BY <2>1 DEF Knows
  <2>2. CASE q # p
    BY <2>2 DEF SaverInv, Knows, SavedId
  <2> QED
    BY <2>1, <2>2
<1> QED
  BY <1>1, <1>2, <1>3 DEF SaverInv

(* The test: a saver that passes it while another is about to write makes  *)
(* the id a raced one, and the file of the id is absent.                   *)
LEMMA TestEffect ==
    ASSUME StoreInv, NEW p \in Savers, CheckExists(p)
    PROVE  /\ files' = files /\ torn' = torn
           /\ saver[p].pc = "checking" /\ saver[p].run \in Runs
           /\ \A q \in Savers \ {p} : saver'[q] = saver[q]
           /\ \/ saver'[p] = AtRest("refused") /\ raced' = raced
              \/ /\ saver'[p].pc = "opening" /\ saver'[p].run = saver[p].run
                 /\ saver'[p].written = 0
                 /\ files[SavedId(p)] = None
                 /\ raced' = NowRaced(p)
<1> USE DEF StoreInv
<1>1. saver[p].pc = "checking" /\ saver[p].run \in Runs /\ saver[p].written = 0
  BY DEF CheckExists, Saving, TypeInv, SavingHasARun, SaverInv, Knows
<1>2. /\ files' = files /\ torn' = torn
      /\ \A q \in Savers \ {p} : saver'[q] = saver[q]
  BY DEF CheckExists, TypeInv, TypeOK
<1>3. CASE files[IdOf[saver[p].run]] = None
  BY <1>1, <1>2, <1>3 DEF CheckExists, TypeInv, TypeOK, SaverStates, SavedId
<1>4. CASE files[IdOf[saver[p].run]] # None
  BY <1>1, <1>2, <1>4 DEF CheckExists, TypeInv, TypeOK, SaverStates
<1> QED
  BY <1>1, <1>2, <1>3, <1>4

LEMMA StoreInvTest ==
    ASSUME StoreInv, TypeInv', NEW p \in Savers, CheckExists(p)
    PROVE  StoreInv'
<1> USE DEF StoreInv
<1>0. /\ files' = files
      /\ saver[p].pc = "checking" /\ saver[p].run \in Runs
      /\ \A q \in Savers \ {p} : saver'[q] = saver[q]
  BY TestEffect
<1>1. CASE saver'[p] = AtRest("refused") /\ raced' = raced
  <2>1. OwnerInv'
    BY <1>0, <1>1 DEF OwnerInv, PastTest, SavedId, AtRest
  <2>2. FileInv'
    BY <1>0, <1>1 DEF FileInv
  <2>3. ASSUME NEW q \in Savers PROVE Knows(q)'
    <3>1. CASE q = p
      BY <1>1, <3>1 DEF Knows, AtRest
    <3>2. CASE q # p
      BY <1>0, <1>1, <3>2 DEF SaverInv, Knows, SavedId
    <3> QED
      BY <3>1, <3>2
  <2> QED
    BY <2>1, <2>2, <2>3 DEF SaverInv
<1>2. CASE /\ saver'[p].pc = "opening" /\ saver'[p].run = saver[p].run
           /\ saver'[p].written = 0
           /\ files[SavedId(p)] = None
           /\ raced' = NowRaced(p)
  <2>1. raced \subseteq raced'
    BY <1>2 DEF NowRaced
  <2>2. ASSUME NEW q \in Savers, q # p, PastTest(q), SavedId(q) = SavedId(p)
        PROVE  SavedId(p) \in raced'
    <3>1. CASE saver[q].pc = "opening"
      BY <1>2, <2>2, <3>1 DEF NowRaced, Saving, SavedId
    <3>2. CASE saver[q].pc = "writing"
      BY <1>2, <2>2, <3>2 DEF TypeInv, SavingHasARun, SavedId
    <3> QED
      BY <2>2, <3>1, <3>2 DEF PastTest
  <2>3. OwnerInv'
    <3> SUFFICES ASSUME NEW a \in Savers, NEW b \in Savers,
                        PastTest(a)', PastTest(b)', SavedId(a)' = SavedId(b)',
                        SavedId(a)' \notin raced', a # b
                 PROVE  FALSE
      BY DEF OwnerInv
    <3>1. SavedId(p)' = SavedId(p) /\ \A q \in Savers \ {p} :
              SavedId(q)' = SavedId(q) /\ (PastTest(q)' <=> PastTest(q))
      BY <1>0, <1>2 DEF SavedId, PastTest
    <3>2. CASE a = p
      BY <2>2, <3>1, <3>2
    <3>3. CASE b = p
      BY <2>2, <3>1, <3>3
    <3>4. CASE a # p /\ b # p
      BY <2>1, <3>1, <3>4 DEF OwnerInv
    <3> QED
      BY <3>2, <3>3, <3>4
  <2>4. FileInv'
    BY <1>0, <2>1 DEF FileInv
  <2>5. ASSUME NEW q \in Savers PROVE Knows(q)'
    <3>1. CASE q = p
      BY <1>0, <1>2, <3>1 DEF Knows, SavedId
    <3>2. CASE q # p
      BY <1>0, <2>1, <3>2 DEF SaverInv, Knows, SavedId
    <3> QED
      BY <3>1, <3>2
  <2> QED
    BY <2>3, <2>4, <2>5 DEF SaverInv
<1> QED
  BY <1>1, <1>2, TestEffect

(* A saver that writes up to chunk n of its run disturbs nobody else.      *)
LEMMA StoreInvWrite ==
    ASSUME StoreInv, TypeInv', NEW p \in Savers, NEW run \in Runs,
           NEW n \in 0 .. SizeOf[run],
           PastTest(p), saver[p].run = run,
           \A id \in Ids \ {IdOf[run]} : files'[id] = files[id],
           IdOf[run] \notin raced => files'[IdOf[run]] = Chunks(run, n),
           raced' = raced,
           \A q \in Savers \ {p} : saver'[q] = saver[q],
           saver'[p].pc = (IF n = SizeOf[run] THEN "saved" ELSE "writing"),
           saver'[p].run = run, saver'[p].written = n
    PROVE  StoreInv'
<1> USE DEF StoreInv
<1>1. OwnerInv'
  BY DEF OwnerInv, PastTest, SavedId
<1>2. FileInv'
  <2> SUFFICES ASSUME NEW id \in Ids \ raced
               PROVE  \/ files'[id] = None
                      \/ \E r \in Runs : \E k \in 0 .. SizeOf[r] :
                            IdOf[r] = id /\ files'[id] = Chunks(r, k)
    BY DEF FileInv
  <2>1. CASE id = IdOf[run]
    BY <2>1
  <2>2. CASE id # IdOf[run]
    BY <2>2 DEF FileInv
  <2> QED
    BY <2>1, <2>2
<1>3. ASSUME NEW q \in Savers PROVE Knows(q)'
  <2>1. CASE q = p
    <3>1. SizeOf[run] \in Nat
      BY DocumentType
    <3> QED
      BY <2>1, <3>1 DEF Knows, SavedId, Document
  <2>2. CASE q # p
    <3>1. saver'[q] = saver[q]
      BY <2>2
    <3>2. CASE saver[q].pc \in {"opening", "writing", "saved"}
      <4>1. saver[q].run \in Runs /\ SavedId(q) \in Ids /\ SavedId(q)' = SavedId(q)
        BY <3>1, <3>2, IdType DEF TypeInv, SavingHasARun, SavedId
      <4>2. CASE SavedId(q) # IdOf[run]
        <5>1. files'[SavedId(q)] = files[SavedId(q)]
          BY <4>1, <4>2
        <5> QED
          BY <3>1, <4>1, <5>1 DEF SaverInv, Knows
      <4>3. CASE SavedId(q) = IdOf[run] /\ IdOf[run] \in raced
        BY <3>1, <4>1, <4>3 DEF SaverInv, Knows
      <4>4. CASE SavedId(q) = IdOf[run] /\ IdOf[run] \notin raced
        <5>1. saver[q].pc = "saved"
          BY <2>2, <3>2, <4>4 DEF OwnerInv, PastTest, SavedId
        <5>2. files[IdOf[run]] = Document(saver[q].run)
          BY <4>4, <5>1 DEF SaverInv, Knows
        <5>3. CASE saver[p].pc = "opening"
          BY <4>1, <4>4, <5>2, <5>3, DocumentType DEF SaverInv, Knows, SavedId
        <5>4. CASE saver[p].pc = "writing"
          <6>1. /\ files[IdOf[run]] = Chunks(run, saver[p].written)
                /\ saver[p].written < SizeOf[run]
            BY <4>4, <5>4 DEF SaverInv, Knows, SavedId
          <6>2. saver[p].written \in Nat /\ SizeOf[run] \in Nat
            BY DocumentType DEF TypeInv, TypeOK, SaverStates
          <6>3. saver[p].written = SizeOf[run]
            <7>1. Chunks(run, saver[p].written) = Document(saver[q].run)
              BY <5>2, <6>1
            <7>2. saver[q].run \in Runs
              BY <4>1
            <7> QED
              BY <6>2, <7>1, <7>2, OneDocument
          <6> QED
            BY <6>1, <6>2, <6>3
        <5> QED
          BY <5>3, <5>4 DEF PastTest
      <4> QED
        BY <4>2, <4>3, <4>4
    <3>3. CASE saver[q].pc \notin {"opening", "writing", "saved"}
      BY <3>1, <3>3 DEF SaverInv, Knows
    <3> QED
      BY <3>2, <3>3
  <2> QED
    BY <2>1, <2>2
<1> QED
  BY <1>1, <1>2, <1>3 DEF SaverInv

(* What a saver that opens its file, or writes its next chunk, does to it. *)
LEMMA OpenEffect ==
    ASSUME StoreInv, NEW p \in Savers, OpenForWrite(p)
    PROVE  /\ PastTest(p) /\ saver[p].run \in Runs /\ 0 < SizeOf[saver[p].run]
           /\ IdOf[saver[p].run] \notin raced => files[IdOf[saver[p].run]] = None
           /\ files' = [files EXCEPT ![IdOf[saver[p].run]] = Chunks(saver[p].run, 0)]
           /\ \A q \in Savers \ {p} : saver'[q] = saver[q]
           /\ saver'[p].pc = "writing" /\ saver'[p].run = saver[p].run
           /\ saver'[p].written = 0
<1> USE DEF StoreInv, OpenForWrite, Saving
<1>1. saver[p].run \in Runs /\ PastTest(p)
  BY DEF TypeInv, SavingHasARun, PastTest
<1>2. Chunks(saver[p].run, 0) = <<>> /\ 0 < SizeOf[saver[p].run]
  BY <1>1, EmptyFile, DocumentType
<1>3. /\ IdOf[saver[p].run] \notin raced => files[IdOf[saver[p].run]] = None
      /\ saver[p].written = 0
  BY DEF SaverInv, Knows, SavedId
<1>4. /\ \A q \in Savers \ {p} : saver'[q] = saver[q]
      /\ saver'[p].pc = "writing" /\ saver'[p].run = saver[p].run
      /\ saver'[p].written = 0
  BY <1>3 DEF TypeInv, TypeOK, SaverStates
<1> QED
  BY <1>1, <1>2, <1>3, <1>4

LEMMA WriteEffect ==
    ASSUME StoreInv, NEW p \in Savers, WriteChunk(p)
    PROVE  LET run == saver[p].run
               next == saver[p].written + 1
           IN  /\ PastTest(p) /\ run \in Runs /\ next \in 1 .. SizeOf[run]
               /\ \A id \in Ids \ {IdOf[run]} : files'[id] = files[id]
               /\ files'[IdOf[run]] # None
               /\ IdOf[run] \notin raced =>
                     /\ files[IdOf[run]] = Chunks(run, saver[p].written)
                     /\ files'[IdOf[run]] = Chunks(run, next)
               /\ \A q \in Savers \ {p} : saver'[q] = saver[q]
               /\ saver'[p].pc = (IF next = SizeOf[run] THEN "saved" ELSE "writing")
               /\ saver'[p].run = run /\ saver'[p].written = next
<1> USE DEF StoreInv
<1> DEFINE run == saver[p].run
           next == saver[p].written + 1
<1>1. saver[p].pc = "writing" /\ PastTest(p)
  BY DEF WriteChunk, Saving, PastTest
<1>2. run \in Runs /\ saver[p].written \in Nat
  BY <1>1 DEF TypeInv, TypeOK, SaverStates, SavingHasARun
<1>3. SizeOf[run] \in Nat /\ IdOf[run] \in Ids
  BY <1>2, DocumentType, IdType
<1>4. /\ saver[p].written < SizeOf[run]
      /\ IdOf[run] \notin raced => files[IdOf[run]] = Chunks(run, saver[p].written)
  BY <1>1 DEF SaverInv, Knows, SavedId
<1>5. next \in 1 .. SizeOf[run]
  BY <1>2, <1>3, <1>4
<1>6. IdOf[run] \notin raced => Put(files[IdOf[run]], next, run) = Chunks(run, next)
  BY <1>2, <1>4, PutNext
<1>7. files' = [files EXCEPT ![IdOf[run]] = Put(files[IdOf[run]], next, run)]
  BY DEF WriteChunk
<1>8. saver' = [saver EXCEPT ![p] =
                 [pc |-> IF next = SizeOf[run] THEN "saved" ELSE "writing",
                  run |-> run, written |-> next]]
  BY DEF WriteChunk
<1>9. /\ \A q \in Savers \ {p} : saver'[q] = saver[q]
      /\ saver'[p].pc = (IF next = SizeOf[run] THEN "saved" ELSE "writing")
      /\ saver'[p].run = run /\ saver'[p].written = next
  BY <1>8 DEF TypeInv, TypeOK, SaverStates
<1>10. Put(files[IdOf[run]], next, run) # None
  <2>1. files[IdOf[run]] \in Seq(Runs \union {None}) /\ next \in Nat
    BY <1>1, <1>2, <1>3 DEF TypeInv, TypeOK, SavingHasARun
  <2>2. Put(files[IdOf[run]], next, run) \in Seq(Runs \union {None})
    BY <1>2, <2>1, PutType
  <2> QED
    BY <2>2, NoneAssumption
<1>11. DOMAIN files = Ids
  BY DEF TypeInv, TypeOK
<1> HIDE DEF next
<1>12. /\ \A id \in Ids \ {IdOf[run]} : files'[id] = files[id]
       /\ files'[IdOf[run]] = Put(files[IdOf[run]], next, run)
  BY <1>3, <1>7, <1>11
<1>13. /\ files'[IdOf[run]] # None
       /\ IdOf[run] \notin raced =>
             /\ files[IdOf[run]] = Chunks(run, saver[p].written)
             /\ files'[IdOf[run]] = Chunks(run, next)
  BY <1>4, <1>6, <1>10, <1>12
<1> QED
  BY <1>1, <1>2, <1>5, <1>9, <1>12, <1>13 DEF next

ReaderMoves(q) ==
    \/ \E target \in Targets \union {None} : BeginList(q, target)
    \/ \E id \in Ids : BeginLoad(q, id)
    \/ ReaderStep(q)

LEMMA ReaderEffect ==
    ASSUME NEW q \in Readers, ReaderMoves(q)
    PROVE  UNCHANGED <<files, torn, raced, saver>>
BY DEF ReaderMoves, BeginList, BeginLoad, ReaderStep, ReadNext, ReadLoaded, EndList

LEMMA StoreInvStep == StoreInv /\ [Next]_vars => StoreInv'
<1> SUFFICES ASSUME StoreInv, [Next]_vars PROVE StoreInv'
  OBVIOUS
<1>1. TypeInv'
  BY TypeInvStep DEF StoreInv
<1>2. ASSUME UNCHANGED <<files, raced, saver>> PROVE StoreInv'
  <2>1. OwnerInv' /\ FileInv'
    BY <1>2 DEF StoreInv, OwnerInv, FileInv, PastTest, SavedId
  <2>2. SaverInv'
    BY <1>2 DEF StoreInv, SaverInv, Knows, SavedId
  <2> QED
    BY <1>1, <2>1, <2>2 DEF StoreInv
<1>3. ASSUME NEW p \in Savers, NEW run \in Runs, BeginSave(p, run) PROVE StoreInv'
  <2>1. /\ files' = files /\ raced' = raced
        /\ \A q \in Savers \ {p} : saver'[q] = saver[q]
        /\ saver'[p].pc = "checking" /\ saver'[p].written = 0
    BY <1>3 DEF BeginSave, StoreInv, TypeInv, TypeOK
  <2> QED
    BY <1>1, <2>1, StoreInvAway
<1>4. ASSUME NEW p \in Savers, CheckExists(p) PROVE StoreInv'
  BY <1>1, <1>4, StoreInvTest
<1>5. ASSUME NEW p \in Savers, OpenForWrite(p) PROVE StoreInv'
  <2> DEFINE run == saver[p].run
  <2>1. /\ PastTest(p) /\ run \in Runs /\ raced' = raced
        /\ 0 \in 0 .. SizeOf[run] /\ 0 # SizeOf[run]
    <3>1. PastTest(p) /\ run \in Runs /\ 0 < SizeOf[run]
      BY <1>5, OpenEffect
    <3>2. SizeOf[run] \in Nat /\ raced' = raced
      BY <1>5, <3>1, DocumentType DEF OpenForWrite
    <3> QED
      BY <3>1, <3>2
  <2>2. /\ \A id \in Ids \ {IdOf[run]} : files'[id] = files[id]
        /\ files'[IdOf[run]] = Chunks(run, 0)
    BY <1>5, <2>1, OpenEffect, IdType DEF StoreInv, TypeInv, TypeOK
  <2>3. /\ \A q \in Savers \ {p} : saver'[q] = saver[q]
        /\ saver'[p].pc = "writing" /\ saver'[p].run = run /\ saver'[p].written = 0
    BY <1>5, OpenEffect
  <2> QED
    BY <1>1, <2>1, <2>2, <2>3, StoreInvWrite
<1>6. ASSUME NEW p \in Savers, WriteChunk(p) PROVE StoreInv'
  <2> DEFINE run == saver[p].run
             next == saver[p].written + 1
  <2>1. PastTest(p) /\ run \in Runs /\ next \in 0 .. SizeOf[run] /\ raced' = raced
    <3>1. PastTest(p) /\ run \in Runs /\ next \in 1 .. SizeOf[run]
      BY <1>6, WriteEffect
    <3>2. SizeOf[run] \in Nat /\ raced' = raced
      BY <1>6, <3>1, DocumentType DEF WriteChunk
    <3> QED
      BY <3>1, <3>2
  <2>2. /\ \A id \in Ids \ {IdOf[run]} : files'[id] = files[id]
        /\ IdOf[run] \notin raced => files'[IdOf[run]] = Chunks(run, next)
        /\ \A q \in Savers \ {p} : saver'[q] = saver[q]
        /\ saver'[p].pc = (IF next = SizeOf[run] THEN "saved" ELSE "writing")
        /\ saver'[p].run = run /\ saver'[p].written = next
    BY <1>6, WriteEffect
  <2> HIDE DEF next
  <2> QED
    BY <1>1, <2>1, <2>2, StoreInvWrite
<1>7. ASSUME NEW p \in Savers, Crash(p) PROVE StoreInv'
  <2>1. /\ files' = files /\ raced' = raced
        /\ \A q \in Savers \ {p} : saver'[q] = saver[q]
        /\ saver'[p].pc = "idle" /\ saver'[p].written = 0
    BY <1>7 DEF Crash, AtRest, StoreInv, TypeInv, TypeOK
  <2> QED
    BY <1>1, <2>1, StoreInvAway
<1>8. CASE UNCHANGED vars
  BY <1>2, <1>8 DEF vars
<1>9. ASSUME NEW q \in Readers, ReaderMoves(q) PROVE StoreInv'
  BY <1>2, <1>9, ReaderEffect
<1> QED
  BY <1>3, <1>4, <1>5, <1>6, <1>7, <1>8, <1>9 DEF Next, SaverStep, ReaderMoves

-----------------------------------------------------------------------------
(* The theorems.                                                           *)

LEMMA StoreInvariant == Spec => []StoreInv
<1>1. StoreInv /\ [Next]_vars => StoreInv'
  BY StoreInvStep
<1> QED
  BY <1>1, StoreInvInit, PTL DEF Spec

(* A save that returned is in the directory, whatever the other processes  *)
(* save and wherever they are killed (JsonlRunStore.save), unless it raced *)
(* with another save of its id.                                            *)
THEOREM SavedStaysStored == Spec => []SavedIsStored
<1>1. StoreInv => SavedIsStored
  <2> SUFFICES ASSUME StoreInv, NEW p \in Savers, Saving(p, "saved"),
                      IdOf[saver[p].run] \notin raced
               PROVE  saver[p].run \in Stored
    BY DEF SavedIsStored
  <2>1. saver[p].run \in Runs
    BY DEF Saving, StoreInv, TypeInv, SavingHasARun
  <2>2. files[IdOf[saver[p].run]] = Document(saver[p].run)
    BY DEF Saving, StoreInv, SaverInv, Knows, SavedId
  <2> QED
    BY <2>1, <2>2 DEF Stored, Holds
<1> QED
  BY <1>1, StoreInvariant, PTL

(* What a step may do to the file of an id nobody raced for: leave it, or  *)
(* write the next stretch of the run that has it.                          *)
LEMMA FileStep ==
    ASSUME StoreInv, [Next]_vars
    PROVE  \/ files' = files
           \/ \E run \in Runs : \E n \in 0 .. SizeOf[run] :
                 /\ raced' = raced
                 /\ \A id \in Ids \ {IdOf[run]} : files'[id] = files[id]
                 /\ files'[IdOf[run]] # None
                 /\ IdOf[run] \notin raced =>
                       /\ files'[IdOf[run]] = Chunks(run, n)
                       /\ \/ files[IdOf[run]] = None
                          \/ \E k \in Nat : /\ k < n
                                            /\ files[IdOf[run]] = Chunks(run, k)
<1>1. ASSUME NEW p \in Savers, OpenForWrite(p)
      PROVE  \E run \in Runs : \E n \in 0 .. SizeOf[run] :
                 /\ raced' = raced
                 /\ \A id \in Ids \ {IdOf[run]} : files'[id] = files[id]
                 /\ files'[IdOf[run]] # None
                 /\ IdOf[run] \notin raced =>
                       files'[IdOf[run]] = Chunks(run, n) /\ files[IdOf[run]] = None
  <2> DEFINE run == saver[p].run
  <2>1. /\ run \in Runs /\ raced' = raced
        /\ IdOf[run] \notin raced => files[IdOf[run]] = None
        /\ files' = [files EXCEPT ![IdOf[run]] = Chunks(run, 0)]
    BY <1>1, OpenEffect DEF OpenForWrite
  <2>2. 0 \in 0 .. SizeOf[run] /\ Chunks(run, 0) # None
    BY <2>1, DocumentType, ChunksType
  <2>3. /\ \A id \in Ids \ {IdOf[run]} : files'[id] = files[id]
        /\ files'[IdOf[run]] = Chunks(run, 0)
    BY <2>1, IdType DEF StoreInv, TypeInv, TypeOK
  <2> QED
    BY <2>1, <2>2, <2>3
<1>2. ASSUME NEW p \in Savers, WriteChunk(p)
      PROVE  \E run \in Runs : \E n \in 0 .. SizeOf[run] :
                 /\ raced' = raced
                 /\ \A id \in Ids \ {IdOf[run]} : files'[id] = files[id]
                 /\ files'[IdOf[run]] # None
                 /\ IdOf[run] \notin raced =>
                       /\ files'[IdOf[run]] = Chunks(run, n)
                       /\ \E k \in Nat : k < n /\ files[IdOf[run]] = Chunks(run, k)
  <2> DEFINE run == saver[p].run
             next == saver[p].written + 1
  <2>1. /\ run \in Runs /\ next \in 1 .. SizeOf[run]
        /\ \A id \in Ids \ {IdOf[run]} : files'[id] = files[id]
        /\ files'[IdOf[run]] # None
        /\ IdOf[run] \notin raced =>
              /\ files[IdOf[run]] = Chunks(run, saver[p].written)
              /\ files'[IdOf[run]] = Chunks(run, next)
    BY <1>2, WriteEffect
  <2>2. raced' = raced
    BY <1>2 DEF WriteChunk
  <2>3. saver[p].written \in Nat /\ saver[p].written < next
    BY DEF StoreInv, TypeInv, TypeOK, SaverStates
  <2>4. next \in 0 .. SizeOf[run]
    BY <2>1
  <2> HIDE DEF next
  <2> QED
    BY <2>1, <2>2, <2>3, <2>4
<1>3. ASSUME NEW p \in Savers,
             (\E run \in Runs : BeginSave(p, run)) \/ CheckExists(p) \/ Crash(p)
      PROVE  files' = files
  BY <1>3 DEF BeginSave, CheckExists, Crash
<1>4. ASSUME NEW q \in Readers, ReaderMoves(q) PROVE files' = files
  BY <1>4, ReaderEffect
<1>5. CASE UNCHANGED vars
  BY <1>5 DEF vars
<1>6. ASSUME NEW p \in Savers, OpenForWrite(p) \/ WriteChunk(p)
      PROVE  \E run \in Runs : \E n \in 0 .. SizeOf[run] :
                 /\ raced' = raced
                 /\ \A id \in Ids \ {IdOf[run]} : files'[id] = files[id]
                 /\ files'[IdOf[run]] # None
                 /\ IdOf[run] \notin raced =>
                       /\ files'[IdOf[run]] = Chunks(run, n)
                       /\ \/ files[IdOf[run]] = None
                          \/ \E k \in Nat : /\ k < n
                                            /\ files[IdOf[run]] = Chunks(run, k)
  <2>1. CASE OpenForWrite(p)
    <3>1. PICK run \in Runs : \E n \in 0 .. SizeOf[run] :
                 /\ raced' = raced
                 /\ \A id \in Ids \ {IdOf[run]} : files'[id] = files[id]
                 /\ files'[IdOf[run]] # None
                 /\ IdOf[run] \notin raced =>
                       files'[IdOf[run]] = Chunks(run, n) /\ files[IdOf[run]] = None
      BY <1>1, <2>1
    <3> QED
      BY <3>1
  <2>2. CASE WriteChunk(p)
    <3>1. PICK run \in Runs : \E n \in 0 .. SizeOf[run] :
                 /\ raced' = raced
                 /\ \A id \in Ids \ {IdOf[run]} : files'[id] = files[id]
                 /\ files'[IdOf[run]] # None
                 /\ IdOf[run] \notin raced =>
                       /\ files'[IdOf[run]] = Chunks(run, n)
                       /\ \E k \in Nat : k < n /\ files[IdOf[run]] = Chunks(run, k)
      BY <1>2, <2>2
    <3> QED
      BY <3>1
  <2> QED
    BY <1>6, <2>1, <2>2
<1> QED
  BY <1>3, <1>4, <1>5, <1>6 DEF Next, SaverStep, ReaderMoves

(* Until an id is raced its file is absent, and a raced id stays one.      *)
LEMMA RacedStep ==
    ASSUME StoreInv, [Next]_vars
    PROVE  /\ raced \subseteq raced'
           /\ \A id \in raced' \ raced : files[id] = None /\ files' = files
<1>1. ASSUME NEW p \in Savers, CheckExists(p)
      PROVE  /\ raced \subseteq raced'
             /\ \A id \in raced' \ raced : files[id] = None /\ files' = files
  BY <1>1, TestEffect DEF NowRaced, SavedId
<1>2. ASSUME NEW p \in Savers,
             \/ \E run \in Runs : BeginSave(p, run)
             \/ OpenForWrite(p) \/ WriteChunk(p) \/ Crash(p)
      PROVE  raced' = raced
  BY <1>2 DEF BeginSave, OpenForWrite, WriteChunk, Crash
<1>3. ASSUME NEW q \in Readers, ReaderMoves(q) PROVE raced' = raced
  BY <1>3, ReaderEffect
<1>4. CASE UNCHANGED vars
  BY <1>4 DEF vars
<1> QED
  BY <1>1, <1>2, <1>3, <1>4 DEF Next, SaverStep, ReaderMoves

LEMMA OverwriteStep ==
    ASSUME StoreInv, [Next]_vars, NEW id \in Ids \ raced, files[id] # None,
           NEW i \in DOMAIN files[id]
    PROVE  i \in DOMAIN files'[id] /\ files'[id][i] = files[id][i]
<1>1. ASSUME NEW run \in Runs, NEW n \in 0 .. SizeOf[run], IdOf[run] = id,
             files'[id] = Chunks(run, n), NEW k \in Nat, k < n,
             files[id] = Chunks(run, k)
      PROVE  i \in DOMAIN files'[id] /\ files'[id][i] = files[id][i]
  <2>1. n \in Nat
    BY DocumentType
  <2>2. i \in 1 .. k /\ i \in 1 .. n
    BY <1>1, <2>1, ChunksType
  <2> QED
    BY <1>1, <2>1, <2>2 DEF Chunks
<1>2. CASE files' = files
  BY <1>2
<1>3. CASE files' # files
  <2>1. PICK run \in Runs : \E n \in 0 .. SizeOf[run] :
                 /\ raced' = raced
                 /\ \A o \in Ids \ {IdOf[run]} : files'[o] = files[o]
                 /\ files'[IdOf[run]] # None
                 /\ IdOf[run] \notin raced =>
                       /\ files'[IdOf[run]] = Chunks(run, n)
                       /\ \/ files[IdOf[run]] = None
                          \/ \E k \in Nat : /\ k < n
                                            /\ files[IdOf[run]] = Chunks(run, k)
    BY <1>3, FileStep
  <2>2. CASE id # IdOf[run]
    BY <2>1, <2>2
  <2>3. CASE id = IdOf[run]
    BY <1>1, <2>1, <2>3
  <2> QED
    BY <2>2, <2>3
<1> QED
  BY <1>2, <1>3

(* "A run store is append-only ... never an overwrite of an old one"       *)
(* (JsonlRunStore.save): no process ever truncates or overwrites a file,   *)
(* whatever ids it saves under and however often, unless two saves tested  *)
(* the id before either of them made its file.                             *)
THEOREM StoredIsNeverOverwritten == Spec => NeverOverwritten
<1> DEFINE Grows == \A id \in Ids \ raced : files[id] # None =>
                       \A i \in DOMAIN files[id] :
                           i \in DOMAIN files'[id] /\ files'[id][i] = files[id][i]
<1>1. StoreInv /\ [Next]_vars => [Grows]_vars
  BY OverwriteStep
<1>2. Spec => []StoreInv
  BY StoreInvariant
<1> QED
  BY <1>1, <1>2, PTL DEF Spec, NeverOverwritten

(* A file that parses holds the whole document of a run with its id.       *)
LEMMA ParsesWhole ==
    ASSUME StoreInv, NEW id \in Ids \ raced, NEW other \in Runs, Holds(files[id], other)
    PROVE  IdOf[other] = id
<1>1. files[id] = Document(other) /\ files[id] # None
  BY DocumentType DEF Holds
<1>2. PICK run \in Runs : \E n \in 0 .. SizeOf[run] :
          IdOf[run] = id /\ files[id] = Chunks(run, n)
  BY <1>1 DEF StoreInv, FileInv
<1>3. PICK n \in 0 .. SizeOf[run] : IdOf[run] = id /\ files[id] = Chunks(run, n)
  BY <1>2
<1>4. n \in Nat
  BY DocumentType
<1> QED
  BY <1>1, <1>3, <1>4, OneDocument

(* A step leaves the stored runs as they are, or adds one whose id no      *)
(* stored run has.                                                         *)
LEMMA StoredStep ==
    ASSUME StoreInv, [Next]_vars
    PROVE  [Contract!Next]_(Unraced(Stored))
<1> DEFINE Kept == Unraced(Stored)
<1>0. /\ Kept = {r \in Runs : Holds(files[IdOf[r]], r) /\ IdOf[r] \notin raced}
      /\ Kept' = {r \in Runs : Holds(files'[IdOf[r]], r) /\ IdOf[r] \notin raced'}
  BY DEF Unraced, Stored, Holds
<1>1. CASE files' = files
  <2>1. \A r \in Runs : IdOf[r] \in raced' \ raced => files[IdOf[r]] # Document(r)
    BY RacedStep, DocumentType
  <2>2. raced \subseteq raced'
    BY RacedStep
  <2>3. \A r \in Runs : Holds(files[IdOf[r]], r) /\ IdOf[r] \notin raced
                           <=> Holds(files'[IdOf[r]], r) /\ IdOf[r] \notin raced'
    BY <1>1, <2>1, <2>2 DEF Holds
  <2>4. Kept' = Kept
    BY <1>0, <2>3
  <2> QED
    BY <2>4
<1>2. ASSUME NEW run \in Runs, NEW n \in 0 .. SizeOf[run],
             raced' = raced,
             \A id \in Ids \ {IdOf[run]} : files'[id] = files[id],
             IdOf[run] \notin raced =>
                /\ files'[IdOf[run]] = Chunks(run, n)
                /\ \/ files[IdOf[run]] = None
                   \/ \E k \in Nat : k < n /\ files[IdOf[run]] = Chunks(run, k)
      PROVE  [Contract!Next]_Kept
  <2>1. \A r \in Runs : IdOf[r] # IdOf[run] => files'[IdOf[r]] = files[IdOf[r]]
    BY <1>2, IdType
  <2>2. CASE IdOf[run] \in raced
    <3>1. Kept' = Kept
      BY <1>0, <1>2, <2>1, <2>2
    <3> QED
      BY <3>1
  <2>3. CASE IdOf[run] \notin raced
    <3>1. n \in Nat /\ SizeOf[run] \in Nat /\ n <= SizeOf[run]
      BY DocumentType
    <3>2. ASSUME NEW r \in Runs, IdOf[r] = IdOf[run] PROVE r \notin Kept
      <4> SUFFICES ASSUME files[IdOf[run]] = Document(r) PROVE FALSE
        BY <1>0, <3>2 DEF Holds
      <4>1. PICK k \in Nat : k < n /\ files[IdOf[run]] = Chunks(run, k)
        BY <1>2, <2>3, DocumentType
      <4>2. r = run /\ k = SizeOf[run]
        BY <4>1, OneDocument
      <4> QED
        BY <3>1, <4>1, <4>2
    <3>3. ASSUME NEW r \in Runs, IdOf[r] = IdOf[run]
          PROVE  r \in Kept' <=> r = run /\ n = SizeOf[run]
      <4>1. r \in Kept' <=> Chunks(run, n) = Document(r)
        BY <1>0, <1>2, <2>3, <3>3 DEF Holds
      <4>2. Chunks(run, n) = Document(r) => r = run /\ n = SizeOf[run]
        BY <3>1, OneDocument
      <4>3. Chunks(run, SizeOf[run]) = Document(run)
        BY DEF Document
      <4> QED
        BY <4>1, <4>2, <4>3
    <3>4. \A r \in Runs : IdOf[r] # IdOf[run] => (r \in Kept' <=> r \in Kept)
      BY <1>0, <1>2, <2>1
    <3>5. Kept \subseteq Runs /\ Kept' \subseteq Runs
      BY <1>0
    <3> HIDE DEF Kept
    <3>6. CASE n = SizeOf[run]
      <4>1. Kept' = Kept \union {run}
        BY <3>2, <3>3, <3>4, <3>5, <3>6
      <4>2. run \notin Kept /\ \A other \in Kept : IdOf[other] # IdOf[run]
        BY <3>2, <3>5
      <4> QED
        BY <4>1, <4>2 DEF Contract!Next, Contract!Append, Kept
    <3>7. CASE n # SizeOf[run]
      <4>1. Kept' = Kept
        BY <3>2, <3>3, <3>4, <3>5, <3>7
      <4> QED
        BY <4>1
    <3> QED
      BY <3>6, <3>7
  <2> QED
    BY <2>2, <2>3
<1>3. CASE files' # files
  <2>1. PICK run \in Runs : \E n \in 0 .. SizeOf[run] :
                 /\ raced' = raced
                 /\ \A id \in Ids \ {IdOf[run]} : files'[id] = files[id]
                 /\ files'[IdOf[run]] # None
                 /\ IdOf[run] \notin raced =>
                       /\ files'[IdOf[run]] = Chunks(run, n)
                       /\ \/ files[IdOf[run]] = None
                          \/ \E k \in Nat : /\ k < n
                                            /\ files[IdOf[run]] = Chunks(run, k)
    BY <1>3, FileStep
  <2> QED
    BY <1>2, <2>1
<1> QED
  BY <1>1, <1>3

(* The directory of files implements the RunStore contract: seen as the    *)
(* set of runs whose file is whole, raced ids aside, it starts empty and   *)
(* every step of every process appends one run under an id no stored run   *)
(* has, or changes nothing: a save under an id that is taken is refused.   *)
THEOREM StoreImplementsContract == Spec => ImplementsContract
<1>1. Init => Contract!Init
  <2> SUFFICES ASSUME Init, NEW run \in Runs PROVE files[IdOf[run]] # Document(run)
    BY DEF Contract!Init, Unraced, Stored, Holds
  <2> QED
    BY IdType, DocumentType DEF Init
<1>2. StoreInv /\ [Next]_vars => [Contract!Next]_(Unraced(Stored))
  BY StoredStep
<1>3. Spec => []StoreInv
  BY StoreInvariant
<1> QED
  BY <1>1, <1>2, <1>3, PTL DEF Spec, ImplementsContract, Contract!Spec

-----------------------------------------------------------------------------
(* What readers see of it.                                                 *)

(* A file that is neither absent nor whole is being written, or was cut    *)
(* short by a kill.                                                        *)
HalfWrittenInv ==
    \A id \in Ids \ raced :
        files[id] = None \/ Parses(files[id]) \/ id \in torn \/ BeingWritten(id)

(* A file holds chunks of the runs of its id, and holes.                   *)
OwnChunks ==
    \A id \in Ids : files[id] # None =>
        \A i \in DOMAIN files[id] :
            files[id][i] = None \/ (files[id][i] \in Runs /\ IdOf[files[id][i]] = id)

(* The files a reader has before it exist; what a listing owes has been    *)
(* found or is before it.                                                  *)
Reads(r) ==
    /\ r.pc \in {"listing", "loading"} => \A id \in r.left : files[id] # None
    /\ r.pc = "loading" => \A id, other \in r.left : other = id
    /\ r.pc \in {"listing", "listed"} =>
          /\ Unraced(r.before) \subseteq Stored /\ Unraced(r.got) \subseteq Stored
          /\ \A run \in Unraced(r.before) : Wanted(r.target, run) =>
                \/ run \in r.got
                \/ r.pc = "listing" /\ IdOf[run] \in r.left

ReaderInv == \A q \in Readers : Reads(reader[q])

ReadingInv == StoreInv /\ HalfWrittenInv /\ OwnChunks /\ ReaderInv

(* Files do not disappear, and what is stored stays stored.                *)
LEMMA FilesStay ==
    ASSUME StoreInv, [Next]_vars
    PROVE  /\ \A id \in Ids : files[id] # None => files'[id] # None
           /\ \A run \in Stored : IdOf[run] \notin raced' => run \in Stored'
<1>1. ASSUME NEW id \in Ids, files[id] # None PROVE files'[id] # None
  <2>1. CASE files' = files
    BY <1>1, <2>1
  <2>2. CASE files' # files
    <3>1. PICK run \in Runs : \E n \in 0 .. SizeOf[run] :
             /\ \A o \in Ids \ {IdOf[run]} : files'[o] = files[o]
             /\ files'[IdOf[run]] # None
      BY <2>2, FileStep
    <3> QED
      BY <1>1, <3>1
  <2> QED
    BY <2>1, <2>2
<1>2. ASSUME NEW run \in Stored, IdOf[run] \notin raced' PROVE run \in Stored'
  <2>1. /\ run \in Runs /\ Holds(files[IdOf[run]], run) /\ IdOf[run] \in Ids
        /\ IdOf[run] \notin raced
    BY <1>2, IdType, RacedStep DEF Stored
  <2>2. run \in Unraced(Stored)
    BY <2>1 DEF Unraced
  <2>3. run \in Unraced(Stored)'
    BY <2>2, StoredStep DEF Contract!Next, Contract!Append
  <2> QED
    BY <2>3 DEF Unraced
<1> QED
  BY <1>1, <1>2

(* A step of one saver, as the others see it. *)
LEMMA HalfWrittenSaver ==
    ASSUME StoreInv, StoreInv', HalfWrittenInv, [Next]_vars, NEW p \in Savers,
           (\E run \in Runs : BeginSave(p, run)) \/ SaverStep(p) \/ Crash(p)
    PROVE  HalfWrittenInv'
<1> USE DEF HalfWrittenInv
<1>0. raced \subseteq raced'
  BY RacedStep
<1>1. ASSUME files' = files, torn' = torn, saver[p].pc # "writing",
             \A q \in Savers \ {p} : saver'[q] = saver[q]
      PROVE  HalfWrittenInv'
  BY <1>0, <1>1 DEF BeingWritten, Saving
<1>2. ASSUME NEW run \in Runs, BeginSave(p, run) PROVE HalfWrittenInv'
  BY <1>1, <1>2 DEF BeginSave, StoreInv, TypeInv, TypeOK
<1>3. CASE CheckExists(p)
  BY <1>1, <1>3, TestEffect
<1>4. ASSUME files' = files, saver'[p] = AtRest("idle"),
             torn' = IF Saving(p, "writing") THEN torn \union {SavedId(p)} ELSE torn,
             \A q \in Savers \ {p} : saver'[q] = saver[q]
      PROVE  HalfWrittenInv'
  BY <1>0, <1>4 DEF BeingWritten, Saving, SavedId
<1>5. CASE Crash(p)
  BY <1>4, <1>5 DEF Crash, SavedId, StoreInv, TypeInv, TypeOK
(* Writing: the file of the saver's id is whole or still being written.    *)
<1>6. ASSUME NEW run \in Runs, saver'[p].run = run, torn' = torn, raced' = raced,
             saver[p].run = run,
             \A id \in Ids \ {IdOf[run]} : files'[id] = files[id],
             \A q \in Savers \ {p} : saver'[q] = saver[q],
             \/ saver'[p].pc = "writing"
             \/ saver'[p].pc = "saved"
      PROVE  HalfWrittenInv'
  <2> SUFFICES ASSUME NEW id \in Ids \ raced, id \notin torn, files'[id] # None,
                      ~Parses(files'[id])
               PROVE  BeingWritten(id)'
    BY <1>6
  <2>1. CASE id # IdOf[run]
    <3>1. BeingWritten(id)
      BY <1>6, <2>1
    <3>2. PICK q \in Savers : Saving(q, "writing") /\ IdOf[saver[q].run] = id
      BY <3>1 DEF BeingWritten
    <3>3. q # p
      BY <1>6, <2>1, <3>2
    <3> QED
      BY <1>6, <3>2, <3>3 DEF BeingWritten, Saving
  <2>2. CASE id = IdOf[run]
    <3>1. saver'[p].pc = "saved" => files'[id] = Document(run)
      BY <1>6, <2>2 DEF StoreInv, SaverInv, Knows, SavedId
    <3>2. saver'[p].pc = "writing"
      BY <1>6, <3>1 DEF Parses, Holds
    <3> QED
      BY <1>6, <2>2, <3>2 DEF BeingWritten, Saving
  <2> QED
    BY <2>1, <2>2
<1>7. CASE OpenForWrite(p)
  <2>1. /\ saver[p].run \in Runs /\ torn' = torn /\ raced' = raced
        /\ \A q \in Savers \ {p} : saver'[q] = saver[q]
        /\ saver'[p].pc = "writing" /\ saver'[p].run = saver[p].run
    BY <1>7, OpenEffect DEF OpenForWrite
  <2>2. \A id \in Ids \ {IdOf[saver[p].run]} : files'[id] = files[id]
    BY <1>7 DEF OpenForWrite, StoreInv, TypeInv, TypeOK
  <2> QED
    BY <1>6, <2>1, <2>2
<1>8. CASE WriteChunk(p)
  <2> DEFINE run == saver[p].run
             next == saver[p].written + 1
  <2>1. /\ run \in Runs
        /\ \A id \in Ids \ {IdOf[run]} : files'[id] = files[id]
        /\ \A q \in Savers \ {p} : saver'[q] = saver[q]
        /\ saver'[p].pc = (IF next = SizeOf[run] THEN "saved" ELSE "writing")
        /\ saver'[p].run = run
    BY <1>8, WriteEffect
  <2>2. torn' = torn /\ raced' = raced
    BY <1>8 DEF WriteChunk
  <2> HIDE DEF next
  <2>3. saver'[p].pc = "writing" \/ saver'[p].pc = "saved"
    BY <2>1
  <2> QED
    BY <1>6, <2>1, <2>2, <2>3
<1> QED
  BY <1>2, <1>3, <1>5, <1>7, <1>8 DEF SaverStep

LEMMA OwnChunksStep == StoreInv /\ OwnChunks /\ [Next]_vars => OwnChunks'
<1> SUFFICES ASSUME StoreInv, OwnChunks, [Next]_vars PROVE OwnChunks'
  OBVIOUS
<1> USE DEF OwnChunks
<1>1. ASSUME files' = files PROVE OwnChunks'
  BY <1>1
<1>2. ASSUME NEW p \in Savers, OpenForWrite(p) PROVE OwnChunks'
  <2>1. /\ saver[p].run \in Runs
        /\ files' = [files EXCEPT ![IdOf[saver[p].run]] = Chunks(saver[p].run, 0)]
    BY <1>2, OpenEffect
  <2>2. DOMAIN Chunks(saver[p].run, 0) = {}
    BY <2>1, ChunksType
  <2> QED
    BY <2>1, <2>2 DEF StoreInv, TypeInv, TypeOK
<1>3. ASSUME NEW p \in Savers, WriteChunk(p) PROVE OwnChunks'
  <2> DEFINE run == saver[p].run
             next == saver[p].written + 1
             content == Put(files[IdOf[run]], next, run)
  <2>1. /\ run \in Runs /\ IdOf[run] \in Ids /\ files[IdOf[run]] # None
        /\ files' = [files EXCEPT ![IdOf[run]] = content]
    BY <1>3, IdType DEF WriteChunk, Saving, StoreInv, TypeInv, SavingHasARun
  <2>2. files \in [Ids -> Seq(Runs \union {None}) \union {None}]
    BY DEF StoreInv, TypeInv, TypeOK
  <2>3. files[IdOf[run]] \in Seq(Runs \union {None})
    BY <2>1, <2>2
  <2>4. \A i \in DOMAIN content :
           content[i] = None \/ (content[i] \in Runs /\ IdOf[content[i]] = IdOf[run])
    <3>1. \A i \in DOMAIN content :
             \/ content[i] = run \/ content[i] = None
             \/ i \in DOMAIN files[IdOf[run]] /\ content[i] = files[IdOf[run]][i]
      BY <2>3 DEF Put
    <3> HIDE DEF content
    <3> QED
      BY <2>1, <3>1
  <2> HIDE DEF content
  <2> QED
    BY <2>1, <2>2, <2>4
<1>4. ASSUME NEW p \in Savers,
             (\E run \in Runs : BeginSave(p, run)) \/ CheckExists(p) \/ Crash(p)
      PROVE  files' = files
  BY <1>4 DEF BeginSave, CheckExists, Crash
<1>5. ASSUME NEW q \in Readers, ReaderMoves(q) PROVE files' = files
  BY <1>5, ReaderEffect
<1> QED
  BY <1>1, <1>2, <1>3, <1>4, <1>5 DEF Next, SaverStep, ReaderMoves, vars

LEMMA FoundIsStored ==
    ASSUME OwnChunks, NEW id \in Ids, NEW run \in Runs, Holds(files[id], run)
    PROVE  run \in Stored
<1>1. SizeOf[run] \in Nat /\ SizeOf[run] >= 1 /\ files[id] # None
  BY DocumentType DEF Holds
<1>2. 1 \in DOMAIN files[id] /\ files[id][1] = run
  BY <1>1 DEF Holds, Document, Chunks
<1>3. IdOf[run] = id
  BY <1>1, <1>2, NoneAssumption DEF OwnChunks
<1> QED
  BY <1>3 DEF Stored

LEMMA ReaderInvSaver ==
    ASSUME StoreInv, ReaderInv, [Next]_vars, reader' = reader, TypeInv
    PROVE  ReaderInv'
<1> SUFFICES ASSUME NEW q \in Readers PROVE Reads(reader[q])'
  BY DEF ReaderInv
<1>0. reader[q] \in ReaderStates /\ raced \subseteq raced'
  BY RacedStep DEF TypeInv, TypeOK
<1>1. Reads(reader[q])
  BY DEF ReaderInv
<1>2. \A id \in reader[q].left : files[id] # None => files'[id] # None
  BY <1>0, FilesStay DEF ReaderStates
<1>3. \A run \in Stored : IdOf[run] \notin raced' => run \in Stored'
  BY FilesStay
<1> DEFINE at == reader[q]
<1>4. at' = at
  OBVIOUS
<1>5. CASE at.pc \in {"listing", "listed"}
  <2>1. /\ \A run \in at.before \union at.got :
               IdOf[run] \notin raced => run \in Stored
        /\ \A run \in at.before : IdOf[run] \notin raced /\ Wanted(at.target, run) =>
              \/ run \in at.got
              \/ at.pc = "listing" /\ IdOf[run] \in at.left
    BY <1>1, <1>5 DEF Reads, Unraced
  <2>2. \A run \in at.before \union at.got : IdOf[run] \notin raced' => run \in Stored'
    BY <1>0, <1>3, <2>1
  <2>3. /\ Unraced(at.before)' \subseteq Stored' /\ Unraced(at.got)' \subseteq Stored'
        /\ \A run \in Unraced(at.before)' : Wanted(at.target, run) =>
              \/ run \in at.got
              \/ at.pc = "listing" /\ IdOf[run] \in at.left
    BY <1>0, <1>4, <2>1, <2>2 DEF Unraced
  <2> QED
    BY <1>1, <1>2, <1>4, <2>3 DEF Reads
<1>6. CASE at.pc \notin {"listing", "listed"}
  BY <1>1, <1>2, <1>4, <1>6 DEF Reads
<1> QED
  BY <1>5, <1>6

LEMMA ReaderInvReader ==
    ASSUME StoreInv, OwnChunks, ReaderInv, NEW q \in Readers, ReaderMoves(q)
    PROVE  ReaderInv'
<1>0. /\ reader \in [Readers -> ReaderStates] /\ reader[q] \in ReaderStates
      /\ Stored \subseteq Runs /\ files' = files /\ raced' = raced
  BY ReaderEffect DEF StoreInv, TypeInv, TypeOK, Stored
<1>1. ASSUME NEW r, reader' = [reader EXCEPT ![q] = r], Reads(r)
      PROVE  ReaderInv'
  <2>1. Stored' = Stored
    BY <1>0 DEF Stored, Holds
  <2>2. reader'[q] = r /\ \A o \in Readers \ {q} : reader'[o] = reader[o]
    BY <1>0, <1>1
  <2> QED
    BY <1>0, <1>1, <2>1, <2>2 DEF ReaderInv, Reads, Unraced
<1>2. ASSUME NEW target \in Targets \union {None}, BeginList(q, target) PROVE ReaderInv'
  <2> DEFINE r == [pc |-> "listing", left |-> Existing, target |-> target,
                   got |-> {}, before |-> Stored]
  <2>1. \A run \in Stored : IdOf[run] \in Existing
    BY <1>0, IdType, DocumentType DEF Stored, Holds, Existing
  <2>2. \A id \in Existing : files[id] # None
    BY DEF Existing
  <2>3. reader' = [reader EXCEPT ![q] = r]
    BY <1>2 DEF BeginList
  <2>4. Reads(r)
    BY <2>1, <2>2 DEF Reads, Unraced
  <2> HIDE DEF r
  <2> QED
    BY <1>1, <2>3, <2>4
<1>3. ASSUME NEW id \in Ids, BeginLoad(q, id) PROVE ReaderInv'
  <2> DEFINE r == [pc |-> IF files[id] = None THEN "nosuch" ELSE "loading",
                   left |-> IF files[id] = None THEN {} ELSE {id},
                   target |-> None, got |-> {}, before |-> {}]
  <2>1. reader' = [reader EXCEPT ![q] = r]
    BY <1>3 DEF BeginLoad
  <2>2. Reads(r)
    BY DEF Reads
  <2> HIDE DEF r
  <2> QED
    BY <1>1, <2>1, <2>2
<1>4. ASSUME NEW id \in Ids, ReadNext(q, id) PROVE ReaderInv'
  <2> DEFINE at == reader[q]
             found == {run \in Runs : Holds(files[id], run) /\ Wanted(at.target, run)}
             r == IF Parses(files[id])
                    THEN [at EXCEPT !.left = at.left \ {id}, !.got = at.got \union found]
                    ELSE Failed
  <2>1. reader' = [reader EXCEPT ![q] = r]
    BY <1>4 DEF ReadNext
  <2>2. /\ at.pc = "listing" /\ \A i \in at.left : files[i] # None
        /\ Unraced(at.before) \subseteq Stored /\ Unraced(at.got) \subseteq Stored
        /\ \A run \in Unraced(at.before) : Wanted(at.target, run) =>
              run \in at.got \/ IdOf[run] \in at.left
    BY <1>4 DEF ReadNext, ReaderInv, Reads
  <2>3. CASE ~Parses(files[id])
    <3>1. r = Failed
      BY <2>3
    <3>2. Reads(Failed)
      BY DEF Reads, Failed
    <3> HIDE DEF r
    <3> QED
      BY <1>1, <2>1, <3>1, <3>2
  <2>4. CASE Parses(files[id])
    <3>1. /\ r.left = at.left \ {id} /\ r.target = at.target /\ r.before = at.before
          /\ r.got = at.got \union found /\ r.pc = "listing"
      BY <1>0, <2>2, <2>4 DEF ReaderStates
    <3>2. ASSUME NEW run \in Unraced(found) PROVE run \in Stored
      <4>1. run \in Runs /\ Holds(files[id], run)
        BY <3>2 DEF Unraced
      <4> QED
        BY <4>1, FoundIsStored
    <3>3. ASSUME NEW run \in Unraced(at.before), Wanted(at.target, run), IdOf[run] = id
          PROVE  run \in found
      <4>1. run \in Runs /\ Holds(files[id], run)
        BY <2>2, <3>3 DEF Stored
      <4> QED
        BY <3>3, <4>1
    <3> HIDE DEF r, found, at
    <3>4. \A i \in r.left : files[i] # None
      BY <2>2, <3>1
    <3>5. Unraced(r.before) \subseteq Stored /\ Unraced(r.got) \subseteq Stored
      BY <2>2, <3>1, <3>2 DEF Unraced
    <3>6. \A run \in Unraced(r.before) : Wanted(r.target, run) =>
             run \in r.got \/ IdOf[run] \in r.left
      BY <2>2, <3>1, <3>3
    <3>7. Reads(r)
      BY <3>1, <3>4, <3>5, <3>6 DEF Reads
    <3> QED
      BY <1>1, <2>1, <3>7
  <2> QED
    BY <2>3, <2>4
<1>5. ASSUME NEW id \in Ids, ReadLoaded(q, id) PROVE ReaderInv'
  <2> DEFINE at == reader[q]
             r == IF Parses(files[id])
                    THEN [at EXCEPT !.pc = "loaded", !.left = {},
                                    !.got = {run \in Runs : Holds(files[id], run)}]
                    ELSE Failed
  <2>1. reader' = [reader EXCEPT ![q] = r]
    BY <1>5 DEF ReadLoaded
  <2>2. r.pc \in {"loaded", "failed"}
    BY <1>0 DEF ReaderStates, Failed
  <2> HIDE DEF r
  <2>3. Reads(r)
    BY <2>2 DEF Reads
  <2> QED
    BY <1>1, <2>1, <2>3
<1>6. CASE EndList(q)
  <2> DEFINE r == [reader[q] EXCEPT !.pc = "listed"]
  <2>1. /\ reader' = [reader EXCEPT ![q] = r]
        /\ reader[q].pc = "listing" /\ reader[q].left = {}
    BY <1>6 DEF EndList
  <2>2. /\ r.pc = "listed" /\ r.before = reader[q].before /\ r.got = reader[q].got
        /\ r.target = reader[q].target
    BY <1>0 DEF ReaderStates
  <2> HIDE DEF r
  <2>3. /\ Unraced(r.before) \subseteq Stored /\ Unraced(r.got) \subseteq Stored
        /\ \A run \in Unraced(r.before) : Wanted(r.target, run) => run \in r.got
    BY <2>1, <2>2 DEF ReaderInv, Reads
  <2>4. Reads(r)
    BY <2>2, <2>3 DEF Reads
  <2> QED
    BY <1>1, <2>1, <2>4
<1> QED
  BY <1>2, <1>3, <1>4, <1>5, <1>6 DEF ReaderStep, ReaderMoves

LEMMA ReadingInvariant == Spec => []ReadingInv
<1>1. Init => ReadingInv
  <2> SUFFICES ASSUME Init PROVE ReadingInv
    OBVIOUS
  <2>1. HalfWrittenInv /\ OwnChunks
    BY DEF Init, HalfWrittenInv, OwnChunks
  <2>2. ReaderInv
    BY DEF Init, ReaderInv, Reads
  <2> QED
    BY <2>1, <2>2, StoreInvInit DEF ReadingInv
<1>2. ReadingInv /\ [Next]_vars => ReadingInv'
  <2> SUFFICES ASSUME ReadingInv, [Next]_vars PROVE ReadingInv'
    OBVIOUS
  <2>1. /\ StoreInv /\ HalfWrittenInv /\ OwnChunks /\ ReaderInv /\ TypeInv
        /\ StoreInv' /\ OwnChunks'
    BY StoreInvStep, OwnChunksStep DEF ReadingInv, StoreInv
  <2>2. ASSUME NEW p \in Savers,
               (\E run \in Runs : BeginSave(p, run)) \/ SaverStep(p) \/ Crash(p)
        PROVE  HalfWrittenInv' /\ ReaderInv'
    <3>1. reader' = reader
      BY <2>2 DEF SaverStep, BeginSave, CheckExists, OpenForWrite, WriteChunk, Crash
    <3> QED
      BY <2>1, <2>2, <3>1, HalfWrittenSaver, ReaderInvSaver
  <2>3. ASSUME UNCHANGED <<files, torn, raced, saver>> PROVE HalfWrittenInv'
    BY <2>1, <2>3 DEF HalfWrittenInv, BeingWritten, Saving
  <2>4. ASSUME NEW q \in Readers, ReaderMoves(q)
        PROVE  HalfWrittenInv' /\ ReaderInv'
    <3>1. UNCHANGED <<files, torn, raced, saver>>
      BY <2>4, ReaderEffect
    <3> QED
      BY <2>1, <2>3, <2>4, <3>1, ReaderInvReader
  <2>5. CASE UNCHANGED vars
    <3>1. UNCHANGED <<files, torn, raced, saver>> /\ reader' = reader
      BY <2>5 DEF vars
    <3>2. HalfWrittenInv'
      BY <2>3, <3>1
    <3>3. ReaderInv'
      BY <2>1, <3>1, ReaderInvSaver
    <3> QED
      BY <2>1, <3>2, <3>3 DEF ReadingInv
  <2> QED
    BY <2>1, <2>2, <2>4, <2>5 DEF Next, ReadingInv, ReaderMoves
<1> QED
  BY <1>1, <1>2, PTL DEF Spec

(* A listing that returns names every run of its target that was stored    *)
(* when it began, and only stored runs (list_runs), however many savers    *)
(* write beside it, for the ids no two saves raced for.                    *)
THEOREM ListingsAreComplete == Spec => []ListingIsComplete
<1>1. ReadingInv => ListingIsComplete
  <2> SUFFICES ASSUME ReadingInv, NEW q \in Readers, reader[q].pc = "listed"
               PROVE  /\ {r \in Unraced(reader[q].before) : Wanted(reader[q].target, r)}
                            \subseteq reader[q].got
                      /\ Unraced(reader[q].got) \subseteq Stored
    BY DEF ListingIsComplete
  <2> QED
    BY DEF ReadingInv, ReaderInv, Reads
<1> QED
  BY <1>1, ReadingInvariant, PTL

(* A read fails only over the file of an id that is being written, that a  *)
(* kill cut short, or that two saves raced for (list_runs, load).          *)
THEOREM ReadsFailOnlyBesideAWrite == Spec => ReadFailsOnlyBesideAWrite
<1> DEFINE Disturbed(q) == \E id \in reader[q].left :
                              /\ \A other \in reader[q].left : id <= other
                              /\ id \in torn \union raced \/ BeingWritten(id)
           Step == \A q \in Readers :
                      reader[q].pc # "failed" /\ reader'[q].pc = "failed" => Disturbed(q)
<1>1. ReadingInv /\ [Next]_vars => [Step]_vars
  <2> SUFFICES ASSUME ReadingInv, Next, NEW q \in Readers,
                      reader[q].pc # "failed", reader'[q].pc = "failed"
               PROVE  Disturbed(q)
    OBVIOUS
  <2>0. reader \in [Readers -> ReaderStates] /\ StoreInv
    BY DEF ReadingInv, StoreInv, TypeInv, TypeOK
  <2>1. ASSUME NEW p \in Savers,
               (\E run \in Runs : BeginSave(p, run)) \/ SaverStep(p) \/ Crash(p)
        PROVE  FALSE
    BY <2>1 DEF SaverStep, BeginSave, CheckExists, OpenForWrite, WriteChunk, Crash
  <2>2. PICK o \in Readers : ReaderMoves(o)
    BY <2>1 DEF Next, ReaderMoves
  <2>3. o = q
    BY <2>0, <2>2 DEF ReaderMoves, BeginList, BeginLoad, ReaderStep, ReadNext, ReadLoaded,
                      EndList
  <2>4. ASSUME NEW id \in Ids, ReadNext(q, id)
        PROVE  /\ id \in reader[q].left /\ ~Parses(files[id])
               /\ reader[q].pc = "listing"
               /\ \A other \in reader[q].left : id <= other
    <3>1. ~Parses(files[id])
      BY <2>0, <2>4 DEF ReadNext, ReaderStates
    <3> QED
      BY <2>4, <3>1 DEF ReadNext
  <2>5. ASSUME NEW id \in Ids, ReadLoaded(q, id)
        PROVE  /\ id \in reader[q].left /\ ~Parses(files[id])
               /\ reader[q].pc = "loading"
               /\ \A other \in reader[q].left : id <= other
    <3>1. ~Parses(files[id]) /\ id \in reader[q].left /\ reader[q].pc = "loading"
      BY <2>0, <2>5 DEF ReadLoaded, ReaderStates
    <3>2. \A other \in reader[q].left : other = id
      BY <3>1 DEF ReadingInv, ReaderInv, Reads
    <3>3. id \in Nat
      BY RunAssumption DEF Ids
    <3>4. \A other \in reader[q].left : id <= other
      BY <3>2, <3>3
    <3> QED
      BY <3>1, <3>4
  <2>6. ASSUME NEW target \in Targets \union {None}, BeginList(q, target) PROVE FALSE
    BY <2>0, <2>6 DEF BeginList
  <2>7. ASSUME NEW id \in Ids, BeginLoad(q, id) PROVE FALSE
    BY <2>0, <2>7 DEF BeginLoad
  <2>8. ASSUME EndList(q) PROVE FALSE
    BY <2>0, <2>8 DEF EndList, ReaderStates
  <2>9. PICK id \in Ids : /\ id \in reader[q].left /\ ~Parses(files[id])
                          /\ reader[q].pc \in {"listing", "loading"}
                          /\ \A other \in reader[q].left : id <= other
    <3>1. ReaderStep(q)
      BY <2>2, <2>3, <2>6, <2>7 DEF ReaderMoves
    <3>2. PICK id \in Ids : ReadNext(q, id) \/ ReadLoaded(q, id)
      BY <2>8, <3>1 DEF ReaderStep
    <3>3. CASE ReadNext(q, id)
      BY <2>4, <3>3
    <3>4. CASE ReadLoaded(q, id)
      BY <2>5, <3>4
    <3> QED
      BY <3>2, <3>3, <3>4
  <2>10. files[id] # None
    BY <2>9 DEF ReadingInv, ReaderInv, Reads
  <2>11. id \in torn \union raced \/ BeingWritten(id)
    BY <2>9, <2>10 DEF ReadingInv, HalfWrittenInv
  <2> QED
    BY <2>9, <2>11
<1>2. Spec => []ReadingInv
  BY ReadingInvariant
<1> QED
  BY <1>1, <1>2, PTL DEF Spec, ReadFailsOnlyBesideAWrite
=============================================================================
