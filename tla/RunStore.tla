------------------------------- MODULE RunStore -------------------------------
(***************************************************************************)
(* JsonlRunStore (src/ecdat/store/repository.py): one file per run in a    *)
(* shared directory, used at once by several `ecdat` processes.  A saver   *)
(* checks that the file does not exist, opens it for writing (which        *)
(* truncates it) and writes the document chunk by chunk at its own offset; *)
(* nothing locks the directory and nothing renames a finished file into    *)
(* place.  A reader lists the directory and reads file after file, or      *)
(* loads one run.  save() is handed any Run: one that was saved before, or *)
(* one whose id another Run has (Run.from_result takes a run_id).          *)
(*                                                                         *)
(* A file's content is the sequence of its chunks, each named for the run  *)
(* it belongs to; a document parses when it is one run's chunks and no     *)
(* more.  Ids are numbers: list_runs reads the paths in sorted order.      *)
(***************************************************************************)
EXTENDS Integers, Sequences

CONSTANTS
    Savers, Readers,   \* the processes
    Runs,              \* the Run documents that may be saved
    IdOf,              \* run -> run_id
    TargetOf,          \* run -> target_id
    SizeOf,            \* run -> its number of chunks
    Killable,          \* the runs whose save may be killed
    None               \* no file, no run, no target filter; a hole in a file

Ids == {IdOf[r] : r \in Runs}
Targets == {TargetOf[r] : r \in Runs}

ASSUME RunAssumption ==
    /\ IdOf \in [Runs -> Nat]
    /\ SizeOf \in [Runs -> Nat \ {0}]
    /\ DOMAIN TargetOf = Runs
    /\ Killable \subseteq Runs
ASSUME NoneAssumption ==
    /\ None \notin Runs /\ None \notin Targets
    /\ None \notin Seq(Runs \union {None})

VARIABLES
    files,    \* id -> None or the content of its file
    torn,     \* the ids a save of which was killed while writing (history)
    raced,    \* the ids two saves found free before either wrote (history)
    saver,    \* process -> [pc, run, written]
    reader    \* process -> [pc, left, target, got, before]

vars == <<files, torn, raced, saver, reader>>

Chunks(run, n) == [i \in 1 .. n |-> run]
Document(run) == Chunks(run, SizeOf[run])
Holds(content, run) == content = Document(run)
Parses(content) == \E run \in Runs : Holds(content, run)
Stored == {run \in Runs : Holds(files[IdOf[run]], run)}

(* A chunk written at offset k; what was never written in between is a     *)
(* hole.                                                                   *)
Put(content, k, run) ==
    [i \in 1 .. (IF k > Len(content) THEN k ELSE Len(content)) |->
        IF i = k THEN run ELSE IF i \in 1 .. Len(content) THEN content[i] ELSE None]

(* A process that is saving nothing. *)
AtRest(pc) == [pc |-> pc, run |-> None, written |-> 0]

Init ==
    /\ files = [id \in Ids |-> None]
    /\ torn = {}
    /\ raced = {}
    /\ saver = [p \in Savers |-> AtRest("idle")]
    /\ reader = [q \in Readers |-> [pc |-> "idle", left |-> {}, target |-> None,
                                    got |-> {}, before |-> {}]]

-----------------------------------------------------------------------------
(* save(), one `ecdat ledger-run` at a time in each process. *)

Saving(p, pc) == saver[p].pc = pc

(* save() is called with a Run. *)
BeginSave(p, run) ==
    /\ saver[p].pc \in {"idle", "saved", "refused"}
    /\ saver' = [saver EXCEPT ![p] = [pc |-> "checking", run |-> run, written |-> 0]]
    /\ UNCHANGED <<files, torn, raced, reader>>

(* The id is raced when another saver has found it free and not written    *)
(* yet.                                                                    *)
NowRaced(p) ==
    IF \E q \in Savers \ {p} :
          Saving(q, "opening") /\ IdOf[saver[q].run] = IdOf[saver[p].run]
      THEN raced \union {IdOf[saver[p].run]} ELSE raced

(* Mutant: the file is opened whether or not it exists. *)
CheckExists_Skips(p) ==
    /\ Saving(p, "checking")
    /\ saver' = [saver EXCEPT ![p].pc = "opening"]
    /\ raced' = NowRaced(p)
    /\ UNCHANGED <<files, torn, reader>>

(* Mutant: an empty file counts as absent. *)
CheckExists_Empty(p) ==
    /\ Saving(p, "checking")
    /\ LET free == files[IdOf[saver[p].run]] \in {None, <<>>}
       IN  /\ saver' = [saver EXCEPT ![p] =
                          IF free THEN [@ EXCEPT !.pc = "opening"] ELSE AtRest("refused")]
           /\ raced' = IF free THEN NowRaced(p) ELSE raced
    /\ UNCHANGED <<files, torn, reader>>

(* path.exists(): ValueError when it does. *)
CheckExists(p) ==
    /\ Saving(p, "checking")
    /\ LET free == files[IdOf[saver[p].run]] = None
       IN  /\ saver' = [saver EXCEPT ![p] =
                          IF free THEN [@ EXCEPT !.pc = "opening"] ELSE AtRest("refused")]
           /\ raced' = IF free THEN NowRaced(p) ELSE raced
    /\ UNCHANGED <<files, torn, reader>>

(* Mutant: a saver waits until no other saver is about to write. *)
OpenForWrite_Waits(p) ==
    /\ Saving(p, "opening")
    /\ \A q \in Savers \ {p} : saver[q].pc \notin {"opening", "writing"}
    /\ files' = [files EXCEPT ![IdOf[saver[p].run]] = <<>>]
    /\ saver' = [saver EXCEPT ![p].pc = "writing"]
    /\ UNCHANGED <<torn, raced, reader>>

(* write_text opens the file: created, or truncated. *)
OpenForWrite(p) ==
    /\ Saving(p, "opening")
    /\ files' = [files EXCEPT ![IdOf[saver[p].run]] = <<>>]
    /\ saver' = [saver EXCEPT ![p].pc = "writing"]
    /\ UNCHANGED <<torn, raced, reader>>

(* Mutant: the save returns after the first chunk. *)
WriteChunk_Early(p) ==
    /\ Saving(p, "writing")
    /\ LET run  == saver[p].run
       IN  /\ files' = [files EXCEPT ![IdOf[run]] = Put(@, 1, run)]
           /\ saver' = [saver EXCEPT ![p].written = 1, ![p].pc = "saved"]
    /\ UNCHANGED <<torn, raced, reader>>

WriteChunk(p) ==
    /\ Saving(p, "writing")
    /\ LET run  == saver[p].run
           next == saver[p].written + 1
       IN  /\ files' = [files EXCEPT ![IdOf[run]] = Put(@, next, run)]
           /\ saver' = [saver EXCEPT ![p] =
                 [pc |-> IF next = SizeOf[run] THEN "saved" ELSE "writing",
                  run |-> run, written |-> next]]
    /\ UNCHANGED <<torn, raced, reader>>

(* The process is killed; what it wrote stays. *)
Crash(p) ==
    /\ saver[p].run \in Killable
    /\ saver[p].pc \in {"checking", "opening", "writing"}
    /\ torn' = IF Saving(p, "writing") THEN torn \union {IdOf[saver[p].run]} ELSE torn
    /\ saver' = [saver EXCEPT ![p] = AtRest("idle")]
    /\ UNCHANGED <<files, raced, reader>>

-----------------------------------------------------------------------------
(* list_runs() and load(). *)

Resting(q) == reader[q].pc \in {"idle", "listed", "failed", "loaded", "nosuch"}

(* The --target-id filter; None lists every target. *)
Wanted(target, run) == target \in {None, TargetOf[run]}

Existing == {id \in Ids : files[id] # None}

BeginList(q, target) ==
    /\ Resting(q)
    /\ reader' = [reader EXCEPT ![q] = [pc |-> "listing", left |-> Existing,
                      target |-> target, got |-> {}, before |-> Stored]]
    /\ UNCHANGED <<files, torn, raced, saver>>

(* json.loads raised: what was read so far is dropped. *)
Failed == [pc |-> "failed", left |-> {}, target |-> None, got |-> {}, before |-> {}]

(* Mutant: stops at the first run of another target. *)
ReadNext_Break(q, id) ==
    /\ reader[q].pc = "listing"
    /\ id \in reader[q].left /\ \A other \in reader[q].left : id <= other
    /\ LET found == {r \in Runs : Holds(files[id], r) /\ Wanted(reader[q].target, r)}
       IN  reader' = [reader EXCEPT ![q].left = IF found = {} THEN {} ELSE @ \ {id},
               ![q].pc = IF Parses(files[id]) THEN "listing" ELSE "failed",
               ![q].got = @ \union found]
    /\ UNCHANGED <<files, torn, raced, saver>>

(* The next path in sorted order: json.loads raises unless it parses; a    *)
(* run of another target is skipped.                                       *)
ReadNext(q, id) ==
    /\ reader[q].pc = "listing"
    /\ id \in reader[q].left /\ \A other \in reader[q].left : id <= other
    /\ LET at    == reader[q]
           found == {r \in Runs : Holds(files[id], r) /\ Wanted(at.target, r)}
       IN  reader' = [reader EXCEPT ![q] =
              IF Parses(files[id])
                THEN [at EXCEPT !.left = at.left \ {id}, !.got = at.got \union found]
                ELSE Failed]
    /\ UNCHANGED <<files, torn, raced, saver>>

EndList(q) ==
    /\ reader[q].pc = "listing" /\ reader[q].left = {}
    /\ reader' = [reader EXCEPT ![q].pc = "listed"]
    /\ UNCHANGED <<files, torn, raced, saver>>

(* load(): NoSuchRunError when the path does not exist, then the read. *)
BeginLoad(q, id) ==
    /\ Resting(q)
    /\ reader' = [reader EXCEPT ![q] =
          [pc |-> IF files[id] = None THEN "nosuch" ELSE "loading",
           left |-> IF files[id] = None THEN {} ELSE {id}, target |-> None, got |-> {}, before |-> {}]]
    /\ UNCHANGED <<files, torn, raced, saver>>

ReadLoaded(q, id) ==
    /\ reader[q].pc = "loading" /\ id \in reader[q].left
    /\ reader' = [reader EXCEPT ![q] =
          IF Parses(files[id])
            THEN [@ EXCEPT !.pc = "loaded", !.left = {},
                           !.got = {r \in Runs : Holds(files[id], r)}]
            ELSE Failed]
    /\ UNCHANGED <<files, torn, raced, saver>>

-----------------------------------------------------------------------------
SaverStep(p) == CheckExists(p) \/ OpenForWrite(p) \/ WriteChunk(p)

ReaderStep(q) ==
    \/ \E id \in Ids : ReadNext(q, id) \/ ReadLoaded(q, id)
    \/ EndList(q)

Next ==
    \/ \E p \in Savers : \/ \E run \in Runs : BeginSave(p, run)
                         \/ SaverStep(p)
                         \/ Crash(p)
    \/ \E q \in Readers : \/ \E target \in Targets \union {None} : BeginList(q, target)
                          \/ \E id \in Ids : BeginLoad(q, id)
                          \/ ReaderStep(q)

Spec == Init /\ [][Next]_vars

(* A process that runs is scheduled: the steps of a started call are taken *)
(* as long as they can be.  Starting a call is never owed.                 *)
Fairness ==
    /\ \A p \in Savers : WF_vars(SaverStep(p))
    /\ \A q \in Readers : WF_vars(ReaderStep(q))

FairSpec == Spec /\ Fairness

-----------------------------------------------------------------------------
(* Properties. *)

SaverStates ==
    [pc : {"idle", "checking", "opening", "writing", "saved", "refused"},
     run : Runs \union {None}, written : Nat]
ReaderStates ==
    [pc : {"idle", "listing", "listed", "failed", "loading", "loaded", "nosuch"},
     left : SUBSET Ids, target : Targets \union {None},
     got : SUBSET Runs, before : SUBSET Runs]

(* Every variable has its type. *)
TypeOK ==
    /\ files \in [Ids -> Seq(Runs \union {None}) \union {None}]
    /\ torn \subseteq Ids /\ raced \subseteq Ids
    /\ saver \in [Savers -> SaverStates]
    /\ reader \in [Readers -> ReaderStates]

(* "Append-only; never an overwrite of an old one": a file that exists,    *)
(* whole or cut short by a kill, is never truncated or written by another  *)
(* save than the one that made it, whoever saves under its id again,       *)
(* unless two saves tested the id before either of them made the file.     *)
NeverOverwritten ==
    [][\A id \in Ids \ raced : files[id] # None =>
          \A i \in DOMAIN files[id] :
              i \in DOMAIN files'[id] /\ files'[id][i] = files[id][i]]_vars

(* A save that returned is durable: its document is in the directory,      *)
(* whoever else was saving or crashing at the time, unless it raced with   *)
(* another save of its id.                                                 *)
SavedIsStored ==
    \A p \in Savers : Saving(p, "saved") /\ IdOf[saver[p].run] \notin raced
        => saver[p].run \in Stored

Unraced(runs) == {r \in runs : IdOf[r] \notin raced}

(* A listing that returns is complete: it names every run of its target    *)
(* that was stored before it began, and no run that is not stored, for the *)
(* ids no two saves raced for.                                             *)
ListingIsComplete ==
    \A q \in Readers : reader[q].pc = "listed" =>
        /\ {r \in Unraced(reader[q].before) : Wanted(reader[q].target, r)}
              \subseteq reader[q].got
        /\ Unraced(reader[q].got) \subseteq Stored

BeingWritten(id) == \E p \in Savers : Saving(p, "writing") /\ IdOf[saver[p].run] = id

(* A read fails only over a document that is being written at that moment, *)
(* that a killed save left half written, or that two saves raced for.      *)
ReadFailsOnlyBesideAWrite ==
    [][\A q \in Readers : reader[q].pc # "failed" /\ reader'[q].pc = "failed" =>
          \E id \in reader[q].left :
              /\ \A other \in reader[q].left : id <= other
              /\ id \in torn \union raced \/ BeingWritten(id)]_vars

(* Every save that is started ends, saved or refused, and every read ends,  *)
(* whatever the other processes do.                                        *)
SavesAndReadsEnd ==
    /\ \A p \in Savers :
          saver[p].pc \in {"checking", "opening", "writing"}
              ~> saver[p].pc \in {"saved", "refused", "idle"}
    /\ \A q \in Readers : ~Resting(q) ~> Resting(q)

(* The store implements the append-only document contract: the stored runs *)
(* are those whose file holds their whole document, the raced ids aside.   *)
Contract == INSTANCE AppendOnlyStore WITH stored <- Unraced(Stored)
ImplementsContract == Contract!Spec
=============================================================================
