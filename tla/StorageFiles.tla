---------------------------- MODULE StorageFiles ----------------------------
(***************************************************************************)
(* Files of the local storage (storage_file_utilities.cpp): the main thread *)
(* hands the contents of files to a thread that writes them one after the  *)
(* other (WriteManager), through calls of the file system that a crash may *)
(* come between.  A file has three names, base + 's' for a content that    *)
(* was put in place at once, base + '0' and base + '1' for plain copies,   *)
(* left by earlier versions or written where 's' cannot be.                *)
(*                                                                         *)
(* A content is the number of the write it belongs to.                     *)
(***************************************************************************)
EXTENDS Integers, Sequences, SequencesExt

CONSTANTS
    Bases,      \* the files
    Legacy,     \* those that an earlier version has left as plain copies
    MaxContent, \* bound: contents of each file
    MaxFaults   \* bound: calls of the file system that fail, and crashes

ASSUME StorageAssumption ==
    /\ Bases # {}
    /\ Legacy \subseteq Bases
    /\ MaxContent \in Nat \ {0}
    /\ MaxFaults \in Nat

NoFile == 0
Torn == -1
Whole(content) == content > 0

VARIABLES
    disk,      \* base -> its files s, zero and one
    posted,    \* calls on their way to the thread of the manager
    scheduled, \* _scheduled, the entries to be written
    writing,   \* what writeNow() does next, with which entry, for whom
    waiting,   \* the files whose writing the main thread waits for
    last,      \* base -> the content that the program has written last
    faults,    \* how many of MaxFaults have happened
    lost       \* the files whose last content is given up: not written, or
               \* not where it is read

vars == <<disk, posted, scheduled, writing, waiting, last, faults, lost>>

-----------------------------------------------------------------------------
(* Reading *)

\* ReadFile(): the files to try, in their order.
ToTry(d) ==
    IF d.s # NoFile THEN <<"s">>
    ELSE IF d.one = NoFile THEN <<"zero">>
    ELSE IF d.zero = NoFile THEN <<"one">>
    ELSE IF d.oneIsYounger THEN <<"one", "zero">>
    ELSE <<"zero", "one">>

\* The first of them with a signature that matches, if any.
Matching(d) == SelectInSeq(ToTry(d), LAMBDA f : Whole(d[f]))

\* The content that is read.
Readable(d) == IF Matching(d) = 0 THEN NoFile ELSE d[ToTry(d)[Matching(d)]]

\* The copy that is not read is removed; if it cannot be, nothing changes.
OnlyRead(d) ==
    [f \in DOMAIN d |-> IF f \in {"zero", "one"} \ {ToTry(d)[Matching(d)]}
                        THEN NoFile ELSE d[f]]

ReadFile(base) ==
    /\ waiting = {}
    /\ Len(ToTry(disk[base])) = 2
    /\ Matching(disk[base]) # 0
    /\ disk' = [disk EXCEPT ![base] = OnlyRead(@)]
    /\ UNCHANGED <<posted, scheduled, writing, waiting, last, faults, lost>>

-----------------------------------------------------------------------------
(* The main thread *)

\* The next content of a file is handed to the manager.
Hand(base, call) ==
    /\ waiting = {}
    /\ last[base] < MaxContent
    /\ last' = [last EXCEPT ![base] = @ + 1]
    /\ lost' = lost \ {base}
    /\ posted' = Append(posted, [call |-> call, base |-> base, content |-> last'[base]])
    /\ UNCHANGED <<disk, scheduled, writing, faults>>

\* FileWriteDescriptor::finish() with AsyncWriteManager::write()
Write(base) ==
    /\ Hand(base, "write")
    /\ UNCHANGED waiting

\* FileWriteDescriptor::finish() with AsyncWriteManager::writeSync()
WriteSync(base) ==
    /\ Hand(base, "writeSync")
    /\ waiting' = {base}

\* Sync() and Finish(): AsyncWriteManager::sync(), which returns at once when
\* there is nothing to write.
Sync ==
    /\ waiting = {}
    /\ posted \o scheduled # <<>> \/ writing.step # "none"
    /\ posted' = Append(posted, [call |-> "writeSyncAll"])
    /\ waiting' = Bases
    /\ UNCHANGED <<disk, scheduled, writing, last, faults, lost>>

-----------------------------------------------------------------------------
(* The thread of the manager: its queue *)

Nothing == [step |-> "none"]

Ready(call) ==
    /\ writing = Nothing
    /\ posted # <<>>
    /\ Head(posted).call = call

\* Mutant: the content that is scheduled already stays.
ScheduledFirst(entries, base, content) ==
    IF \E i \in DOMAIN entries : entries[i].base = base
    THEN entries
    ELSE Append(entries, [base |-> base, content |-> content])

\* WriteManager::write(): takes the place of the content that is scheduled.
Scheduled(entries, base, content) ==
    LET entry == [base |-> base, content |-> content]
    IN IF \E i \in DOMAIN entries : entries[i].base = base
       THEN [i \in DOMAIN entries |->
                IF entries[i].base = base THEN entry ELSE entries[i]]
       ELSE Append(entries, entry)

\* scheduleWrite() posts one more call.
ManagerWrite ==
    /\ Ready("write")
    /\ scheduled' = Scheduled(scheduled, Head(posted).base, Head(posted).content)
    /\ posted' = Append(Tail(posted), [call |-> "writeScheduled"])
    /\ UNCHANGED <<disk, writing, waiting, last, faults, lost>>

\* Mutant: what is scheduled is written after what is written at once.
NotUnscheduled(entries, base) == entries

\* WriteManager::writeSync() drops the content that is scheduled.
Unscheduled(entries, base) ==
    RemoveFirstMatch(entries, LAMBDA e : e.base = base)

Begin(entry, call) ==
    [step |-> "save", base |-> entry.base, content |-> entry.content, call |-> call]

ManagerWriteSync ==
    /\ Ready("writeSync")
    /\ scheduled' = Unscheduled(scheduled, Head(posted).base)
    /\ writing' = Begin(Head(posted), "writeSync")
    /\ posted' = Tail(posted)
    /\ UNCHANGED <<disk, waiting, last, faults, lost>>

\* Mutant: Sync() returns when the last entry is taken.
WriteOneAndReturn(call) ==
    IF scheduled # <<>>
    THEN /\ writing' = Begin(Head(scheduled), call)
         /\ scheduled' = Tail(scheduled)
         /\ waiting' = IF call = "writeSyncAll" /\ Len(scheduled) = 1
                       THEN {} ELSE waiting
    ELSE /\ writing' = Nothing
         /\ waiting' = IF call = "writeSyncAll" THEN {} ELSE waiting
         /\ UNCHANGED scheduled

\* writeOneScheduledNow() in writeScheduled() and in the loop of
\* writeSyncAll(); when nothing is left Sync() returns.
WriteOne(call) ==
    IF scheduled # <<>>
    THEN /\ writing' = Begin(Head(scheduled), call)
         /\ scheduled' = Tail(scheduled)
         /\ UNCHANGED waiting
    ELSE /\ writing' = Nothing
         /\ waiting' = IF call = "writeSyncAll" THEN {} ELSE waiting
         /\ UNCHANGED scheduled

ManagerWriteOne(call) ==
    /\ Ready(call)
    /\ WriteOne(call)
    /\ posted' = Tail(posted)
    /\ UNCHANGED <<disk, last, faults, lost>>

\* writeNow() returns: writeScheduled() posts one more call if anything is
\* left, writeSyncAll() goes on with it, and writeSync() lets the main thread
\* go.
Written ==
    CASE writing.call = "writeScheduled" ->
            /\ posted' = IF scheduled # <<>>
                         THEN Append(posted, [call |-> "writeScheduled"])
                         ELSE posted
            /\ writing' = Nothing
            /\ UNCHANGED <<scheduled, waiting>>
      [] writing.call = "writeSyncAll" ->
            /\ WriteOne("writeSyncAll")
            /\ UNCHANGED posted
      [] writing.call = "writeSync" ->
            /\ writing' = Nothing
            /\ waiting' = {}
            /\ UNCHANGED <<posted, scheduled>>

-----------------------------------------------------------------------------
(* The thread of the manager: writeNow(), call by call of the file system *)

\* A call works or fails.
Outcome(works) ==
    /\ works \/ faults < MaxFaults
    /\ faults' = IF works THEN faults ELSE faults + 1

Goes(step) ==
    /\ writing' = [writing EXCEPT !.step = step]
    /\ UNCHANGED <<posted, scheduled, waiting>>

At(step) == writing.step = step

Files == disk[writing.base]

Put(d) == disk' = [disk EXCEPT ![writing.base] = d]

\* QSaveFile: written under another name, put in place by commit().
Save ==
    /\ At("save")
    /\ \E works \in BOOLEAN :
        /\ Outcome(works)
        /\ IF works
           THEN /\ Put([Files EXCEPT !.s = writing.content])
                /\ Goes("removeSimple")
           ELSE /\ UNCHANGED disk
                /\ Goes("open")
    /\ UNCHANGED <<last, lost>>

\* QFile::remove() leaves d of the files, or all of them as they are: nobody
\* looks whether it works.
RemoveFile(works, d) ==
    /\ Outcome(works)
    /\ Put(IF works THEN d ELSE Files)

RemoveSimple ==
    /\ At("removeSimple")
    /\ \E works \in BOOLEAN : RemoveFile(works, [Files EXCEPT !.zero = NoFile])
    /\ Goes("removeBackup")
    /\ UNCHANGED <<last, lost>>

RemoveBackup ==
    /\ At("removeBackup")
    /\ \E works \in BOOLEAN : RemoveFile(works, [Files EXCEPT !.one = NoFile])
    /\ Written
    /\ UNCHANGED <<last, lost>>

\* The content cannot be written, or cannot be put where it is read.
GivenUp == IF writing.content = last[writing.base] THEN lost \cup {writing.base}
                                                   ELSE lost

\* A plain copy is opened, which empties it; without it the content is given
\* up.
OpenPlain ==
    /\ At("open")
    /\ \E works \in BOOLEAN :
        /\ Outcome(works)
        /\ IF works
           THEN /\ Put([Files EXCEPT !.zero = Torn, !.oneIsYounger = FALSE])
                /\ Goes("fill")
                /\ UNCHANGED lost
           ELSE /\ lost' = GivenUp
                /\ Written
                /\ UNCHANGED disk
    /\ UNCHANGED last

\* Nobody looks whether all of it could be written, nor whether the file has
\* been removed by a reader.
FillPlain ==
    /\ At("fill")
    /\ \E works \in BOOLEAN :
        /\ Outcome(works)
        /\ LET whole == works /\ Files.zero # NoFile
           IN /\ Put(IF whole THEN [Files EXCEPT !.zero = writing.content] ELSE Files)
              /\ lost' = IF whole THEN lost ELSE GivenUp
    /\ Goes("clearBackup")
    /\ UNCHANGED last

ClearBackup ==
    /\ At("clearBackup")
    /\ \E works \in BOOLEAN : RemoveFile(works, [Files EXCEPT !.one = NoFile])
    /\ Goes("rename")
    /\ UNCHANGED <<last, lost>>

\* RenameWithOverwrite(), which fails for a file that is not there.
Rename ==
    /\ At("rename")
    /\ \E works \in BOOLEAN :
        /\ IF Files.zero = NoFile THEN ~works /\ UNCHANGED faults
                                  ELSE Outcome(works)
        /\ IF works
           THEN /\ Put([Files EXCEPT !.s = Files.zero, !.zero = NoFile])
                /\ Written
           ELSE /\ UNCHANGED disk
                /\ Goes("removeSafe")
    /\ UNCHANGED <<last, lost>>

\* A file 's' that can be neither replaced nor removed stays in front of the
\* plain copy: the next reader finds an older content, and nobody knows.
RemoveSafe ==
    /\ At("removeSafe")
    /\ \E works \in BOOLEAN :
        /\ RemoveFile(works, [Files EXCEPT !.s = NoFile])
        /\ lost' = IF works \/ Files.s = NoFile THEN lost ELSE GivenUp
    /\ Written
    /\ UNCHANGED last

-----------------------------------------------------------------------------
\* The program stops anywhere and starts anew from what it can read.
Crash ==
    /\ faults < MaxFaults
    /\ faults' = faults + 1
    /\ posted' = <<>>
    /\ scheduled' = <<>>
    /\ writing' = Nothing
    /\ waiting' = {}
    /\ lost' = {base \in Bases : Readable(disk[base]) # last[base]}
    /\ UNCHANGED <<disk, last>>

\* An earlier version wrote '0' and '1' in turn.
Left(base) ==
    [s : {IF base \in Legacy THEN NoFile ELSE 1},
     zero : IF base \in Legacy THEN {NoFile, Torn, 1} ELSE {NoFile},
     one : IF base \in Legacy THEN {NoFile, Torn, 1} ELSE {NoFile},
     oneIsYounger : IF base \in Legacy THEN BOOLEAN ELSE {FALSE}]

Init ==
    /\ disk \in {d \in [Bases -> UNION {Left(base) : base \in Bases}] :
                    \A base \in Bases :
                        d[base] \in Left(base) /\ Readable(d[base]) = 1}
    /\ posted = <<>>
    /\ scheduled = <<>>
    /\ writing = Nothing
    /\ waiting = {}
    /\ last = [base \in Bases |-> 1]
    /\ faults = 0
    /\ lost = {}

WriteNow ==
    \/ Save \/ RemoveSimple \/ RemoveBackup
    \/ OpenPlain \/ FillPlain \/ ClearBackup \/ Rename \/ RemoveSafe

Manager ==
    \/ ManagerWrite
    \/ ManagerWriteSync
    \/ ManagerWriteOne("writeScheduled")
    \/ ManagerWriteOne("writeSyncAll")
    \/ WriteNow

Next ==
    \/ \E base \in Bases : ReadFile(base) \/ Write(base) \/ WriteSync(base)
    \/ Sync
    \/ Manager
    \/ Crash

Spec == Init /\ [][Next]_vars

\* The thread of the manager goes on.
FairSpec == Spec /\ WF_vars(Manager)

-----------------------------------------------------------------------------
(* Properties *)

\* A torn plain copy is about to take the place of the file, or could not and
\* is what is left of it.
TornInPlace(base) ==
    /\ writing.step \in {"rename", "removeSafe"}
    /\ writing.base = base
    /\ ~Whole(disk[base].zero)

\* Whatever step the manager or a reader takes, and wherever the program
\* stops, a file with a whole 's' can be read, and never with an older content
\* than before; but for a disk that is full, which writeNow() does not see.
ContentGoesForward ==
    [][\A base \in Bases :
        Whole(disk[base].s) /\ ~TornInPlace(base)
            => Readable(disk'[base]) >= Readable(disk[base])]_vars

\* The same without this condition, and for files that have plain copies only.
\* False in the code: a plain copy is emptied before it is written, be it the
\* only one or not, and takes the place of the file even if it is torn.
ContentIsKept ==
    [][\A base \in Bases : Readable(disk'[base]) >= Readable(disk[base])]_vars

\* When the main thread has waited for the writing of a file its last content
\* can be read (writeSync(), writeSyncAll()), unless it was given up: a plain
\* copy could not be opened or filled, or lies behind an 's' that could be
\* neither replaced nor removed.
SyncMeansWritten ==
    [][\A base \in waiting \ waiting' :
        base \in lost' \/ Readable(disk'[base]) = last'[base]]_vars

\* The last content of each file gets to where it is read some time, unless it
\* is given up in one of these ways or the program stops before, and no earlier
\* one replaces it.
LastIsWritten ==
    <>[](\A base \in Bases :
            base \in lost \/ Readable(disk[base]) = last[base])

\* A plain copy with all of the last content is what is read after the wait.
\* False in the code: QFile::remove(safe) may fail like the commit() and the
\* renaming before it (storage_file_utilities.cpp:131), and an older 's' stays
\* in front of the copy.
CopyIsRead ==
    [][WriteNow => \A base \in waiting \ waiting' :
        disk'[base].zero = last'[base] => Readable(disk'[base]) = last'[base]]_vars

=============================================================================
