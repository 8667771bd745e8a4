---------------------------- MODULE LogRotation ----------------------------
(***************************************************************************)
(* log4j: messages appended to the latest of at most maxLogFiles files, by *)
(* callers that share one ReentrantLock.                                   *)
(*                                                                         *)
(* A file is named by the second in which its name was made.  What a file  *)
(* holds is a sequence of lines, one for each message; its length is that  *)
(* of the messages, which is nothing that log4j limits.  Modification      *)
(* times have the resolution of a second too, as they may have on disk, so *)
(* files written to in the same second tie.                                *)
(***************************************************************************)
EXTENDS Integers, FiniteSets, Sequences, SequencesExt

CONSTANTS
    Callers,
    maxLogFiles,
    maxLogFileSize,
    Sizes,           \* what a message may add to the length of a file
    MaxLines,        \* bound: lines that are logged
    LastSecond       \* bound: when the clock stops

NoOne == "no one"

ASSUME ConstantsAssumption ==
    /\ NoOne \notin Callers
    /\ maxLogFiles \in Nat \ {0} /\ maxLogFileSize \in Nat \ {0}
    /\ Sizes \subseteq Nat \ {0}
    /\ MaxLines \in Nat /\ LastSecond \in Nat

Seconds == 0..LastSecond

VARIABLES
    caller,    \* control state of each caller
    owner,     \* the caller that holds the lock
    threw,     \* callers whose message threw in toString
    exists,    \* names of the log files there are
    modified,  \* lastModified of each name
    lines,     \* what the file of each name holds
    length,    \* the length of the file of each name
    clock,     \* the current second
    count,     \* lines logged so far
    tied,      \* history: the path was once chosen between files that tied
    undeleted  \* history: files that delete() left where they were

fileVars == <<exists, modified, lines, length>>
historyVars == <<tied, undeleted>>
vars == <<caller, owner, threw, fileVars, clock, count, historyVars>>

\* A line is its number, its second and the length of the file it was appended to.
Line == [n : 0..(MaxLines - 1), at : Seconds, from : Nat]

Init ==
    /\ caller = [t \in Callers |-> "idle"]
    /\ owner = NoOne /\ threw = {}
    /\ exists = {}
    /\ modified = [f \in Seconds |-> 0]
    /\ lines = [f \in Seconds |-> <<>>]
    /\ length = [f \in Seconds |-> 0]
    /\ clock = 0 /\ count = 0 /\ tied = FALSE /\ undeleted = {}

-----------------------------------------------------------------------------
(* logFilePath.                                                            *)

newLogFilePath == clock

Oldest == {f \in exists : \A g \in exists : modified[f] <= modified[g]}
Latest == {f \in exists : \A g \in exists : modified[f] >= modified[g]}

\* The oldest and the latest file, each the first of its kind in the order, whichever
\* it is, in which the directory is listed.
Extremes == {p \in Oldest \X Latest : Oldest = Latest => p[1] = p[2]}

Full(f) == length[f] >= maxLogFileSize

\* Mutants of Rotation: one file too many; the latest file goes instead of the oldest.
RotationOneMore(oldest, latest) ==
    IF ~Full(latest) THEN [path |-> latest, delete |-> {}]
    ELSE IF Cardinality(exists) > maxLogFiles THEN [path |-> oldest, delete |-> {oldest}]
    ELSE [path |-> newLogFilePath, delete |-> {}]

RotationLatest(oldest, latest) ==
    IF ~Full(latest) THEN [path |-> latest, delete |-> {}]
    ELSE IF Cardinality(exists) >= maxLogFiles THEN [path |-> latest, delete |-> {latest}]
    ELSE [path |-> newLogFilePath, delete |-> {}]

\* Mutant of Rotation: the oldest file is used again without being deleted.
RotationKeepsOldest(oldest, latest) ==
    IF ~Full(latest) THEN [path |-> latest, delete |-> {}]
    ELSE IF Cardinality(exists) >= maxLogFiles THEN [path |-> oldest, delete |-> {}]
    ELSE [path |-> newLogFilePath, delete |-> {}]

\* Where the next message goes, and the file that is deleted first.
Rotation(oldest, latest) ==
    IF ~Full(latest) THEN [path |-> latest, delete |-> {}]
    ELSE IF Cardinality(exists) >= maxLogFiles THEN [path |-> oldest, delete |-> {oldest}]
    ELSE [path |-> newLogFilePath, delete |-> {}]

Targets ==
    IF exists = {} THEN {[path |-> newLogFilePath, delete |-> {}]}
    ELSE {Rotation(p[1], p[2]) : p \in Extremes}

\* Which file it is depends on the order in which the directory is listed.
Tie == \E x, y \in Targets : x # y

-----------------------------------------------------------------------------
(* info, clear and logs.                                                   *)

Goes(t, from, to) ==
    /\ caller[t] = from
    /\ caller' = [caller EXCEPT ![t] = to]

Call(t) ==
    /\ Goes(t, "idle", "lock")
    /\ UNCHANGED <<owner, threw, fileVars, clock, count, historyVars>>

Lock(t) ==
    /\ Goes(t, "lock", "locked")
    /\ owner \in {NoOne, t}
    /\ owner' = t
    /\ UNCHANGED <<threw, fileVars, clock, count, historyVars>>

\* message.toString() throws before the try block: the lock stays held.
ToStringThrows(t) ==
    /\ Goes(t, "locked", "idle")
    /\ threw' = threw \cup {t}
    /\ UNCHANGED <<owner, fileVars, clock, count, historyVars>>

\* What is left of the file that is appended to, and how long it is, when the files in
\* gone have been deleted.
Kept(path, gone) == IF path \in gone THEN <<>> ELSE lines[path]
KeptLength(path, gone) == IF path \in gone THEN 0 ELSE length[path]

\* Mutant of AppendLine: the writer was opened before the file was deleted.
AppendLineToDeleted(t, path, gone, size) ==
    /\ Goes(t, "locked", "unlock")
    /\ count < MaxLines
    /\ count' = count + 1
    /\ exists' = (exists \cup {path}) \ gone
    /\ lines' = [lines EXCEPT ![path] =
                    Append(@, [n |-> count, at |-> clock, from |-> length[path]])]
    /\ length' = [length EXCEPT ![path] = @ + size]
    /\ modified' = [modified EXCEPT ![path] = clock]
    /\ UNCHANGED <<owner, threw, clock>>

\* A message is appended, however long it is and the file has become.
AppendLine(t, path, gone, size) ==
    /\ Goes(t, "locked", "unlock")
    /\ count < MaxLines
    /\ count' = count + 1
    /\ exists' = exists \cup {path}
    /\ lines' = [lines EXCEPT ![path] =
                    Append(Kept(path, gone),
                           [n |-> count, at |-> clock, from |-> KeptLength(path, gone)])]
    /\ length' = [length EXCEPT ![path] = KeptLength(path, gone) + size]
    /\ modified' = [modified EXCEPT ![path] = clock]
    /\ UNCHANGED <<owner, threw, clock>>

\* A message of line feeds alone, which split leaves nothing of: the file is opened, and
\* made if there is none.
AppendNothing(t, path, gone) ==
    /\ Goes(t, "locked", "unlock")
    /\ exists' = exists \cup {path}
    /\ lines' = [lines EXCEPT ![path] = Kept(path, gone)]
    /\ length' = [length EXCEPT ![path] = KeptLength(path, gone)]
    /\ modified' = [modified EXCEPT ![path] = IF path \in exists \ gone THEN @ ELSE clock]
    /\ UNCHANGED <<owner, threw, clock, count>>

\* Whether delete() did what it was told is not looked at (line 267).
Write(t) ==
    \E target \in Targets : \E gone \in {target.delete, {}} :
        /\ \/ \E size \in Sizes : AppendLine(t, target.path, gone, size)
           \/ AppendNothing(t, target.path, gone)
        /\ undeleted' = (undeleted \cup target.delete) \ gone
        /\ tied' = (tied \/ Tie)

\* An exception of the file system after the path was chosen; and what clear and logs
\* do: delete() leaves a directory with files alone, and logs only reads.
WriteNothing(t) ==
    /\ Goes(t, "locked", "unlock")
    /\ \/ UNCHANGED <<fileVars, historyVars>>
       \/ \E target \in Targets :
             /\ target.delete # {}
             /\ exists' = exists \ target.delete
             /\ lines' = [lines EXCEPT ![target.path] = <<>>]
             /\ length' = [length EXCEPT ![target.path] = 0]
             /\ undeleted' = undeleted \ target.delete
             /\ tied' = (tied \/ Tie)
             /\ UNCHANGED modified
    /\ UNCHANGED <<owner, threw, clock, count>>

\* Mutant of Unlock: forgotten.
UnlockForgotten(t) ==
    /\ Goes(t, "unlock", "idle")
    /\ UNCHANGED <<owner, threw, fileVars, clock, count, historyVars>>

\* A caller that still holds the lock from a call that threw keeps it.
Unlock(t) ==
    /\ Goes(t, "unlock", "idle")
    /\ owner' = IF t \in threw THEN t ELSE NoOne
    /\ UNCHANGED <<threw, fileVars, clock, count, historyVars>>

Tick ==
    /\ clock < LastSecond
    /\ clock' = clock + 1
    /\ UNCHANGED <<caller, owner, threw, fileVars, count, historyVars>>

-----------------------------------------------------------------------------

CallerStep(t) == Lock(t) \/ Write(t) \/ WriteNothing(t) \/ Unlock(t)

Next ==
    \/ \E t \in Callers : Call(t) \/ CallerStep(t) \/ ToStringThrows(t)
    \/ Tick

Spec == Init /\ [][Next]_vars

\* Callers are scheduled.  ReentrantLock is not fair to those who wait for it.
Fairness == \A t \in Callers : WF_vars(CallerStep(t))

FairSpec == Spec /\ Fairness

-----------------------------------------------------------------------------

TypeOK ==
    /\ caller \in [Callers -> {"idle", "lock", "locked", "unlock"}]
    /\ owner \in Callers \cup {NoOne}
    /\ \A t \in Callers : caller[t] \in {"locked", "unlock"} => owner = t
    /\ threw \subseteq Callers
    /\ exists \subseteq Seconds /\ undeleted \subseteq exists
    /\ modified \in [Seconds -> Seconds]
    /\ \A f \in Seconds :
          /\ ToSet(lines[f]) \subseteq Line /\ IsInjective(lines[f])
          /\ length[f] \in Nat
          /\ f \notin exists => lines[f] = <<>> /\ length[f] = 0
    /\ clock \in Seconds /\ count \in 0..MaxLines /\ tied \in BOOLEAN

\* There are never more than maxLogFiles log files, and a message goes to a file that is
\* full already only in the second its name was made in, when newLogFilePath gives the
\* name of the full file again (lines 265-270, 281), or when the file could not be
\* deleted.  So a file passes the limit by its last message only, but for these two.
FilesBounded ==
    /\ Cardinality(exists) <= maxLogFiles
    /\ \A f \in exists : \A line \in ToSet(lines[f]) :
          line.from >= maxLogFileSize => line.at = f \/ f \in undeleted

\* The files in the order of their modification times hold the lines in the order they
\* were logged, which is what logs() relies on, for all the reuse of old names: as long
\* as the path was never chosen between files with equal times, and but for the old lines
\* of a file that was to be deleted and is written to again.
LogsInOrder ==
    /\ \A f \in exists : \A i, j \in DOMAIN lines[f] : i < j => lines[f][i].n < lines[f][j].n
    /\ ~tied =>
          \A f \in exists, g \in exists \ undeleted :
             modified[f] < modified[g] =>
                \A x \in ToSet(lines[f]), y \in ToSet(lines[g]) : x.n < y.n

\* Rotation deletes old lines only: a line that goes is older than every line of the other
\* files, on the same two conditions.
OldLinesGo ==
    [][\A f \in exists : \A x \in ToSet(lines[f]) \ ToSet(lines'[f]) :
          ~tied' =>
             \A g \in exists \ ({f} \cup undeleted) : \A y \in ToSet(lines[g]) : x.n < y.n]_vars

\* Whoever calls info returns, unless the others take the lock for ever, or a message
\* of theirs threw in toString (line 60) and the lock was never given back.
CallsReturn ==
    \A t \in Callers :
        \/ \E u \in Callers \ {t} : []<>(caller[u] = "locked")
        \/ (caller[t] = "lock") ~> (caller[t] = "idle" \/ threw \ {t} # {})

=============================================================================
