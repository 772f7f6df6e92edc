---------------------------- MODULE AutoPermissionFile ----------------------------
(* The state file of auto-permissions (server/opencode/autoPermissions.ts), shared *)
(* by two processes: each writes the list it knows after a toggle, one write after  *)
(* another, and reads what another has written when the file's mtime is not the one *)
(* it saw last. What a flag does to requests is in AutoPermissions.                 *)
EXTENDS Naturals, Sequences, SequencesExt

CONSTANTS
  Processes,
  Directories,
  MaxToggles, \* bound: toggles, each of which is written
  MaxFaults,  \* bound: restarts, and calls that fail
  None

VARIABLES
  on,       \* on[p]: the directories it has enabled
  explicit, \* explicit[p]: those whose source is a toggle in this process
  file,     \* [mtime, list], and by whom: mtime 0 is no file
  seen,     \* lastFileMtimeMs, 0 for null
  pass,     \* pass[p]: reloadInFlight, where it is and what it has
  loaded,   \* the processes whose first pass is over
  writes,   \* persistQueue: the lists to be written
  renamed,  \* those whose first write awaits its stat
  mixed,    \* ghost: a pass and a write, or two writes, overlapped, or a read failed
  failed,   \* ghost: the last write failed
  toggles, faults

memory == <<on, explicit>>
ghosts == <<mixed, failed>>
vars == <<memory, file, seen, pass, loaded, writes, renamed, ghosts, toggles, faults>>

NoPass == [at |-> None, mtime |-> 0, list |-> {}, clean |-> TRUE]

Init ==
  /\ on = [p \in Processes |-> {}] /\ explicit = [p \in Processes |-> {}]
  /\ \/ file = [mtime |-> 0, list |-> {}, by |-> None]
     \/ file = [mtime |-> 1, list |-> Directories, by |-> None]
  /\ seen = [p \in Processes |-> 0] /\ pass = [p \in Processes |-> NoPass]
  /\ loaded = {} /\ writes = [p \in Processes |-> <<>>] /\ renamed = {}
  /\ mixed = {} /\ failed = {} /\ toggles = 0 /\ faults = 0

Fault == faults < MaxFaults /\ faults' = faults + 1
Passing(p) == pass[p].at # None
Over(p) == pass' = [pass EXCEPT ![p] = NoPass] /\ loaded' = loaded \union {p}

-------------------------------------------------------------------------------
(* setEnabled and persist *)

\* Mutant: the file lists what was toggled here.
ListsExplicit(p) == writes' = [writes EXCEPT ![p] = Append(@, on'[p] \intersect explicit'[p])]

\* The list is taken at the call, loaded directories included.
Lists(p) == writes' = [writes EXCEPT ![p] = Append(@, on'[p])]

\* A toggle waits for the first pass only.
SetEnabled(p, d, enabled) ==
  /\ p \in loaded /\ toggles < MaxToggles /\ toggles' = toggles + 1
  /\ on' = [on EXCEPT ![p] = IF enabled THEN @ \union {d} ELSE @ \ {d}]
  /\ explicit' = [explicit EXCEPT ![p] = @ \union {d}]
  /\ Lists(p) /\ pass' = [pass EXCEPT ![p].clean = @ /\ ~Passing(p)]
  /\ UNCHANGED <<file, seen, loaded, renamed, ghosts, faults>>

\* Mutant: writes do not wait for one another.
RenamesAny(p) ==
  /\ p \notin renamed
  /\ \E i \in DOMAIN writes[p] :
       /\ file' = [mtime |-> file.mtime + 1, list |-> writes[p][i], by |-> p]
       /\ writes' = [writes EXCEPT ![p] = <<writes[p][i]>> \o RemoveAt(@, i)]
  /\ renamed' = renamed \union {p} /\ mixed' = mixed \union renamed
  /\ failed' = failed \ {p}
  /\ UNCHANGED <<memory, seen, pass, loaded, toggles, faults>>

\* writeFile and rename: the file is the list, at once.
Renames(p) ==
  /\ p \notin renamed /\ writes[p] # <<>>
  /\ file' = [mtime |-> file.mtime + 1, list |-> Head(writes[p]), by |-> p]
  /\ renamed' = renamed \union {p} /\ mixed' = mixed \union renamed
  /\ failed' = failed \ {p}
  /\ UNCHANGED <<memory, seen, pass, loaded, writes, toggles, faults>>

WriteOver(p) == writes' = [writes EXCEPT ![p] = Tail(@)] /\ renamed' = renamed \ {p}

WriteFails(p) ==
  /\ p \notin renamed /\ writes[p] # <<>> /\ Fault /\ WriteOver(p)
  /\ failed' = failed \union {p}
  /\ UNCHANGED <<memory, file, seen, pass, loaded, mixed, toggles>>

\* stat: the mtime of whatever is there now. It may fail.
Stats(p) ==
  /\ p \in renamed /\ WriteOver(p)
  /\ \/ seen' = [seen EXCEPT ![p] = file.mtime] /\ UNCHANGED faults
     \/ UNCHANGED seen /\ Fault
  /\ UNCHANGED <<memory, file, pass, loaded, ghosts, toggles>>

-------------------------------------------------------------------------------
(* reconcileFromFile *)

\* By the timer, or at a request for permission, one pass at a time: stat.
Looks(p) ==
  /\ ~Passing(p)
  /\ pass' = [pass EXCEPT ![p] = [at |-> "looked", mtime |-> file.mtime, list |-> {},
                                  clean |-> writes[p] = <<>>]]
  /\ UNCHANGED <<memory, file, seen, loaded, writes, renamed, ghosts, toggles, faults>>

\* No file, nothing new, or an mtime that is noted before the file is read.
Compares(p) ==
  /\ pass[p].at = "looked"
  /\ IF pass[p].mtime \in {0, seen[p]}
       THEN Over(p) ELSE pass' = [pass EXCEPT ![p].at = "reading"] /\ UNCHANGED loaded
  /\ seen' = [seen EXCEPT ![p] = pass[p].mtime]
  /\ UNCHANGED <<memory, file, writes, renamed, ghosts, toggles, faults>>

Reads(p) ==
  /\ pass[p].at = "reading" /\ pass' = [pass EXCEPT ![p].at = "read", ![p].list = file.list]
  /\ UNCHANGED <<memory, file, seen, loaded, writes, renamed, ghosts, toggles, faults>>

\* stat or readFile fails: what is loaded stays, and what was not read is not read again.
PassFails(p) ==
  /\ (~Passing(p) /\ p \notin loaded) \/ pass[p].at = "reading"
  /\ Fault /\ Over(p)
  /\ mixed' = IF pass[p].at = "reading" THEN mixed \union {p} ELSE mixed
  /\ UNCHANGED <<memory, file, seen, writes, renamed, failed, toggles>>

\* Mutant: what the file no longer lists stays enabled.
Promotes(p) == on' = [on EXCEPT ![p] = @ \union (pass[p].list \ explicit[p])]

\* Directories toggled here stay as they are; the others follow the list.
Follows(p) == on' = [on EXCEPT ![p] = (@ \intersect explicit[p]) \union (pass[p].list \ explicit[p])]

\* Mutant: the mtime is looked up again after the file was read.
AppliesLater(p) ==
  /\ pass[p].at = "read" /\ Follows(p) /\ Over(p)
  /\ seen' = [seen EXCEPT ![p] = file.mtime]
  /\ mixed' = IF pass[p].clean THEN mixed \ {p} ELSE mixed \union {p}
  /\ UNCHANGED <<explicit, file, writes, renamed, failed, toggles, faults>>

Applies(p) ==
  /\ pass[p].at = "read" /\ Follows(p) /\ Over(p)
  /\ mixed' = IF pass[p].clean THEN mixed \ {p} ELSE mixed \union {p}
  /\ UNCHANGED <<explicit, file, seen, writes, renamed, failed, toggles, faults>>

\* The process restarts, at whatever point it is.
Restart(p) ==
  /\ Fault /\ on' = [on EXCEPT ![p] = {}] /\ explicit' = [explicit EXCEPT ![p] = {}]
  /\ seen' = [seen EXCEPT ![p] = 0] /\ writes' = [writes EXCEPT ![p] = <<>>]
  /\ pass' = [pass EXCEPT ![p] = NoPass] /\ loaded' = loaded \ {p}
  /\ renamed' = renamed \ {p} /\ mixed' = mixed \ {p} /\ failed' = failed \ {p}
  /\ UNCHANGED <<file, toggles>>

Next == \E p \in Processes :
  \/ Renames(p) \/ WriteFails(p) \/ Stats(p) \/ Restart(p)
  \/ Looks(p) \/ Compares(p) \/ Reads(p) \/ PassFails(p) \/ Applies(p)
  \/ \E d \in Directories, enabled \in BOOLEAN : SetEnabled(p, d, enabled)

Spec == Init /\ [][Next]_vars
-------------------------------------------------------------------------------
TypeOK ==
  /\ on \in [Processes -> SUBSET Directories] /\ explicit \in [Processes -> SUBSET Directories]
  /\ file \in [mtime : Nat, list : SUBSET Directories, by : Processes \union {None}]
  /\ seen \in [Processes -> Nat] /\ writes \in [Processes -> Seq(SUBSET Directories)]
  /\ pass \in [Processes -> [at : {None, "looked", "reading", "read"}, mtime : Nat,
                               list : SUBSET Directories, clean : BOOLEAN]]
  /\ renamed \union loaded \union mixed \union failed \subseteq Processes
  /\ toggles \in 0..MaxToggles /\ faults \in 0..MaxFaults

\* Nothing under way, and no mtime that it has not seen: the next pass reads nothing.
Settled(p) == ~Passing(p) /\ writes[p] = <<>> /\ seen[p] = file.mtime /\ file.mtime # 0

\* A process with nothing left to read has every directory that it did not toggle itself
\* as the file has it, whatever toggles, passes and restarts of the two came in which
\* order. Left out: a pass that overlapped a write of its own process, a write between
\* another's rename and stat, and a read that failed, until the next pass that reads.
FollowsFile == \A p \in Processes :
  Settled(p) /\ p \notin mixed =>
    \A d \in Directories \ explicit[p] : d \in on[p] <=> d \in file.list

\* The file that a process wrote last, and was the last to write, has its toggles as they
\* were made last: so a restart finds them, and the other process agrees with them.
TogglesWritten == \A p \in Processes :
  file.by = p /\ writes[p] = <<>> /\ p \notin failed =>
    \A d \in explicit[p] : d \in on[p] <=> d \in file.list

\* Why that is so. What was seen of the file is no newer than the file, and what a pass has
\* read is what the file says as long as it is as old; a pass that began with nothing to
\* write, and saw no toggle, still has nothing to write.
SeenIsOlder == \A p \in Processes :
  /\ seen[p] <= file.mtime /\ pass[p].mtime <= file.mtime
  /\ pass[p].at = "read" /\ pass[p].mtime = file.mtime => pass[p].list = file.list
  /\ pass[p].at # None /\ pass[p].clean => writes[p] = <<>>
  /\ pass[p].at \in {"reading", "read"} /\ pass[p].clean => seen[p] = pass[p].mtime

\* The last list to be written has every toggle made here, and all of them have the other
\* directories as they are if no pass came in between. A list whose stat is awaited is the first, and
\* is in the file unless the other process has written since.
LastListAgrees == \A p \in Processes :
  /\ writes[p] # <<>> =>
       \A d \in explicit[p] : d \in on[p] <=> d \in writes[p][Len(writes[p])]
  /\ p \notin mixed => \A i \in DOMAIN writes[p] :
       \A d \in Directories \ explicit[p] : d \in on[p] <=> d \in writes[p][i]
  /\ p \in renamed => /\ writes[p] # <<>>
                      /\ file.by = p => file.list = Head(writes[p])
                      /\ file.by # p => p \in mixed

\* A process that has seen the file as it is agrees with it while a pass has not yet
\* found otherwise, whatever it has still to write.
SeenAgrees == \A p \in Processes :
  p \notin mixed /\ pass[p].at \in {None, "looked"} /\ seen[p] = file.mtime /\ file.mtime # 0 =>
    \A d \in Directories \ explicit[p] : d \in on[p] <=> d \in file.list

AutoFileInv == FollowsFile /\ TogglesWritten /\ SeenIsOlder /\ LastListAgrees /\ SeenAgrees

\* A directory enabled by another process "must not stay silently stale"
\* (autoPermissions.ts:97). Violated by each of the cases FollowsFile leaves out.
NeverStale == \A p \in Processes :
  Settled(p) => \A d \in Directories \ explicit[p] : d \in on[p] <=> d \in file.list
================================================================================
