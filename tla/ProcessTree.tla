------------------------------ MODULE ProcessTree ------------------------------
(***************************************************************************)
(* KillAllDescendantProcess (ApiTest/OsApi_Win32.cpp): a snapshot of who is *)
(* whose parent, and a walk up from each listed process that terminates it  *)
(* when the walk meets nPid.  Processes start and end meanwhile; a process  *)
(* keeps the id of its parent when that has ended, and the id may be given  *)
(* to another process.                                                      *)
(***************************************************************************)
EXTENDS Naturals

CONSTANTS Pid,       \* ids of processes, but for 0, the idle process, its own parent
          nPid,      \* the process whose descendants are to end
          MaxSpawns, \* bound: the processes started
          None

VARIABLES parent,   \* the id of the parent of each live process
          family,   \* history: the live descendants of nPid, by birth
          used,     \* history: the ids given to a process so far
          reborn,   \* history: an id was given a second time
          spawns,   \* history: the number of processes started
          snapshot, \* mapPidToParPid
          todo,     \* what the loop over listPid has not reached
          it,       \* the listed process whose walk is under way, or none
          nTemp,    \* where the walk is
          phase,    \* "before", "walk", "over"
          doomed,   \* history: the family with an unbroken chain in the snapshot
          spared,   \* history: whom the system did not let be terminated
          stray     \* history: a process outside the family was terminated

system == <<parent, family, used, reborn, spawns>>
walk == <<snapshot, todo, it, nTemp, phase, doomed, spared, stray>>
tree == <<system, walk>>

alive == DOMAIN parent

Init ==
    /\ parent = [p \in {0, nPid} |-> 0]
    /\ family = {} /\ used = {nPid} /\ reborn = FALSE /\ spawns = 0
    /\ snapshot = <<>> /\ todo = {} /\ it = None /\ nTemp = None
    /\ phase = "before"
    /\ doomed = {} /\ spared = {} /\ stray = FALSE

-------------------------------------------------------------------------------
Spawn(p, c) ==
    /\ p \in alive /\ c \in Pid \ alive /\ spawns < MaxSpawns
    /\ parent' = [q \in alive \cup {c} |-> IF q = c THEN p ELSE parent[q]]
    /\ family' = IF p \in family \cup {nPid} THEN family \cup {c} ELSE family
    /\ used' = used \cup {c}
    /\ reborn' = (reborn \/ c \in used)
    /\ spawns' = spawns + 1
    /\ UNCHANGED walk

Remove(p) ==
    /\ parent' = [q \in alive \ {p} |-> parent[q]]
    /\ family' = family \ {p}
    /\ UNCHANGED <<used, reborn, spawns>>

Exit(p) == p \in alive \ {0} /\ Remove(p) /\ UNCHANGED walk

-------------------------------------------------------------------------------
\* The family whose parents up to nPid are all alive: the least set that has the
\* children of nPid and those of each of its members.
Closed(kin) == \A p \in family : parent[p] \in kin \cup {nPid} => p \in kin
Unbroken == {p \in family : \A kin \in SUBSET family : Closed(kin) => p \in kin}

Snapshot ==
    /\ phase = "before" /\ phase' = "walk"
    /\ \/ snapshot' = parent /\ doomed' = Unbroken
       \/ snapshot' = <<>> /\ doomed' = {}     \* it could not be taken
    /\ todo' = DOMAIN snapshot'
    /\ UNCHANGED <<system, it, nTemp, spared, stray>>

NextListed ==
    /\ phase = "walk" /\ it = None
    /\ \/ /\ todo = {} /\ phase' = "over"
          /\ UNCHANGED <<todo, it, nTemp>>
       \/ \E p \in todo : it' = p /\ nTemp' = p /\ todo' = todo \ {p} /\ UNCHANGED phase
    /\ UNCHANGED <<system, snapshot, doomed, spared, stray>>

\* OpenProcess and TerminateProcess, by the id: either may fail.
Terminate ==
    /\ \/ /\ it \in alive \ {0} /\ Remove(it)
          /\ stray' = (stray \/ it \notin family)
          /\ UNCHANGED spared
       \/ /\ spared' = spared \cup ({it} \cap alive)
          /\ UNCHANGED <<system, stray>>
    /\ it' = None /\ nTemp' = None

Follow(to) ==
    /\ nTemp' = to
    /\ UNCHANGED <<system, it, spared, stray>>

GiveUp ==
    /\ it' = None /\ nTemp' = None
    /\ UNCHANGED <<system, spared, stray>>

\* One turn of the inner loop, without the test of the parent's id.
WalkUpThroughIdle ==
    /\ it # None
    /\ CASE nTemp \notin DOMAIN snapshot -> GiveUp
         [] nTemp \in DOMAIN snapshot /\ snapshot[nTemp] = nPid -> Terminate
         [] OTHER -> Follow(snapshot[nTemp])
    /\ UNCHANGED <<snapshot, todo, phase, doomed>>

\* The children of nPid only.
WalkUpOnce ==
    /\ it # None
    /\ IF nTemp \in DOMAIN snapshot /\ snapshot[nTemp] = nPid THEN Terminate ELSE GiveUp
    /\ UNCHANGED <<snapshot, todo, phase, doomed>>

\* One turn of the inner loop.
WalkUp ==
    /\ it # None
    /\ CASE nTemp \notin DOMAIN snapshot -> GiveUp
         [] nTemp \in DOMAIN snapshot /\ snapshot[nTemp] = nPid -> Terminate
         [] nTemp \in DOMAIN snapshot /\ snapshot[nTemp] = 0 -> GiveUp
         [] OTHER -> Follow(snapshot[nTemp])
    /\ UNCHANGED <<snapshot, todo, phase, doomed>>

Kill == Snapshot \/ NextListed \/ WalkUp

Next ==
    \/ \E p \in Pid \cup {0}, c \in Pid : Spawn(p, c)
    \/ \E p \in Pid : Exit(p)
    \/ Kill

Spec == Init /\ [][Next]_tree
FairSpec == Spec /\ WF_tree(Kill)

-------------------------------------------------------------------------------
TypeOK ==
    /\ alive \subseteq Pid \cup {0} /\ parent \in [alive -> Pid \cup {0}]
    /\ family \subseteq alive \cap Pid /\ used \subseteq Pid
    /\ reborn \in BOOLEAN /\ spawns \in 0..MaxSpawns
    /\ DOMAIN snapshot \subseteq Pid \cup {0} /\ snapshot \in [DOMAIN snapshot -> Pid \cup {0}]
    /\ todo \subseteq DOMAIN snapshot /\ it \in DOMAIN snapshot \cup {None}
    /\ nTemp \in Pid \cup {0, None} /\ phase \in {"before", "walk", "over"}
    /\ doomed \subseteq Pid /\ spared \subseteq Pid \cup {0} /\ stray \in BOOLEAN

\* As long as no id has been given a second time, nobody is terminated who is not a
\* descendant of nPid, and when the walk is over every descendant is gone whose
\* parents were alive when the snapshot was taken, but for those the system spared.
KillsTheFamily ==
    ~reborn =>
        /\ ~stray
        /\ phase = "over" => doomed \cap alive \subseteq spared

\* The walk ends, whatever starts and ends meanwhile, unless an id given a second time
\* has made two processes each other's ancestors.
KillEnds == phase = "walk" ~> (phase = "over" \/ reborn)

===============================================================================
