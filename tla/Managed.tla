------------------------------ MODULE Managed ------------------------------
(***************************************************************************)
(* The settings GHydra borrows from the user besides the system proxy: the *)
(* url.* keys of the global git configuration (gitcfg.go, git.go) and a    *)
(* block in ~/.ssh/config (sshcfg.go, ssh.go).  enable writes them and     *)
(* keeps what was there, in the table managed_snapshot and, for ssh, in a  *)
(* backup file beside the database; disable and off give it back.  The     *)
(* command line and the handlers of the API are separate agents with no    *)
(* lock between them, and each of their steps is a process (git config) or *)
(* a file or database write of its own, so an agent may die, or one of its *)
(* steps fail, anywhere.                                                   *)
(***************************************************************************)
EXTENDS Naturals, Sequences, SequencesExt, FiniteSets

CONSTANTS
    Agents,     \* "cli": commands, "api": a handler of the running serve
    Options,    \* gitcfg.Options: records [cdn, push (push_via_b), ssh (ssh_rewrite)]
    UserGits,   \* global git configurations a user may start from
    UserFiles,  \* ssh configurations a user may start from (NoFile for none)
    GithubTexts,\* the texts among them with a Host github.com of their own
    None,       \* no snapshot, no backup, no file
    MaxCmds,    \* bound: commands and API calls
    Faults      \* the faults that may happen, of FaultKinds

FaultKinds == {"crash", "fail", "overlap", "edit"}

Texts == {"", "edited"} \cup {f.text : f \in UserFiles \ {None}}
Files == [block : {"none", "top", "alias", "broken"}, text : Texts]

ASSUME ManagedAssumption ==
    /\ Agents \subseteq {"cli", "api"} /\ Agents # {}
    /\ MaxCmds \in Nat /\ Faults \subseteq FaultKinds
    /\ None \notin Files /\ UserFiles \subseteq Files \cup {None}

VARIABLES
    git,     \* url.* keys of the global git configuration: name -> its values, in order
    file,    \* ~/.ssh/config
    bak,     \* ssh_config.ghydra.bak
    snap,    \* table managed_snapshot
    ag,      \* agent -> what it is doing
    cmds,    \* commands begun
    mine,    \* history: the settings as the user has them without GHydra
    back,    \* history: the settings a disable or off reported given back, until
             \* they are borrowed again
    seen     \* history: what happened of "overlap"; "force", an enable --force
             \* that takes keys away; "over", one over keys or a snapshot of
             \* GHydra's own; "half", one that ended without its snapshot; "kept",
             \* a key git would not unset; "again", an ssh enable over our block;
             \* "edit", an edit of the ssh file while it is borrowed

vars == <<git, file, bak, snap, ag, cmds, mine, back, seen>>

-----------------------------------------------------------------------------
(* Keys.  A name is <<base, source, key>>: the base is a CDN or, for the keys
   that keep a push direct, the source itself. *)

Sources == {"https", "ssh"}
CDNs    == {o.cdn : o \in Options}
Fetch(c, s) == <<c, s, "insteadof">>
Push(s)     == <<"", s, "pushinsteadof">>
Other       == <<"other", "", "insteadof">>
Names  == {Fetch(c, s) : c \in CDNs, s \in Sources} \cup {Push(s) : s \in Sources} \cup {Other}
Values == Sources \cup {"work"}     \* "work": a rewrite that has nothing to do with github.com
Configs   == [Names -> Seq(Values)]
Snapshots == [written : SUBSET (Names \ {Other}), prior : Configs]

ASSUME ConfigAssumption == UserGits \subseteq Configs /\ None \notin Snapshots

OursOf(n) == n[2]      \* the one value GHydra ever writes under a name

\* The names GHydra wants among those of C, in the order in which they are
\* written.  With --push-via-b every push key is left out.
DesiredFor(o, s, C) ==
    (IF Fetch(o.cdn, s) \in C THEN <<Fetch(o.cdn, s)>> ELSE <<>>)
    \o (IF Push(s) \in C /\ ~o.push THEN <<Push(s)>> ELSE <<>>)

Desired(o, C) == DesiredFor(o, "https", C) \o (IF o.ssh THEN DesiredFor(o, "ssh", C) ELSE <<>>)

DesiredNames(o) == ToSet(Desired(o, Names))

\* Bug variant: a name counts as ours if our value is among its values.
OccupiedByOthers(c, o) == {n \in DesiredNames(o) : c[n] # <<>> /\ OursOf(n) \notin ToSet(c[n])}

\* Same name, but not just our value (Plan: ours && len(vals) == 1 goes on).
Occupied(c, o) == {n \in DesiredNames(o) : c[n] \notin {<<>>, <<OursOf(n)>>}}

\* A name that is not ours and rewrites github.com.
Rewriters(c, o) == {n \in Names \ DesiredNames(o) : ToSet(c[n]) \cap Sources # {}}

Conflicts(c, o) == Occupied(c, o) \cup Rewriters(c, o)

\* What enable adds: the new names, then those it has emptied before.
Additions(c, o) ==
    Desired(o, {n \in Names : c[n] = <<>>}) \o Desired(o, Occupied(c, o))

NoKeys == [n \in Names |-> <<>>]

\* Bug variant: the rewrites of others are taken away and not remembered.
GitSnapSameName(c, o) == [written |-> DesiredNames(o),
                          prior   |-> [n \in Names |-> IF n \in Occupied(c, o) THEN c[n] ELSE <<>>]]

\* The snapshot: every desired name, written or not, and what was in the way.
GitSnap(c, o) == [written |-> DesiredNames(o),
                  prior   |-> [n \in Names |-> IF n \in Conflicts(c, o) THEN c[n] ELSE <<>>]]

-----------------------------------------------------------------------------
(* The ssh file: what of it is the user's and the block of ours in it, which
   is broken if its end marker is missing.  Blank lines around are left out. *)

EmptyFile == [block |-> "none", text |-> ""]
TextOf(f)  == IF f = None THEN "" ELSE f.text
BlockOf(f) == IF f = None THEN "none" ELSE f.block

WithBlock(f, alias) == [block |-> IF alias THEN "alias" ELSE "top", text |-> TextOf(f)]

\* Enable refuses a damaged block, and at the top a file with its own Host github.com.
SshRefused(f, alias) == BlockOf(f) = "broken" \/ (~alias /\ TextOf(f) \in GithubTexts)

\* Effective: what status shows.
Effective(f) == BlockOf(f) # "none"

-----------------------------------------------------------------------------
(* Agents *)

\* unset, add: names still to unset and to write; keys: the snapshot of git at
\* hand, name and vals: what of it is being given back; put: the content about
\* to be written to the ssh file; got: the snapshot of ssh.
Idle == [pc |-> "idle", job |-> "none", unset |-> {}, add |-> <<>>, keys |-> None,
         name |-> Other, vals |-> <<>>, put |-> None, got |-> None]

At(a, l)    == ag[a].pc = l
Goto(a, l)  == ag' = [ag EXCEPT ![a].pc = l]
Leave(a)    == ag' = [ag EXCEPT ![a] = Idle]

\* off goes on to ssh whatever became of git (restoreManagedOnOff).
GitDone(a) == ag' = [ag EXCEPT ![a] = IF ag[a].job = "off" THEN [Idle EXCEPT !.pc = "sshload", !.job = "off"]
                                      ELSE Idle]

Busy == \E a \in Agents : ~At(a, "idle")

Begin(a, state) ==
    /\ At(a, "idle") /\ cmds < MaxCmds
    /\ Busy => "overlap" \in Faults
    /\ cmds' = cmds + 1
    /\ ag' = [ag EXCEPT ![a] = state]

Note(more) == seen' = seen \cup more \cup (IF Busy THEN {"overlap"} ELSE {})
MayFail    == "fail" \in Faults
Failed     == MayFail /\ UNCHANGED seen

\* An enable that ends here takes the only copy of the user's keys with it, or
\* leaves a snapshot of fewer keys than it has written.
HoldsKeys(a) == At(a, "unset") /\ (ag[a].keys.prior # NoKeys \/ snap["git"] # None)
EndsHalf(a)  == seen' = IF HoldsKeys(a) THEN seen \cup {"half"} ELSE seen

OwnKeys == \E n \in Names : OursOf(n) \in ToSet(git[n]) \ ToSet(mine.git[n])

-----------------------------------------------------------------------------
(* git enable *)

\* gitcfg.Enable up to the first change: read, plan, refuse or go on.
GitEnable(a, o, force) ==
    /\ Conflicts(git, o) = {} \/ force
    /\ Begin(a, [Idle EXCEPT !.pc = "unset", !.job = "enable", !.unset = Conflicts(git, o),
                             !.add = Additions(git, o), !.keys = GitSnap(git, o)])
    /\ Note(IF Conflicts(git, o) = {} THEN {} ELSE {"force"} \cup (IF OwnKeys THEN {"over"} ELSE {}))
    /\ back' = back \ {"git"}
    /\ UNCHANGED <<git, file, bak, snap, mine>>

\* One git config --unset-all; git fails for a name that is not there, and an
\* error ends Enable without a snapshot in the database.
Unset(a) ==
    /\ At(a, "unset") /\ ag[a].unset # {}
    /\ \E n \in ag[a].unset :
        \/ /\ git[n] # <<>>
           /\ git' = [git EXCEPT ![n] = <<>>]
           /\ ag' = [ag EXCEPT ![a].unset = @ \ {n}]
           /\ UNCHANGED seen
        \/ (MayFail \/ git[n] = <<>>) /\ Leave(a) /\ EndsHalf(a) /\ UNCHANGED git
    /\ UNCHANGED <<file, bak, snap, cmds, mine, back>>

Add(a) ==
    /\ At(a, "unset") /\ ag[a].unset = {} /\ ag[a].add # <<>>
    /\ LET n == Head(ag[a].add) IN
        \/ /\ git' = [git EXCEPT ![n] = Append(@, OursOf(n))]
           /\ ag' = [ag EXCEPT ![a].add = Tail(@)]
           /\ UNCHANGED seen
        \/ MayFail /\ Leave(a) /\ EndsHalf(a) /\ UNCHANGED git
    /\ UNCHANGED <<file, bak, snap, cmds, mine, back>>

\* The snapshot reaches the database only after the keys are written; that it
\* does not is logged and answered as success.
SaveGit(a) ==
    /\ At(a, "unset") /\ ag[a].unset = {} /\ ag[a].add = <<>>
    /\ \/ /\ snap' = [snap EXCEPT !["git"] = ag[a].keys]
          /\ seen' = IF snap["git"] # None /\ snap["git"].prior # NoKeys
                      THEN seen \cup {"over"} ELSE seen
       \/ MayFail /\ EndsHalf(a) /\ UNCHANGED snap
    /\ Leave(a)
    /\ UNCHANGED <<git, file, bak, cmds, mine, back>>

-----------------------------------------------------------------------------
(* git disable and the first half of off *)

GitDisable(a, job) ==
    /\ Begin(a, [Idle EXCEPT !.pc = "gitload", !.job = job])
    /\ Note({})
    /\ UNCHANGED <<git, file, bak, snap, mine, back>>

\* No snapshot, or none that can be read, and there is nothing to do.
GitLoad(a) ==
    /\ At(a, "gitload")
    /\ \/ /\ snap["git"] # None
          /\ ag' = [ag EXCEPT ![a].pc = "clear", ![a].keys = snap["git"],
                              ![a].unset = snap["git"].written]
          /\ UNCHANGED seen /\ back' = back \ {"git"}
       \/ snap["git"] = None /\ GitDone(a) /\ UNCHANGED <<seen, back>>
       \/ Failed /\ GitDone(a) /\ UNCHANGED back
    /\ UNCHANGED <<git, file, bak, snap, cmds, mine>>

\* gitcfg.Disable: first every written name, whatever is under it now; an
\* error of git is ignored and the key stays.
Clear(a) ==
    /\ At(a, "clear") /\ ag[a].unset # {}
    /\ \E n \in ag[a].unset :
        /\ ag' = [ag EXCEPT ![a].unset = @ \ {n}]
        /\ \/ git' = [git EXCEPT ![n] = <<>>] /\ UNCHANGED seen
           \/ MayFail /\ seen' = seen \cup {"kept"} /\ UNCHANGED git
    /\ UNCHANGED <<file, bak, snap, cmds, mine, back>>

\* Then the values that were there, name by name; an error leaves the rest
\* out and keeps the snapshot.
ReAdd(a) ==
    /\ At(a, "clear") /\ ag[a].unset = {}
    /\ \E n \in Names :
        /\ IF ag[a].vals # <<>> THEN n = ag[a].name ELSE ag[a].keys.prior[n] # <<>>
        /\ LET left == IF ag[a].vals # <<>> THEN ag[a].vals ELSE ag[a].keys.prior[n] IN
            \/ /\ git' = [git EXCEPT ![n] = Append(@, Head(left))]
               /\ ag' = [ag EXCEPT ![a].name = n, ![a].vals = Tail(left),
                                   ![a].keys.prior[n] = <<>>]
               /\ UNCHANGED seen
            \/ Failed /\ GitDone(a) /\ UNCHANGED git
    /\ UNCHANGED <<file, bak, snap, cmds, mine, back>>

\* That the snapshot cannot be deleted is logged.
DropGit(a) ==
    /\ At(a, "clear") /\ ag[a].unset = {} /\ ag[a].vals = <<>> /\ ag[a].keys.prior = NoKeys
    /\ \/ snap' = [snap EXCEPT !["git"] = None] /\ UNCHANGED seen
       \/ Failed /\ UNCHANGED snap
    /\ GitDone(a) /\ back' = back \cup {"git"}
    /\ UNCHANGED <<git, file, bak, cmds, mine>>

-----------------------------------------------------------------------------
(* ssh enable.  The probe of ports 22 and 443 may end it before it begins. *)

\* sshcfg.Enable up to its first write.  Nothing is backed up of a file that
\* is not there.
SshEnable(a, alias) ==
    /\ ~SshRefused(file, alias)
    /\ Begin(a, [Idle EXCEPT !.pc = IF file = None THEN "write" ELSE "backup", !.job = "enable",
                             !.put = WithBlock(file, alias), !.got = file])
    /\ Note(IF Effective(file) THEN {"again"} ELSE {})
    /\ back' = back \ {"ssh"}
    /\ UNCHANGED <<git, file, bak, snap, mine>>

\* Bug variant: what is about to be written is backed up.
BackupNew(a) == ag[a].put

\* The content read is backed up, at every enable and not only the first.
BackupContent(a) == ag[a].got

Backup(a) ==
    /\ At(a, "backup")
    /\ \/ bak' = BackupContent(a) /\ Goto(a, "write") /\ UNCHANGED seen
       \/ Failed /\ Leave(a) /\ UNCHANGED bak
    /\ UNCHANGED <<git, file, snap, cmds, mine, back>>

WriteFile(a) ==
    /\ At(a, "write")
    /\ \/ file' = ag[a].put /\ Goto(a, "sshsave") /\ UNCHANGED seen
       \/ Failed /\ Leave(a) /\ UNCHANGED file
    /\ UNCHANGED <<git, bak, snap, cmds, mine, back>>

\* The backup as it is now goes to the database, and an empty one for a file
\* that was not there.
SaveSsh(a) ==
    /\ At(a, "sshsave")
    /\ \/ /\ ag[a].got = None
          /\ snap' = [snap EXCEPT !["ssh"] = EmptyFile]
          /\ UNCHANGED seen
       \/ /\ ag[a].got # None /\ bak # None
          /\ snap' = [snap EXCEPT !["ssh"] = bak]
          /\ UNCHANGED seen
       \/ ag[a].got # None /\ bak = None /\ UNCHANGED <<snap, seen>>
       \/ Failed /\ UNCHANGED snap
    /\ Leave(a)
    /\ UNCHANGED <<git, file, bak, cmds, mine, back>>

-----------------------------------------------------------------------------
(* ssh disable and the second half of off *)

SshDisable(a, job) ==
    /\ job = "dry" => a = "cli"
    /\ Begin(a, [Idle EXCEPT !.pc = "sshload", !.job = job])
    /\ Note({})
    /\ UNCHANGED <<git, file, bak, snap, mine, back>>

\* Without a snapshot disable goes by the backup or the markers, off and a
\* dry run change nothing.
SshLoad(a) ==
    /\ At(a, "sshload")
    /\ \/ /\ snap["ssh"] # None
          /\ ag' = [ag EXCEPT ![a].pc = "rebackup", ![a].got = snap["ssh"]]
          /\ UNCHANGED seen /\ back' = back \ {"ssh"}
       \/ /\ snap["ssh"] = None /\ UNCHANGED <<seen, back>>
          /\ IF ag[a].job = "disable" THEN Goto(a, "restore") ELSE Leave(a)
       \/ Failed /\ UNCHANGED back
          /\ IF ag[a].job = "disable" THEN Goto(a, "restore") ELSE Leave(a)
    /\ UNCHANGED <<git, file, bak, snap, cmds, mine>>

\* The snapshot is written over the backup, by a dry run too.
Rebackup(a) ==
    /\ At(a, "rebackup")
    /\ \/ /\ bak' = ag[a].got /\ UNCHANGED seen
          /\ IF ag[a].job = "dry" THEN Leave(a) ELSE Goto(a, "restore")
       \/ /\ Failed /\ UNCHANGED bak
          /\ IF ag[a].job = "disable"
             THEN ag' = [ag EXCEPT ![a].pc = "restore", ![a].got = None] ELSE Leave(a)
    /\ UNCHANGED <<git, file, snap, cmds, mine, back>>

\* sshcfg.Disable: the backup byte for byte, else our block is cut out.
Without(f) == [f EXCEPT !.block = "none"]
AfterFile(a) ==
    IF ag[a].got # None THEN Goto(a, "sshdrop") /\ UNCHANGED back
    ELSE Leave(a) /\ back' = back \cup {"ssh"}

Restore(a) ==
    /\ At(a, "restore")
    /\ \/ bak # None /\ file' = bak /\ Goto(a, "unlink") /\ UNCHANGED <<seen, back>>
       \/ /\ bak = None /\ BlockOf(file) # "broken" /\ UNCHANGED seen
          /\ file' = IF file = None THEN None ELSE Without(file)
          /\ AfterFile(a)
       \/ /\ (bak = None /\ BlockOf(file) = "broken" /\ UNCHANGED seen) \/ Failed
          /\ UNCHANGED <<file, back>>
          /\ IF a = "api" /\ ag[a].job = "disable" /\ ag[a].got # None
             THEN ag' = [ag EXCEPT ![a].got = None] ELSE Leave(a)
    /\ UNCHANGED <<git, bak, snap, cmds, mine>>

\* That the backup cannot be removed is ignored.
Unlink(a) ==
    /\ At(a, "unlink")
    /\ \/ bak' = None /\ UNCHANGED seen
       \/ Failed /\ UNCHANGED bak
    /\ AfterFile(a)
    /\ UNCHANGED <<git, file, snap, cmds, mine>>

DropSsh(a) ==
    /\ At(a, "sshdrop")
    /\ \/ snap' = [snap EXCEPT !["ssh"] = None] /\ UNCHANGED seen
       \/ Failed /\ UNCHANGED snap
    /\ Leave(a) /\ back' = back \cup {"ssh"}
    /\ UNCHANGED <<git, file, bak, cmds, mine>>

-----------------------------------------------------------------------------
(* Around *)

\* The process of an agent dies between two of its steps; a file it was
\* writing may be left torn, but not by this model: see the README.
Crash(a) ==
    /\ "crash" \in Faults /\ ~At(a, "idle")
    /\ Leave(a) /\ EndsHalf(a)
    /\ UNCHANGED <<git, file, bak, snap, cmds, mine, back>>

\* The user edits the ssh file, or damages the block of GHydra in it.
Edit ==
    /\ "edit" \in Faults /\ file # None /\ file.text # "edited"
    /\ seen' = IF Busy \/ snap["ssh"] # None \/ bak # None THEN seen \cup {"edit"} ELSE seen
    /\ \/ /\ file' = [file EXCEPT !.text = "edited"]
          /\ mine' = [mine EXCEPT !.text = "edited"]
       \/ /\ Effective(file) /\ file' = [file EXCEPT !.block = "broken"]
          /\ UNCHANGED mine
    /\ UNCHANGED <<git, bak, snap, ag, cmds, back>>

Init ==
    /\ git \in UserGits /\ file \in UserFiles /\ bak = None
    /\ snap = [k \in {"git", "ssh"} |-> None]
    /\ ag = [a \in Agents |-> Idle]
    /\ cmds = 0 /\ back = {} /\ seen = {}
    /\ mine = [git |-> git, text |-> TextOf(file)]

GitStep(a) == Unset(a) \/ Add(a) \/ SaveGit(a) \/ GitLoad(a) \/ Clear(a) \/ ReAdd(a) \/ DropGit(a)

SshStep(a) == \/ Backup(a) \/ WriteFile(a) \/ SaveSsh(a)
              \/ SshLoad(a) \/ Rebackup(a) \/ Restore(a) \/ Unlink(a) \/ DropSsh(a)

Command(a) ==
    \/ \E o \in Options, force \in BOOLEAN : GitEnable(a, o, force)
    \/ \E alias \in BOOLEAN : SshEnable(a, alias)
    \/ \E job \in {"disable", "off"} : GitDisable(a, job)
    \/ \E job \in {"disable", "dry"} : SshDisable(a, job)

Next == Edit \/ \E a \in Agents : Command(a) \/ GitStep(a) \/ SshStep(a) \/ Crash(a)

Spec == Init /\ [][Next]_vars

-----------------------------------------------------------------------------
(* Properties *)

\* Only what enable --force is told to take away, and what is the same as
\* GHydra's own value, can go: the rest of the user's rewrites stays in the
\* configuration whatever fails, dies or overlaps (git.go:54 "only the keys
\* GHydra has written").
ForeignKept ==
    "force" \in seen \/
    \A n \in Names : ToSet(mine.git[n]) \subseteq ToSet(git[n]) \cup {OursOf(n)}

\* Once disable or off has reported success the user's rewrites are back and
\* nothing of GHydra's is left, also when an earlier enable was interrupted or
\* repeated, or an earlier disable failed half-way.
GitRestored ==
    "git" \in back /\ seen \cap {"kept", "overlap", "half", "over"} = {} =>
        \A n \in Names : /\ ToSet(git[n]) \subseteq ToSet(mine.git[n])
                         /\ ToSet(mine.git[n]) \subseteq ToSet(git[n]) \cup {OursOf(n)}

SshRestored ==
    "ssh" \in back /\ seen \cap {"again", "edit", "overlap"} = {} =>
        ~Effective(file) /\ TextOf(file) = mine.text

=============================================================================
