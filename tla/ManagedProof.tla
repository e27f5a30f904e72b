---------------------------- MODULE ManagedProof ----------------------------
(***************************************************************************)
(* Proof that the git keys and the ssh file GHydra borrows are given back, *)
(* for any options, users, number of commands and faults                   *)
(* (ManagedAssumption, ConfigAssumption).  What happened of the faults is  *)
(* in seen, and each property excepts what it names of it.                 *)
(*                                                                         *)
(*   OthersKept    without --force only GHydra's own values go             *)
(*   KeysReturned  after disable or off the git keys are the user's        *)
(*   FileReturned  and so is the ssh file                                  *)
(*                                                                         *)
(* The properties speak of the end of a command; the invariants say what   *)
(* is at hand in its middle to come to that end: which names a snapshot    *)
(* may clear (Foreign), that snapshot and keys together still make the     *)
(* user's keys (Restorable), and that file, backup and snapshot hold the   *)
(* user's text (Borrowed).                                                 *)
(***************************************************************************)
EXTENDS Managed, SequenceTheorems, TLAPS

Wanted == Names \ {Other}
Places == {"idle", "unset", "gitload", "clear", "backup", "write", "sshsave",
           "sshload", "rebackup", "restore", "unlink", "sshdrop"}
Jobs   == {"none", "enable", "disable", "off", "dry"}

AgentType == [pc : Places, job : Jobs, unset : SUBSET Names, add : Seq(Wanted),
              keys : Snapshots \cup {None}, name : Names, vals : Seq(Values),
              put : Files \cup {None}, got : Files \cup {None}]

AgentFits(r) ==
    /\ r \in AgentType
    /\ r.pc \in {"unset", "clear"} => r.keys \in Snapshots
    /\ r.pc \in {"backup", "rebackup"} => r.got \in Files
    /\ r.pc \in {"backup", "write"} => r.put \in Files
    /\ r.pc # "clear" => r.vals = <<>>

Types ==
    /\ git \in Configs /\ file \in Files \cup {None} /\ bak \in Files \cup {None}
    /\ snap = [k \in {"git", "ssh"} |-> snap[k]]
    /\ snap["git"] \in Snapshots \cup {None} /\ snap["ssh"] \in Files \cup {None}
    /\ mine \in [git : Configs, text : Texts]
    /\ ag = [a \in Agents |-> ag[a]] /\ \A a \in Agents : AgentFits(ag[a])

-----------------------------------------------------------------------------
(* The invariants                                                          *)

\* Whatever GHydra takes away under n is its own.
Free(n) == ToSet(mine.git[n]) \subseteq {OursOf(n)}

\* What an agent without --force is about to take away.
TakesOurs(r) ==
    /\ r.pc = "unset" => r.unset = {} /\ \A n \in r.keys.written : Free(n)
    /\ r.pc = "clear" => \A n \in r.unset : Free(n)

Foreign ==
    /\ \A n \in Names : ToSet(mine.git[n]) \subseteq ToSet(git[n]) \cup {OursOf(n)}
    /\ snap["git"] # None => \A n \in snap["git"].written : Free(n)
    /\ \A a \in Agents : TakesOurs(ag[a])

ForeignInv == "force" \in seen \/ Foreign

\* Two commands at a time are noted.
Alone == "overlap" \notin seen => \A a, b \in Agents : At(a, "idle") \/ At(b, "idle") \/ a = b

\* The user's values of n are there, and nothing else.
Returned(n) == /\ ToSet(git[n]) \subseteq ToSet(mine.git[n])
               /\ ToSet(mine.git[n]) \subseteq ToSet(git[n]) \cup {OursOf(n)}

\* The snapshot k is enough to give the user's keys back.
Covers(k) == \A n \in Names :
    /\ ToSet(k.prior[n]) \subseteq ToSet(mine.git[n])
    /\ n \in k.written => ToSet(mine.git[n]) \subseteq ToSet(k.prior[n]) \cup {OursOf(n)}
    /\ n \notin k.written =>
          /\ ToSet(git[n]) \subseteq ToSet(mine.git[n])
          /\ ToSet(mine.git[n]) \subseteq ToSet(k.prior[n]) \cup ToSet(git[n]) \cup {OursOf(n)}

Enabling == \E a \in Agents : At(a, "unset")

\* An enable has in hand what it needs, unless it is about to lose an older
\* snapshot of the user's keys, which is noted.
Taken(r) ==
    /\ "git" \notin back /\ r.add \in Seq(r.keys.written)
    /\ \/ snap["git"] # None /\ snap["git"].prior # NoKeys
       \/ /\ Covers(r.keys)
          /\ \A n \in r.unset : ToSet(mine.git[n]) \subseteq ToSet(r.keys.prior[n]) \cup {OursOf(n)}

\* A disable: names still to clear, and values still to add.
Giving(r) ==
    /\ "git" \notin back /\ snap["git"] # None /\ r.unset \subseteq snap["git"].written
    /\ r.unset # {} => r.vals = <<>>
    /\ r.vals # <<>> => r.keys.prior[r.name] = <<>>
    /\ ToSet(r.vals) \subseteq ToSet(mine.git[r.name])
    /\ \A n \in Names :
          /\ ToSet(r.keys.prior[n]) \subseteq ToSet(mine.git[n])
          /\ n \in r.unset => ToSet(mine.git[n]) \subseteq ToSet(r.keys.prior[n]) \cup {OursOf(n)}
          /\ n \notin r.unset =>
                /\ ToSet(git[n]) \subseteq ToSet(mine.git[n])
                /\ ToSet(mine.git[n]) \subseteq ToSet(git[n]) \cup ToSet(r.keys.prior[n]) \cup {OursOf(n)}
                        \cup (IF n = r.name THEN ToSet(r.vals) ELSE {})

Restorable ==
    /\ \A n \in Names : ToSet(git[n]) \subseteq ToSet(mine.git[n]) \cup {OursOf(n)}
    /\ "git" \in back => \A n \in Names : Returned(n)
    /\ ~Enabling =>
          IF snap["git"] = None
          THEN \A n \in Names : ToSet(mine.git[n]) \subseteq ToSet(git[n]) \cup {OursOf(n)}
          ELSE Covers(snap["git"])
    /\ \A a \in Agents : At(a, "unset") => Taken(ag[a])
    /\ \A a \in Agents : At(a, "clear") => Giving(ag[a])

GitInv == seen \cap {"kept", "overlap", "half", "over"} = {} => Restorable

Original == [block |-> "none", text |-> mine.text]

\* What an agent has in hand of the ssh file.
Holds(r) ==
    /\ r.pc \in {"backup", "write", "sshsave"} =>
          "ssh" \notin back /\ (r.got = Original \/ (r.got = None /\ mine.text = ""))
    /\ r.pc \in {"backup", "rebackup"} => r.got = Original
    /\ r.pc \in {"backup", "write"} => r.put.text = mine.text
    /\ r.pc \in {"unlink", "sshdrop"} => ~Effective(file)

Borrowed ==
    /\ TextOf(file) = mine.text
    /\ "ssh" \in back => ~Effective(file)
    /\ bak \in {None, Original} /\ snap["ssh"] \in {None, Original}
    /\ \A a \in Agents : Holds(ag[a])

SshInv == seen \cap {"again", "edit", "overlap"} = {} => Borrowed

-----------------------------------------------------------------------------
(* Sequences and names                                                     *)

LEMMA AppendSet ==
    ASSUME NEW S, NEW s \in Seq(S), NEW e \in S
    PROVE  ToSet(Append(s, e)) = ToSet(s) \cup {e} /\ Append(s, e) \in Seq(S)
<1>1. Append(s, e) \in Seq(S) /\ Len(Append(s, e)) = Len(s) + 1 OBVIOUS
<1>2. DOMAIN s = 1..Len(s) /\ DOMAIN Append(s, e) = 1..(Len(s) + 1) /\ Len(s) \in Nat BY <1>1
<1>3. \A i \in 1..Len(s) : Append(s, e)[i] = s[i] OBVIOUS
<1>4. Append(s, e)[Len(s) + 1] = e OBVIOUS
<1> QED BY <1>1, <1>2, <1>3, <1>4 DEF ToSet

LEMMA HeadTailSet ==
    ASSUME NEW S, NEW s \in Seq(S), s # <<>>
    PROVE  Head(s) \in S /\ Tail(s) \in Seq(S) /\ ToSet(s) = {Head(s)} \cup ToSet(Tail(s))
<1>1. Head(s) = s[1] /\ Tail(s) \in Seq(S) /\ Len(Tail(s)) = Len(s) - 1 /\ Len(s) \in Nat \ {0} OBVIOUS
<1>2. DOMAIN s = 1..Len(s) /\ DOMAIN Tail(s) = 1..(Len(s) - 1) BY <1>1
<1>3. \A i \in 1..(Len(s) - 1) : Tail(s)[i] = s[i+1] BY <1>1
<1>4. s[1] \in S OBVIOUS
<1>5. ASSUME NEW x \in ToSet(s) PROVE x \in {Head(s)} \cup ToSet(Tail(s))
  <2>1. PICK i \in 1..Len(s) : x = s[i] BY <1>2 DEF ToSet
  <2>2. CASE i = 1 BY <2>1, <2>2, <1>1
  <2>3. CASE i # 1
    <3>1. i - 1 \in 1..(Len(s) - 1) /\ (i - 1) + 1 = i BY <2>3, <1>1
    <3>2. x = Tail(s)[i - 1] BY <3>1, <1>3, <2>1
    <3> QED BY <3>1, <3>2, <1>2 DEF ToSet
  <2> QED BY <2>2, <2>3
<1>6. ASSUME NEW i \in 1..(Len(s) - 1) PROVE Tail(s)[i] \in ToSet(s)
  BY <1>3, <1>2, <1>1, i + 1 \in 1..Len(s) DEF ToSet
<1> QED BY <1>1, <1>2, <1>4, <1>5, <1>6 DEF ToSet

LEMMA SmallSets == ASSUME NEW e PROVE ToSet(<<>>) = {} /\ ToSet(<<e>>) = {e}
BY DEF ToSet

LEMMA OwnSet == ASSUME NEW S, NEW s \in Seq(S) PROVE s \in Seq(ToSet(s))
BY DEF ToSet

LEMMA ConcatSet ==
    ASSUME NEW S, NEW s \in Seq(S), NEW t \in Seq(S)
    PROVE  ToSet(s \o t) = ToSet(s) \cup ToSet(t) /\ s \o t \in Seq(S)
<1>1. /\ s \o t \in Seq(S) /\ Len(s \o t) = Len(s) + Len(t)
      /\ \A i \in 1..Len(s)+Len(t) : (s \o t)[i] = IF i <= Len(s) THEN s[i] ELSE t[i - Len(s)]
  BY ConcatProperties
<1>2. Len(s) \in Nat /\ Len(t) \in Nat /\ DOMAIN s = 1..Len(s) /\ DOMAIN t = 1..Len(t) /\ DOMAIN (s \o t) = 1..(Len(s) + Len(t)) BY <1>1
<1>3. \A i \in 1..Len(s) : (s \o t)[i] = s[i] BY <1>1, <1>2
<1>4. \A i \in 1..Len(t) : i + Len(s) \in 1..(Len(s) + Len(t)) /\ (s \o t)[i + Len(s)] = t[i] BY <1>1, <1>2
<1>5. ToSet(s) \subseteq ToSet(s \o t) /\ ToSet(t) \subseteq ToSet(s \o t) 
  <2>1. ASSUME NEW i \in 1..Len(s) PROVE s[i] \in ToSet(s \o t) BY <1>2, <1>3, i \in 1..(Len(s) + Len(t)) DEF ToSet
  <2>2. ASSUME NEW i \in 1..Len(t) PROVE t[i] \in ToSet(s \o t) BY <1>2, <1>4 DEF ToSet
  <2> QED BY <2>1, <2>2, <1>2 DEF ToSet
<1>6. ASSUME NEW i \in 1..(Len(s) + Len(t)) PROVE (s \o t)[i] \in ToSet(s) \cup ToSet(t)
  <2>1. CASE i <= Len(s) BY <2>1, <1>1, <1>2 DEF ToSet
  <2>2. CASE i > Len(s) BY <2>2, <1>1, <1>2, i - Len(s) \in 1..Len(t) DEF ToSet
  <2> QED BY <2>1, <2>2, <1>2
<1> QED BY <1>1, <1>2, <1>5, <1>6 DEF ToSet

LEMMA NamesAre ==
    /\ \A c \in CDNs, s \in Sources : Fetch(c, s) \in Wanted /\ OursOf(Fetch(c, s)) = s
    /\ \A s \in Sources : Push(s) \in Wanted /\ OursOf(Push(s)) = s
    /\ Other \in Names /\ OursOf(Other) = "" /\ OursOf(Other) \notin Values
    /\ Wanted \subseteq Names /\ \A n \in Wanted : OursOf(n) \in Sources
<1>1. ASSUME NEW c, NEW s \in Sources PROVE Fetch(c, s) # Other BY <1>1 DEF Fetch, Other, Sources
<1>2. ASSUME NEW s \in Sources PROVE Push(s) # Other BY <1>2 DEF Push, Other, Sources
<1>3. \A c, s : OursOf(Fetch(c, s)) = s BY DEF OursOf, Fetch
<1>4. \A s : OursOf(Push(s)) = s BY DEF OursOf, Push
<1>5. OursOf(Other) = "" BY DEF OursOf, Other
<1>6. "" \notin Values BY DEF Values, Sources
<1> HIDE DEF Fetch, Push, Other, OursOf
<1>7. \A c \in CDNs, s \in Sources : Fetch(c, s) \in Wanted BY <1>1 DEF Wanted, Names
<1>8. \A s \in Sources : Push(s) \in Wanted BY <1>2 DEF Wanted, Names
<1>9. Other \in Names /\ Wanted \subseteq Names BY DEF Wanted, Names
<1>10. ASSUME NEW n \in Wanted PROVE OursOf(n) \in Sources
  <2>1. CASE \E c \in CDNs, s \in Sources : n = Fetch(c, s) BY <2>1, <1>3
  <2>2. CASE \E s \in Sources : n = Push(s) BY <2>2, <1>4
  <2> QED BY <2>1, <2>2 DEF Wanted, Names
<1> QED BY <1>3, <1>4, <1>5, <1>6, <1>7, <1>8, <1>9, <1>10

LEMMA DesiredIs ==
    ASSUME NEW o \in Options
    PROVE  /\ DesiredNames(o) \subseteq Wanted
           /\ \A C : Desired(o, C) \in Seq(DesiredNames(o))
<1>1. o.cdn \in CDNs BY DEF CDNs
<1>2. ASSUME NEW s \in Sources, NEW C
      PROVE  DesiredFor(o, s, C) \in Seq(Wanted) /\ ToSet(DesiredFor(o, s, C)) \subseteq ToSet(DesiredFor(o, s, Names))
  <2> DEFINE f == Fetch(o.cdn, s)
             g == Push(s)
             F(X) == IF f \in X THEN <<f>> ELSE <<>>
             G(X) == IF g \in X /\ ~o.push THEN <<g>> ELSE <<>>
  <2>1. f \in Wanted /\ g \in Wanted /\ f \in Names /\ g \in Names BY <1>1, NamesAre
  <2> HIDE DEF f, g
  <2>2. \A X : F(X) \in Seq(Wanted) /\ G(X) \in Seq(Wanted) BY <2>1
  <2>3. ToSet(F(C)) \subseteq ToSet(F(Names)) /\ ToSet(G(C)) \subseteq ToSet(G(Names)) BY <2>1, SmallSets
  <2>4. \A X : DesiredFor(o, s, X) = F(X) \o G(X) BY DEF DesiredFor, f, g
  <2> HIDE DEF F, G
  <2>5. \A X : ToSet(F(X) \o G(X)) = ToSet(F(X)) \cup ToSet(G(X)) /\ F(X) \o G(X) \in Seq(Wanted) BY <2>2, ConcatSet
  <2> QED BY <2>3, <2>4, <2>5
<1> DEFINE A(X) == DesiredFor(o, "https", X)
           B(X) == IF o.ssh THEN DesiredFor(o, "ssh", X) ELSE <<>>
<1>3. \A X : A(X) \in Seq(Wanted) /\ ToSet(A(X)) \subseteq ToSet(A(Names)) BY <1>2 DEF Sources
<1>4. \A X : B(X) \in Seq(Wanted) /\ ToSet(B(X)) \subseteq ToSet(B(Names)) BY <1>2 DEF Sources
<1>5. \A X : Desired(o, X) = A(X) \o B(X) BY DEF Desired
<1> HIDE DEF A, B
<1>6. \A X : ToSet(A(X) \o B(X)) = ToSet(A(X)) \cup ToSet(B(X)) /\ A(X) \o B(X) \in Seq(Wanted) BY <1>3, <1>4, ConcatSet
<1>7. ASSUME NEW C PROVE Desired(o, C) \in Seq(Wanted) /\ ToSet(Desired(o, C)) \subseteq DesiredNames(o)
  BY <1>3, <1>4, <1>5, <1>6 DEF DesiredNames
<1>8. ASSUME NEW C PROVE Desired(o, C) \in Seq(DesiredNames(o))
  <2>1. Desired(o, C) \in Seq(ToSet(Desired(o, C))) BY <1>7, OwnSet
  <2> QED BY <2>1, <1>7
<1>9. DesiredNames(o) \subseteq Wanted
  <2>1. \A i \in DOMAIN Desired(o, Names) : Desired(o, Names)[i] \in Wanted BY <1>7
  <2> QED BY <2>1 DEF DesiredNames, ToSet
<1> QED BY <1>8, <1>9

LEMMA EnableIs ==
    ASSUME NEW o \in Options, git \in Configs
    PROVE  /\ Additions(git, o) \in Seq(DesiredNames(o)) /\ Additions(git, o) \in Seq(Wanted)
           /\ Conflicts(git, o) \in SUBSET Names /\ GitSnap(git, o) \in Snapshots
           /\ GitSnap(git, o).written = DesiredNames(o)
           /\ \A n \in Names : GitSnap(git, o).prior[n] = IF n \in Conflicts(git, o) THEN git[n] ELSE <<>>
<1>1. Additions(git, o) \in Seq(DesiredNames(o)) BY DesiredIs, ConcatProperties DEF Additions
<1>2. Additions(git, o) \in Seq(Wanted) BY <1>1, DesiredIs
<1>3. Conflicts(git, o) \in SUBSET Names BY DesiredIs, NamesAre DEF Conflicts, Occupied, Rewriters
<1>4. GitSnap(git, o) \in Snapshots BY DesiredIs DEF GitSnap, Snapshots, Configs, Wanted
<1> QED BY <1>1, <1>2, <1>3, <1>4 DEF GitSnap

-----------------------------------------------------------------------------
(* Types                                                                   *)

LEMMA IdleFits == AgentFits(Idle)
<1>1. Other \in Names BY NamesAre
<1>2. <<>> \in Seq(Wanted) /\ <<>> \in Seq(Values) OBVIOUS
<1> HIDE DEF Other
<1> QED BY <1>1, <1>2 DEF AgentFits, AgentType, Idle, Places, Jobs

LEMMA Moved ==
    ASSUME Types, NEW a \in Agents, NEW r, AgentFits(r), ag' = [ag EXCEPT ![a] = r]
    PROVE  ag' = [b \in Agents |-> ag'[b]] /\ \A b \in Agents : AgentFits(ag'[b])
BY DEF Types

\* An agent at work on the ssh file has no git values in hand.
LEMMA SshHands ==
    ASSUME Types, NEW a \in Agents, SshStep(a)
    PROVE  ag[a].vals = <<>> /\ ag[a].pc # "clear"
BY DEF SshStep, Backup, WriteFile, SaveSsh, SshLoad, Rebackup, Restore, Unlink, DropSsh, At, Types, AgentFits

LEMMA Placed ==
    ASSUME Types, NEW a \in Agents, NEW l \in Places, Goto(a, l), SshStep(a),
           l \in {"unset", "clear"} => ag[a].keys \in Snapshots,
           l \in {"backup", "rebackup"} => ag[a].got \in Files,
           l \in {"backup", "write"} => ag[a].put \in Files
    PROVE  ag' = [b \in Agents |-> ag'[b]] /\ \A b \in Agents : AgentFits(ag'[b])
<1>1. AgentFits(ag[a]) BY DEF Types
<1>2. AgentFits([ag[a] EXCEPT !.pc = l]) BY <1>1, SshHands DEF AgentFits, AgentType
<1>3. ag' = [ag EXCEPT ![a] = [ag[a] EXCEPT !.pc = l]] BY DEF Goto
<1> QED BY <1>2, <1>3, Moved

LEMMA Left ==
    ASSUME Types, NEW a \in Agents, Leave(a) \/ GitDone(a)
    PROVE  ag' = [b \in Agents |-> ag'[b]] /\ \A b \in Agents : AgentFits(ag'[b])
<1>1. AgentFits([Idle EXCEPT !.pc = "sshload", !.job = "off"])
  BY IdleFits DEF Idle, AgentFits, AgentType, Places, Jobs
<1> QED BY <1>1, IdleFits, Moved DEF Leave, GitDone

Rest == /\ git \in Configs /\ file \in Files \cup {None} /\ bak \in Files \cup {None}
        /\ snap = [k \in {"git", "ssh"} |-> snap[k]]
        /\ snap["git"] \in Snapshots \cup {None} /\ snap["ssh"] \in Files \cup {None}
        /\ mine \in [git : Configs, text : Texts]

LEMMA RestKept == ASSUME Types, UNCHANGED <<git, file, bak, snap, mine>> PROVE Rest'
BY DEF Types, Rest

LEMMA AgTypes ==
    ASSUME Rest', ag' = [b \in Agents |-> ag'[b]], \A b \in Agents : AgentFits(ag'[b])
    PROVE  Types'
<1>1. \A b \in Agents : AgentFits(ag[b])' BY DEF AgentFits, AgentType
<1> QED BY <1>1 DEF Types, Rest

LEMMA SnapIs ==
    ASSUME Types, NEW k \in {"git", "ssh"}, NEW v, snap' = [snap EXCEPT ![k] = v]
    PROVE  snap' = [j \in {"git", "ssh"} |-> snap'[j]] /\ snap'[k] = v /\ \A j \in {"git", "ssh"} \ {k} : snap'[j] = snap[j]
BY DEF Types

LEMMA GitTypes ==
    ASSUME Types, NEW n \in Names, NEW e \in Values, git' = [git EXCEPT ![n] = Append(@, e)]
    PROVE  git' \in Configs /\ ToSet(git'[n]) = ToSet(git[n]) \cup {e} /\ \A m \in Names \ {n} : git'[m] = git[m]
<1>1. git \in Configs /\ git[n] \in Seq(Values) BY DEF Types, Configs
<1>2. Append(git[n], e) \in Seq(Values) /\ ToSet(Append(git[n], e)) = ToSet(git[n]) \cup {e} BY <1>1, AppendSet
<1> QED BY <1>1, <1>2 DEF Configs

LEMMA GitCleared ==
    ASSUME Types, NEW n \in Names, git' = [git EXCEPT ![n] = <<>>]
    PROVE  git' \in Configs /\ ToSet(git'[n]) = {} /\ \A m \in Names \ {n} : git'[m] = git[m]
<1>1. git \in Configs BY DEF Types
<1>2. <<>> \in Seq(Values) OBVIOUS
<1> QED BY <1>1, <1>2, SmallSets DEF Configs

LEMMA GitStepTypes == ASSUME Types, NEW a \in Agents, GitStep(a) PROVE Types'
<1> DEFINE r == ag[a]
<1>0. AgentFits(r) /\ git \in Configs /\ Rest BY DEF Types, Rest
<1>1. CASE Unset(a)
  <2>1. PICK n \in r.unset : \/ /\ git' = [git EXCEPT ![n] = <<>>]
                                /\ ag' = [ag EXCEPT ![a].unset = @ \ {n}]
                             \/ Leave(a) /\ UNCHANGED git
    BY <1>1 DEF Unset
  <2>2. n \in Names BY <1>0 DEF AgentFits, AgentType
  <2>3. AgentFits([r EXCEPT !.unset = @ \ {n}]) BY <1>0 DEF AgentFits, AgentType
  <2>4. ag' = [b \in Agents |-> ag'[b]] /\ \A b \in Agents : AgentFits(ag'[b]) BY <2>1, <2>3, Moved, Left
  <2>5. Rest' BY <2>1, <2>2, <1>1, <1>0, GitCleared DEF Rest, Unset
  <2> QED BY <2>4, <2>5, AgTypes
<1>2. CASE Add(a)
  <2> DEFINE n == Head(r.add)
  <2>1. \/ git' = [git EXCEPT ![n] = Append(@, OursOf(n))] /\ ag' = [ag EXCEPT ![a].add = Tail(@)]
        \/ Leave(a) /\ UNCHANGED git
    BY <1>2 DEF Add
  <2>2. r.add \in Seq(Wanted) /\ r.add # <<>> BY <1>0, <1>2 DEF AgentFits, AgentType, Add
  <2>3. n \in Wanted /\ Tail(r.add) \in Seq(Wanted) BY <2>2, HeadTailSet
  <2>4. n \in Names /\ OursOf(n) \in Values BY <2>3, NamesAre DEF Values
  <2> HIDE DEF n
  <2>5. AgentFits([r EXCEPT !.add = Tail(@)]) BY <1>0, <2>3 DEF AgentFits, AgentType
  <2>6. ag' = [b \in Agents |-> ag'[b]] /\ \A b \in Agents : AgentFits(ag'[b]) BY <2>1, <2>5, Moved, Left
  <2>7. Rest' BY <2>1, <2>4, <1>2, <1>0, GitTypes DEF Rest, Add
  <2> QED BY <2>6, <2>7, AgTypes
<1>3. CASE SaveGit(a)
  <2>1. r.keys \in Snapshots BY <1>0, <1>3 DEF AgentFits, SaveGit, At
  <2>2. Leave(a) /\ UNCHANGED <<git, file, bak, mine>>
        /\ (snap' = [snap EXCEPT !["git"] = r.keys] \/ UNCHANGED snap)
    BY <1>3 DEF SaveGit
  <2>3. Rest' BY <1>0, <2>1, <2>2, SnapIs DEF Rest
  <2> QED BY <2>2, <2>3, Left, AgTypes
<1>4. CASE GitLoad(a)
  <2>1. \/ snap["git"] # None /\ ag' = [ag EXCEPT ![a].pc = "clear", ![a].keys = snap["git"],
                                                  ![a].unset = snap["git"].written]
        \/ GitDone(a)
    BY <1>4 DEF GitLoad
  <2>2. CASE snap["git"] # None /\ ag' = [ag EXCEPT ![a] = [r EXCEPT !.pc = "clear", !.keys = snap["git"],
                                                  !.unset = snap["git"].written]]
    <3>1. snap["git"] \in Snapshots BY <1>0, <2>2 DEF Rest
    <3>2. snap["git"].written \in SUBSET Names BY <3>1 DEF Snapshots
    <3>3. AgentFits([r EXCEPT !.pc = "clear", !.keys = snap["git"], !.unset = snap["git"].written])
      BY <1>0, <3>1, <3>2 DEF AgentFits, AgentType, Places
    <3>4. Rest' BY <1>4, RestKept DEF GitLoad
    <3> QED BY <2>2, <3>3, <3>4, Moved, AgTypes
  <2>3. CASE GitDone(a)
    <3>1. Rest' BY <1>4, RestKept DEF GitLoad
    <3> QED BY <3>1, <2>3, Left, AgTypes
  <2> QED BY <2>1, <2>2, <2>3
<1>5. CASE Clear(a)
  <2>1. PICK n \in r.unset : /\ ag' = [ag EXCEPT ![a].unset = @ \ {n}]
                             /\ git' = [git EXCEPT ![n] = <<>>] \/ UNCHANGED git
    BY <1>5 DEF Clear
  <2>2. n \in Names BY <1>0 DEF AgentFits, AgentType
  <2>3. AgentFits([r EXCEPT !.unset = @ \ {n}]) BY <1>0 DEF AgentFits, AgentType
  <2>4. ag' = [b \in Agents |-> ag'[b]] /\ \A b \in Agents : AgentFits(ag'[b]) BY <2>1, <2>3, Moved
  <2>5. Rest' BY <2>1, <2>2, <1>5, <1>0, GitCleared DEF Rest, Clear
  <2> QED BY <2>4, <2>5, AgTypes
<1>6. CASE ReAdd(a)
  <2> DEFINE left(n) == IF r.vals # <<>> THEN r.vals ELSE r.keys.prior[n]
  <2>1. PICK n \in Names :
           /\ IF r.vals # <<>> THEN n = r.name ELSE r.keys.prior[n] # <<>>
           /\ \/ /\ git' = [git EXCEPT ![n] = Append(@, Head(left(n)))]
                 /\ ag' = [ag EXCEPT ![a].name = n, ![a].vals = Tail(left(n)), ![a].keys.prior[n] = <<>>]
              \/ GitDone(a) /\ UNCHANGED git
    BY <1>6 DEF ReAdd
  <2>2. r.keys \in Snapshots BY <1>0, <1>6 DEF AgentFits, ReAdd, At
  <2>3. r.vals \in Seq(Values) /\ r.keys.prior \in Configs BY <1>0, <2>2 DEF AgentFits, AgentType, Snapshots
  <2>4. left(n) \in Seq(Values) /\ left(n) # <<>> BY <2>1, <2>3 DEF Configs
  <2> HIDE DEF left
  <2>5. Head(left(n)) \in Values /\ Tail(left(n)) \in Seq(Values) BY <2>4, HeadTailSet
  <2> DEFINE k == [r.keys EXCEPT !.prior[n] = <<>>]
  <2>6. k \in Snapshots BY <2>2, <2>3, <<>> \in Seq(Values) DEF Snapshots, Configs
  <2>7. AgentFits([r EXCEPT !.name = n, !.vals = Tail(left(n)), !.keys = k])
    <3> HIDE DEF k
    <3>1. r.pc = "clear" BY <1>6 DEF ReAdd, At
    <3> QED BY <1>0, <2>5, <2>6, <3>1 DEF AgentFits, AgentType
  <2>8. CASE git' = [git EXCEPT ![n] = Append(@, Head(left(n)))]
             /\ ag' = [ag EXCEPT ![a] = [r EXCEPT !.name = n, !.vals = Tail(left(n)), !.keys = k]]
    <3>1. Rest' BY <2>8, <2>5, <1>6, <1>0, GitTypes DEF Rest, ReAdd
    <3> QED BY <3>1, <2>7, <2>8, Moved, AgTypes
  <2>9. CASE GitDone(a) /\ UNCHANGED git
    <3>1. Rest' BY <2>9, <1>6, RestKept DEF ReAdd
    <3> QED BY <3>1, <2>9, Left, AgTypes
  <2>10. ASSUME ag' = [ag EXCEPT ![a].name = n, ![a].vals = Tail(left(n)), ![a].keys.prior[n] = <<>>]
         PROVE  ag' = [ag EXCEPT ![a] = [r EXCEPT !.name = n, !.vals = Tail(left(n)), !.keys = k]]
    <3>1. ag = [b \in Agents |-> ag[b]] /\ r \in AgentType BY <1>0 DEF Types, AgentFits
    <3>2. ag' = [ag EXCEPT ![a] = [r EXCEPT !.name = n, !.vals = Tail(left(n)), !.keys.prior[n] = <<>>]]
      BY <2>10, <3>1
    <3>3. [r EXCEPT !.name = n, !.vals = Tail(left(n)), !.keys.prior[n] = <<>>]
            = [r EXCEPT !.name = n, !.vals = Tail(left(n)), !.keys = k]
      BY <3>1 DEF AgentType
    <3> QED BY <3>2, <3>3
  <2> QED BY <2>1, <2>8, <2>9, <2>10
<1>7. CASE DropGit(a)
  <2>1. GitDone(a) /\ UNCHANGED <<git, file, bak, mine>> /\ (snap' = [snap EXCEPT !["git"] = None] \/ UNCHANGED snap)
    BY <1>7 DEF DropGit
  <2>2. Rest' BY <1>0, <2>1, SnapIs DEF Rest
  <2> QED BY <2>1, <2>2, Left, AgTypes
<1> QED BY <1>1, <1>2, <1>3, <1>4, <1>5, <1>6, <1>7 DEF GitStep

LEMMA FileIs ==
    ASSUME NEW f \in Files \cup {None}, NEW alias \in BOOLEAN
    PROVE  /\ WithBlock(f, alias) \in Files /\ WithBlock(f, alias).text = TextOf(f) /\ TextOf(f) \in Texts
           /\ f # None => f \in Files /\ Without(f) \in Files /\ Without(f).text = f.text /\ Without(f).block = "none"
           /\ EmptyFile \in Files /\ None \notin Files
<1>1. TextOf(f) \in Texts BY DEF TextOf, Files, Texts
<1>2. WithBlock(f, alias) \in Files /\ WithBlock(f, alias).text = TextOf(f) BY <1>1 DEF WithBlock, Files
<1>3. f # None => f \in Files /\ Without(f) \in Files /\ Without(f).text = f.text /\ Without(f).block = "none"
  BY DEF Without, Files
<1>4. EmptyFile \in Files BY DEF EmptyFile, Files, Texts
<1>5. None \notin Files BY ManagedAssumption
<1> QED BY <1>1, <1>2, <1>3, <1>4, <1>5

LEMMA SshStepTypes == ASSUME Types, NEW a \in Agents, SshStep(a) PROVE Types'
<1> DEFINE r == ag[a]
<1>0. AgentFits(r) /\ Rest BY DEF Types, Rest
<1>1. CASE Backup(a)
  <2>1. r.got \in Files /\ r.put \in Files BY <1>0, <1>1 DEF AgentFits, Backup, At
  <2>2. Goto(a, "write") \/ Leave(a) BY <1>1 DEF Backup
  <2>3. ag' = [b \in Agents |-> ag'[b]] /\ \A b \in Agents : AgentFits(ag'[b])
    BY <2>1, <2>2, Left, Placed, "write" \in Places DEF Places
  <2>4. Rest' BY <1>0, <1>1, <2>1 DEF Rest, Backup, BackupContent
  <2> QED BY <2>3, <2>4, AgTypes
<1>2. CASE WriteFile(a)
  <2>1. r.put \in Files BY <1>0, <1>2 DEF AgentFits, WriteFile, At
  <2>2. Goto(a, "sshsave") \/ Leave(a) BY <1>2 DEF WriteFile
  <2>3. ag' = [b \in Agents |-> ag'[b]] /\ \A b \in Agents : AgentFits(ag'[b])
    BY <2>2, Left, Placed, "sshsave" \in Places DEF Places
  <2>4. Rest' BY <1>0, <1>2, <2>1 DEF Rest, WriteFile
  <2> QED BY <2>3, <2>4, AgTypes
<1>3. CASE SaveSsh(a)
  <2>1. Leave(a) /\ UNCHANGED <<git, file, bak, mine>>
        /\ \/ snap' = [snap EXCEPT !["ssh"] = EmptyFile]
           \/ snap' = [snap EXCEPT !["ssh"] = bak]
           \/ UNCHANGED snap
    BY <1>3 DEF SaveSsh, Failed
  <2>2. EmptyFile \in Files BY DEF EmptyFile, Files, Texts
  <2>3. Rest' BY <1>0, <2>1, <2>2, SnapIs DEF Rest
  <2> QED BY <2>1, <2>3, Left, AgTypes
<1>4. CASE SshLoad(a)
  <2>1. \/ snap["ssh"] # None /\ ag' = [ag EXCEPT ![a].pc = "rebackup", ![a].got = snap["ssh"]]
        \/ Goto(a, "restore") \/ Leave(a)
    BY <1>4 DEF SshLoad
  <2>2. ASSUME snap["ssh"] # None, ag' = [ag EXCEPT ![a] = [r EXCEPT !.pc = "rebackup", !.got = snap["ssh"]]]
        PROVE  ag' = [b \in Agents |-> ag'[b]] /\ \A b \in Agents : AgentFits(ag'[b])
    <3>1. snap["ssh"] \in Files BY <1>0, <2>2 DEF Rest
    <3>2. AgentFits([r EXCEPT !.pc = "rebackup", !.got = snap["ssh"]])
      BY <1>0, <3>1, SshHands DEF AgentFits, AgentType, Places
    <3> QED BY <2>2, <3>2, Moved
  <2>3. ag' = [b \in Agents |-> ag'[b]] /\ \A b \in Agents : AgentFits(ag'[b])
    BY <2>1, <2>2, Left, Placed, "restore" \in Places DEF Places
  <2>4. Rest' BY <1>4, RestKept DEF SshLoad
  <2> QED BY <2>3, <2>4, AgTypes
<1>5. CASE Rebackup(a)
  <2>1. r.got \in Files BY <1>0, <1>5 DEF AgentFits, Rebackup, At
  <2>2. Goto(a, "restore") \/ Leave(a) \/ ag' = [ag EXCEPT ![a].pc = "restore", ![a].got = None]
    BY <1>5 DEF Rebackup
  <2>3. AgentFits([r EXCEPT !.pc = "restore", !.got = None])
    BY <1>0, SshHands DEF AgentFits, AgentType, Places
  <2>4. ag' = [b \in Agents |-> ag'[b]] /\ \A b \in Agents : AgentFits(ag'[b])
    BY <2>2, <2>3, Moved, Left, Placed, "restore" \in Places DEF Places
  <2>5. Rest' BY <1>0, <1>5, <2>1 DEF Rest, Rebackup
  <2> QED BY <2>4, <2>5, AgTypes
<1>6. CASE Restore(a)
  <2>1. \/ Goto(a, "unlink") \/ Goto(a, "sshdrop") \/ Leave(a) \/ ag' = [ag EXCEPT ![a].got = None]
    BY <1>6 DEF Restore, AfterFile
  <2>2. r.pc = "restore" BY <1>6 DEF Restore, At
  <2>3. AgentFits([r EXCEPT !.got = None])
    BY <1>0, <2>2 DEF AgentFits, AgentType, Places
  <2>4. ag' = [b \in Agents |-> ag'[b]] /\ \A b \in Agents : AgentFits(ag'[b])
    BY <2>1, <2>3, Moved, Left, Placed, "unlink" \in Places, "sshdrop" \in Places DEF Places
  <2>5. file' \in {bak, None, file} \/ (file # None /\ file' = Without(file)) BY <1>6 DEF Restore
  <2>6. file' \in Files \cup {None} BY <1>0, <2>5, FileIs DEF Rest
  <2>7. Rest' BY <1>0, <1>6, <2>6 DEF Rest, Restore
  <2> QED BY <2>4, <2>7, AgTypes
<1>7. CASE Unlink(a)
  <2>1. Goto(a, "sshdrop") \/ Leave(a) BY <1>7 DEF Unlink, AfterFile
  <2>2. ag' = [b \in Agents |-> ag'[b]] /\ \A b \in Agents : AgentFits(ag'[b])
    BY <2>1, Left, Placed, "sshdrop" \in Places DEF Places
  <2>3. Rest' BY <1>0, <1>7 DEF Rest, Unlink
  <2> QED BY <2>2, <2>3, AgTypes
<1>8. CASE DropSsh(a)
  <2>1. Leave(a) /\ UNCHANGED <<git, file, bak, mine>> /\ (snap' = [snap EXCEPT !["ssh"] = None] \/ UNCHANGED snap)
    BY <1>8 DEF DropSsh
  <2>2. Rest' BY <1>0, <2>1, SnapIs DEF Rest
  <2> QED BY <2>1, <2>2, Left, AgTypes
<1> QED BY <1>1, <1>2, <1>3, <1>4, <1>5, <1>6, <1>7, <1>8 DEF SshStep

LEMMA CommandTypes == ASSUME Types, NEW a \in Agents, Command(a) PROVE Types'
<1>0. Rest BY DEF Types, Rest
<1>1. PICK r : ag' = [ag EXCEPT ![a] = r] /\ AgentFits(r)
  <2>1. ASSUME NEW o \in Options, NEW force \in BOOLEAN, GitEnable(a, o, force) PROVE \E r : ag' = [ag EXCEPT ![a] = r] /\ AgentFits(r)
    <3> DEFINE r == [Idle EXCEPT !.pc = "unset", !.job = "enable", !.unset = Conflicts(git, o),
                             !.add = Additions(git, o), !.keys = GitSnap(git, o)]
    <3>1. ag' = [ag EXCEPT ![a] = r] BY <2>1 DEF GitEnable, Begin
    <3>2. AgentFits(r) BY EnableIs, IdleFits, <1>0 DEF Idle, AgentFits, AgentType, Places, Jobs, Rest
    <3> QED BY <3>1, <3>2
  <2>2. ASSUME NEW alias \in BOOLEAN, SshEnable(a, alias) PROVE \E r : ag' = [ag EXCEPT ![a] = r] /\ AgentFits(r)
    <3> DEFINE r == [Idle EXCEPT !.pc = IF file = None THEN "write" ELSE "backup", !.job = "enable",
                             !.put = WithBlock(file, alias), !.got = file]
    <3>1. ag' = [ag EXCEPT ![a] = r] BY <2>2 DEF SshEnable, Begin
    <3>2. WithBlock(file, alias) \in Files /\ (file # None => file \in Files) BY FileIs, <1>0 DEF Rest
    <3>3. AgentFits(r) BY IdleFits, <1>0, <3>2 DEF Idle, AgentFits, AgentType, Places, Jobs, Rest
    <3> QED BY <3>1, <3>3
  <2>3. ASSUME NEW job \in {"disable", "off"}, GitDisable(a, job) PROVE \E r : ag' = [ag EXCEPT ![a] = r] /\ AgentFits(r)
    <3> DEFINE r == [Idle EXCEPT !.pc = "gitload", !.job = job]
    <3>1. ag' = [ag EXCEPT ![a] = r] BY <2>3 DEF GitDisable, Begin
    <3>2. AgentFits(r) BY IdleFits DEF Idle, AgentFits, AgentType, Places, Jobs
    <3> QED BY <3>1, <3>2
  <2>4. ASSUME NEW job \in {"disable", "dry"}, SshDisable(a, job) PROVE \E r : ag' = [ag EXCEPT ![a] = r] /\ AgentFits(r)
    <3> DEFINE r == [Idle EXCEPT !.pc = "sshload", !.job = job]
    <3>1. ag' = [ag EXCEPT ![a] = r] BY <2>4 DEF SshDisable, Begin
    <3>2. AgentFits(r) BY IdleFits DEF Idle, AgentFits, AgentType, Places, Jobs
    <3> QED BY <3>1, <3>2
  <2> QED BY <2>1, <2>2, <2>3, <2>4 DEF Command
<1>2. UNCHANGED <<git, file, bak, snap, mine>> BY DEF Command, GitEnable, SshEnable, GitDisable, SshDisable
<1> QED BY <1>1, <1>2, RestKept, Moved, AgTypes

LEMMA InitTypes == Init => Types
<1> SUFFICES ASSUME Init PROVE Types OBVIOUS
<1>1. Rest
  <2>1. git \in Configs /\ file \in Files \cup {None} BY ManagedAssumption, ConfigAssumption DEF Init
  <2>2. TextOf(file) \in Texts BY <2>1, FileIs
  <2> QED BY <2>1, <2>2 DEF Init, Rest
<1>2. ag = [a \in Agents |-> Idle] BY DEF Init
<1> QED BY <1>1, <1>2, IdleFits DEF Types, Rest

LEMMA TypesStep == ASSUME Types, [Next]_vars PROVE Types'
<1>1. CASE Edit
  <2>1. file \in Files BY <1>1 DEF Edit, Types, Texts
  <2>2. file' \in Files BY <1>1, <2>1 DEF Edit, Files, Texts
  <2>5. mine' \in [git : Configs, text : Texts] BY <1>1 DEF Edit, Types, Texts
  <2>3. UNCHANGED <<git, bak, snap, ag>> BY <1>1 DEF Edit
  <2>4. Rest' BY <2>2, <2>3, <2>5 DEF Types, Rest
  <2> QED BY <2>3, <2>4, AgTypes DEF Types
<1>2. ASSUME NEW a \in Agents, Crash(a) PROVE Types'
  <2>1. Rest' BY <1>2, RestKept DEF Crash
  <2> QED BY <1>2, <2>1, Left, AgTypes DEF Crash
<1>3. CASE UNCHANGED vars BY <1>3 DEF vars, Types, AgentFits, AgentType
<1> QED BY <1>1, <1>2, <1>3, GitStepTypes, SshStepTypes, CommandTypes DEF Next

-----------------------------------------------------------------------------
(* Other rewrites stay                                                     *)

\* What happened is not forgotten.
LEMMA SeenGrows == ASSUME [Next]_vars PROVE seen \subseteq seen'
<1>1. ASSUME NEW a \in Agents, GitStep(a) PROVE seen \subseteq seen'
  <2>1. CASE Unset(a) BY <2>1 DEF Unset, EndsHalf
  <2>2. CASE Add(a) BY <2>2 DEF Add, EndsHalf
  <2>3. CASE SaveGit(a) BY <2>3 DEF SaveGit, EndsHalf
  <2>4. CASE GitLoad(a) BY <2>4 DEF GitLoad, Failed
  <2>5. CASE Clear(a) BY <2>5 DEF Clear
  <2>6. CASE ReAdd(a) BY <2>6 DEF ReAdd, Failed
  <2>7. CASE DropGit(a) BY <2>7 DEF DropGit, Failed
  <2> QED BY <1>1, <2>1, <2>2, <2>3, <2>4, <2>5, <2>6, <2>7 DEF GitStep
<1>2. ASSUME NEW a \in Agents, SshStep(a) PROVE seen' = seen
  <2>1. CASE Backup(a) BY <2>1 DEF Backup, Failed
  <2>2. CASE WriteFile(a) BY <2>2 DEF WriteFile, Failed
  <2>3. CASE SaveSsh(a) BY <2>3 DEF SaveSsh, Failed
  <2>4. CASE SshLoad(a) BY <2>4 DEF SshLoad, Failed
  <2>5. CASE Rebackup(a) BY <2>5 DEF Rebackup, Failed
  <2>6. CASE Restore(a) BY <2>6 DEF Restore, Failed
  <2>7. CASE Unlink(a) BY <2>7 DEF Unlink, Failed
  <2>8. CASE DropSsh(a) BY <2>8 DEF DropSsh, Failed
  <2> QED BY <1>2, <2>1, <2>2, <2>3, <2>4, <2>5, <2>6, <2>7, <2>8 DEF SshStep
<1>3. ASSUME NEW a \in Agents, Command(a) PROVE seen \subseteq seen'
  BY <1>3 DEF Command, GitEnable, SshEnable, GitDisable, SshDisable, Note
<1>4. CASE Edit BY <1>4 DEF Edit
<1>5. ASSUME NEW a \in Agents, Crash(a) PROVE seen \subseteq seen' BY <1>5 DEF Crash, EndsHalf
<1>6. CASE UNCHANGED vars BY <1>6 DEF vars
<1> QED BY <1>1, <1>2, <1>3, <1>4, <1>5, <1>6 DEF Next

\* The user's keys without GHydra are what they were.
LEMMA MineKept == ASSUME Types, [Next]_vars PROVE mine'.git = mine.git
<1>1. ASSUME NEW a \in Agents, GitStep(a) \/ SshStep(a) \/ Command(a) \/ Crash(a) PROVE mine' = mine
  BY <1>1 DEF GitStep, Unset, Add, SaveGit, GitLoad, Clear, ReAdd, DropGit,
              SshStep, Backup, WriteFile, SaveSsh, SshLoad, Rebackup, Restore, Unlink, DropSsh,
              Command, GitEnable, SshEnable, GitDisable, SshDisable, Crash
<1>2. CASE Edit BY <1>2 DEF Edit, Types
<1> QED BY <1>1, <1>2 DEF Next, vars

\* An agent that only moves to another place, or has left.
Aside(r) == r.pc \notin {"unset", "clear"}

LEMMA AsideIs ==
    ASSUME Types, NEW a \in Agents, NEW l \in Places \ {"unset", "clear"}, Goto(a, l) \/ Leave(a) \/ GitDone(a)
    PROVE  Aside(ag'[a]) /\ \A b \in Agents \ {a} : ag'[b] = ag[b]
<1>1. ag = [b \in Agents |-> ag[b]] BY DEF Types
<1>2. [ag[a] EXCEPT !.pc = l].pc = l
  <2>1. ag[a] \in AgentType BY DEF Types, AgentFits
  <2> QED BY <2>1 DEF AgentType
<1>3. CASE Goto(a, l)
  <2>1. ag' = [ag EXCEPT ![a] = [ag[a] EXCEPT !.pc = l]] BY <1>3 DEF Goto
  <2>2. ag'[a] = [ag[a] EXCEPT !.pc = l] /\ \A b \in Agents \ {a} : ag'[b] = ag[b] BY <1>1, <2>1
  <2> QED BY <2>2, <1>2 DEF Aside
<1>4. CASE Leave(a) \/ GitDone(a)
  <2>1. Aside(Idle) /\ Aside([Idle EXCEPT !.pc = "sshload", !.job = "off"]) BY DEF Idle, Aside
  <2> HIDE DEF Aside
  <2> QED BY <1>1, <1>4, <2>1 DEF Leave, GitDone
<1> QED BY <1>3, <1>4

\* The steps for ssh: the agent stays away from the git keys.
LEMMA SshAside ==
    ASSUME Types, NEW a \in Agents, SshStep(a)
    PROVE  /\ Aside(ag[a]) /\ Aside(ag'[a]) /\ \A b \in Agents \ {a} : ag'[b] = ag[b]
           /\ git' = git /\ snap'["git"] = snap["git"] /\ back' \cap {"git"} = back \cap {"git"}
<1>0. ag = [b \in Agents |-> ag[b]] /\ ag[a] \in AgentType BY DEF Types, AgentFits
<1> DEFINE Done == Aside(ag'[a]) /\ \A b \in Agents \ {a} : ag'[b] = ag[b]
<1>1. CASE Backup(a)
  <2>1. Done BY <1>1, AsideIs, "write" \in Places \ {"unset", "clear"} DEF Backup, Places
  <2> QED BY <1>1, <2>1 DEF Backup, At, Aside
<1>2. CASE WriteFile(a)
  <2>1. Done BY <1>2, AsideIs, "sshsave" \in Places \ {"unset", "clear"} DEF WriteFile, Places
  <2> QED BY <1>2, <2>1 DEF WriteFile, At, Aside
<1>3. CASE SaveSsh(a)
  <2>1. Done BY <1>3, AsideIs, "idle" \in Places \ {"unset", "clear"} DEF SaveSsh, Places
  <2>2. snap'["git"] = snap["git"] BY <1>3 DEF SaveSsh, Types
  <2> QED BY <1>3, <2>1, <2>2 DEF SaveSsh, At, Aside
<1>4. CASE SshLoad(a)
  <2>1. Done
    <3>1. CASE ag' = [ag EXCEPT ![a].pc = "rebackup", ![a].got = snap["ssh"]]
      BY <3>1, <1>0 DEF Aside, AgentType
    <3>2. CASE Goto(a, "restore") \/ Leave(a)
      BY <3>2, AsideIs, "restore" \in Places \ {"unset", "clear"} DEF Places
    <3> QED BY <1>4, <3>1, <3>2 DEF SshLoad
  <2> QED BY <1>4, <2>1 DEF SshLoad, At, Aside
<1>5. CASE Rebackup(a)
  <2>1. Done
    <3>1. CASE ag' = [ag EXCEPT ![a].pc = "restore", ![a].got = None]
      BY <3>1, <1>0 DEF Aside, AgentType
    <3>2. CASE Goto(a, "restore") \/ Leave(a)
      BY <3>2, AsideIs, "restore" \in Places \ {"unset", "clear"} DEF Places
    <3> QED BY <1>5, <3>1, <3>2 DEF Rebackup
  <2> QED BY <1>5, <2>1 DEF Rebackup, At, Aside
<1>6. CASE Restore(a)
  <2>1. Done
    <3>1. CASE ag' = [ag EXCEPT ![a].got = None]
      BY <3>1, <1>0, <1>6 DEF Aside, AgentType, Restore, At
    <3>2. CASE Goto(a, "unlink") \/ Goto(a, "sshdrop") \/ Leave(a)
      BY <3>2, AsideIs, "unlink" \in Places \ {"unset", "clear"}, "sshdrop" \in Places \ {"unset", "clear"} DEF Places
    <3> QED BY <1>6, <3>1, <3>2 DEF Restore, AfterFile
  <2> QED BY <1>6, <2>1 DEF Restore, AfterFile, At, Aside
<1>7. CASE Unlink(a)
  <2>1. Done BY <1>7, AsideIs, "sshdrop" \in Places \ {"unset", "clear"} DEF Unlink, AfterFile, Places
  <2> QED BY <1>7, <2>1 DEF Unlink, AfterFile, At, Aside
<1>8. CASE DropSsh(a)
  <2>1. Done BY <1>8, AsideIs, "idle" \in Places \ {"unset", "clear"} DEF DropSsh, Places
  <2>2. snap'["git"] = snap["git"] BY <1>8 DEF DropSsh, Types
  <2> QED BY <1>8, <2>1, <2>2 DEF DropSsh, At, Aside
<1> QED BY <1>1, <1>2, <1>3, <1>4, <1>5, <1>6, <1>7, <1>8 DEF SshStep

LEMMA ForeignMoved ==
    ASSUME Foreign, NEW a \in Agents, mine'.git = mine.git,
           \A n \in Names : ToSet(mine.git[n]) \subseteq ToSet(git'[n]) \cup {OursOf(n)},
           snap'["git"] # None => \A n \in snap'["git"].written : Free(n),
           TakesOurs(ag'[a]), \A b \in Agents \ {a} : ag'[b] = ag[b]
    PROVE  Foreign'
BY DEF Foreign, TakesOurs, Free

LEMMA GitStepForeign ==
    ASSUME Types, Foreign, NEW a \in Agents, GitStep(a), mine'.git = mine.git
    PROVE  Foreign'
<1> DEFINE r == ag[a]
<1>0. /\ AgentFits(r) /\ git \in Configs /\ TakesOurs(r)
      /\ ag = [b \in Agents |-> ag[b]] /\ r \in AgentType
  BY DEF Types, AgentFits, Foreign
<1>1. CASE Unset(a) BY <1>0, <1>1 DEF Unset, TakesOurs, At
<1>2. CASE Add(a)
  <2> DEFINE n == Head(r.add)
  <2>1. \/ git' = [git EXCEPT ![n] = Append(@, OursOf(n))] /\ ag' = [ag EXCEPT ![a].add = Tail(@)]
        \/ Leave(a) /\ UNCHANGED git
    BY <1>2 DEF Add
  <2>2. r.add \in Seq(Wanted) /\ r.add # <<>> BY <1>0, <1>2 DEF AgentType, Add
  <2>3. n \in Wanted BY <2>2, HeadTailSet
  <2>4. n \in Names /\ OursOf(n) \in Values BY <2>3, NamesAre DEF Values
  <2> HIDE DEF n
  <2>5. TakesOurs(ag'[a]) /\ \A b \in Agents \ {a} : ag'[b] = ag[b]
    <3>1. CASE ag' = [ag EXCEPT ![a].add = Tail(@)]
      BY <3>1, <1>0 DEF AgentType, TakesOurs
    <3>2. CASE Leave(a) BY <3>2, AsideIs, "idle" \in Places \ {"unset", "clear"} DEF Aside, TakesOurs, Places
    <3> QED BY <2>1, <3>1, <3>2
  <2>6. \A m \in Names : ToSet(git[m]) \subseteq ToSet(git'[m]) BY <2>1, <2>4, GitTypes
  <2>7. snap' = snap BY <1>2 DEF Add
  <2> QED BY <2>5, <2>6, <2>7, ForeignMoved DEF Foreign
<1>3. CASE SaveGit(a)
  <2>1. Leave(a) /\ git' = git /\ (snap' = [snap EXCEPT !["git"] = r.keys] \/ snap' = snap) /\ r.pc = "unset"
    BY <1>3 DEF SaveGit, At
  <2>2. TakesOurs(ag'[a]) /\ \A b \in Agents \ {a} : ag'[b] = ag[b]
    BY <2>1, AsideIs, "idle" \in Places \ {"unset", "clear"} DEF Aside, TakesOurs, Places
  <2>3. snap'["git"] # None => \A n \in snap'["git"].written : Free(n)
    BY <2>1, <1>0, SnapIs DEF Foreign, TakesOurs
  <2> QED BY <2>1, <2>2, <2>3, ForeignMoved DEF Foreign
<1>4. CASE GitLoad(a)
  <2>1. TakesOurs(ag'[a]) /\ \A b \in Agents \ {a} : ag'[b] = ag[b]
    <3>1. CASE snap["git"] # None /\ ag' = [ag EXCEPT ![a].pc = "clear", ![a].keys = snap["git"],
                                                  ![a].unset = snap["git"].written]
      <4>1. ag'[a].pc = "clear" /\ ag'[a].unset = snap["git"].written /\ \A b \in Agents \ {a} : ag'[b] = ag[b]
        BY <3>1, <1>0 DEF AgentType
      <4> QED BY <4>1, <3>1 DEF TakesOurs, Foreign
    <3>2. CASE GitDone(a) BY <3>2, AsideIs, "idle" \in Places \ {"unset", "clear"} DEF Aside, TakesOurs, Places
    <3> QED BY <1>4, <3>1, <3>2 DEF GitLoad
  <2>2. git' = git /\ snap' = snap BY <1>4 DEF GitLoad
  <2> QED BY <2>1, <2>2, ForeignMoved DEF Foreign
<1>5. CASE Clear(a)
  <2>1. PICK n \in r.unset : /\ ag' = [ag EXCEPT ![a].unset = @ \ {n}]
                             /\ git' = [git EXCEPT ![n] = <<>>] \/ UNCHANGED git
    BY <1>5 DEF Clear
  <2>2. n \in Names /\ Free(n) BY <1>0, <1>5 DEF AgentType, TakesOurs, Clear, At
  <2>3. TakesOurs(ag'[a]) /\ \A b \in Agents \ {a} : ag'[b] = ag[b]
    BY <2>1, <1>0 DEF AgentType, TakesOurs
  <2>4. \A m \in Names : ToSet(mine.git[m]) \subseteq ToSet(git'[m]) \cup {OursOf(m)}
    BY <2>1, <2>2, GitCleared DEF Foreign, Free
  <2>5. snap' = snap BY <1>5 DEF Clear
  <2> QED BY <2>3, <2>4, <2>5, ForeignMoved DEF Foreign
<1>6. CASE ReAdd(a)
  <2> DEFINE left(n) == IF r.vals # <<>> THEN r.vals ELSE r.keys.prior[n]
  <2>1. PICK n \in Names :
           /\ IF r.vals # <<>> THEN n = r.name ELSE r.keys.prior[n] # <<>>
           /\ \/ /\ git' = [git EXCEPT ![n] = Append(@, Head(left(n)))]
                 /\ ag' = [ag EXCEPT ![a].name = n, ![a].vals = Tail(left(n)), ![a].keys.prior[n] = <<>>]
              \/ GitDone(a) /\ UNCHANGED git
    BY <1>6 DEF ReAdd
  <2>2. r.keys \in Snapshots /\ r.unset = {} BY <1>0, <1>6 DEF AgentFits, ReAdd, At
  <2>3. r.vals \in Seq(Values) /\ r.keys.prior \in Configs BY <1>0, <2>2 DEF AgentType, Snapshots
  <2>4. left(n) \in Seq(Values) /\ left(n) # <<>> BY <2>1, <2>3 DEF Configs
  <2> HIDE DEF left
  <2>5. Head(left(n)) \in Values BY <2>4, HeadTailSet
  <2>6. TakesOurs(ag'[a]) /\ \A b \in Agents \ {a} : ag'[b] = ag[b]
    <3>1. CASE ag' = [ag EXCEPT ![a].name = n, ![a].vals = Tail(left(n)), ![a].keys.prior[n] = <<>>]
      <4>1. ag'[a].pc = r.pc /\ ag'[a].unset = {} /\ \A b \in Agents \ {a} : ag'[b] = ag[b]
        BY <3>1, <1>0, <2>2 DEF AgentType
      <4>2. r.pc = "clear" BY <1>6 DEF ReAdd, At
      <4> QED BY <4>1, <4>2 DEF TakesOurs
    <3>2. CASE GitDone(a) BY <3>2, AsideIs, "idle" \in Places \ {"unset", "clear"} DEF Aside, TakesOurs, Places
    <3> QED BY <2>1, <3>1, <3>2
  <2>7. \A m \in Names : ToSet(git[m]) \subseteq ToSet(git'[m]) BY <2>1, <2>5, GitTypes
  <2>8. snap' = snap BY <1>6 DEF ReAdd
  <2> QED BY <2>6, <2>7, <2>8, ForeignMoved DEF Foreign
<1>7. CASE DropGit(a)
  <2>1. GitDone(a) /\ git' = git /\ (snap' = [snap EXCEPT !["git"] = None] \/ snap' = snap)
    BY <1>7 DEF DropGit
  <2>2. TakesOurs(ag'[a]) /\ \A b \in Agents \ {a} : ag'[b] = ag[b]
    BY <2>1, AsideIs, "idle" \in Places \ {"unset", "clear"} DEF Aside, TakesOurs, Places
  <2> QED BY <2>1, <2>2, SnapIs, ForeignMoved DEF Foreign
<1> QED BY <1>1, <1>2, <1>3, <1>4, <1>5, <1>6, <1>7 DEF GitStep

\* What a command begins with.
LEMMA CommandIs ==
    ASSUME Types, NEW a \in Agents, Command(a)
    PROVE  /\ \A b \in Agents \ {a} : ag'[b] = ag[b]
           /\ git' = git /\ snap' = snap /\ back' \cap {"git"} \subseteq back
           /\ ag[a].pc = "idle" /\ (Busy => "overlap" \in seen')
           /\ \/ Aside(ag'[a])
              \/ \E o \in Options :
                    /\ Conflicts(git, o) # {} => "force" \in seen' /\ (OwnKeys => "over" \in seen')
                    /\ "git" \notin back'
                    /\ ag'[a] = [Idle EXCEPT !.pc = "unset", !.job = "enable", !.unset = Conflicts(git, o),
                                             !.add = Additions(git, o), !.keys = GitSnap(git, o)]
<1>0. ag = [b \in Agents |-> ag[b]] BY DEF Types
<1>1. ASSUME NEW o \in Options, NEW force \in BOOLEAN, GitEnable(a, o, force)
      PROVE  /\ Conflicts(git, o) # {} => "force" \in seen' /\ (OwnKeys => "over" \in seen')
             /\ "git" \notin back'
             /\ ag'[a] = [Idle EXCEPT !.pc = "unset", !.job = "enable", !.unset = Conflicts(git, o),
                                      !.add = Additions(git, o), !.keys = GitSnap(git, o)]
  BY <1>0, <1>1 DEF GitEnable, Begin, Note
<1>2. ASSUME NEW alias \in BOOLEAN, SshEnable(a, alias) PROVE Aside(ag'[a])
  <2>1. ag'[a] = [Idle EXCEPT !.pc = IF file = None THEN "write" ELSE "backup", !.job = "enable",
                             !.put = WithBlock(file, alias), !.got = file]
    BY <1>0, <1>2 DEF SshEnable, Begin
  <2> QED BY <2>1 DEF Idle, Aside
<1>3. ASSUME NEW job, GitDisable(a, job) \/ SshDisable(a, job) PROVE Aside(ag'[a])
  <2>1. ag'[a] = [Idle EXCEPT !.pc = "gitload", !.job = job] \/ ag'[a] = [Idle EXCEPT !.pc = "sshload", !.job = job]
    BY <1>0, <1>3 DEF GitDisable, SshDisable, Begin
  <2> QED BY <2>1 DEF Idle, Aside
<1>4. /\ \A b \in Agents \ {a} : ag'[b] = ag[b]
      /\ git' = git /\ snap' = snap /\ back' \cap {"git"} \subseteq back
      /\ ag[a].pc = "idle" /\ (Busy => "overlap" \in seen')
  BY <1>0 DEF Command, GitEnable, SshEnable, GitDisable, SshDisable, Begin, Note, At
<1> QED BY <1>1, <1>2, <1>3, <1>4 DEF Command

\* A name without a conflict holds nothing or our value.
LEMMA NoConflict ==
    ASSUME git \in Configs, NEW o \in Options
    PROVE  /\ \A n \in DesiredNames(o) \ Conflicts(git, o) : ToSet(git[n]) \subseteq {OursOf(n)}
           /\ \A n \in Names \ (DesiredNames(o) \cup Conflicts(git, o)) : ToSet(git[n]) \cap Sources = {}
<1>1. \A n \in DesiredNames(o) \ Conflicts(git, o) : git[n] \in {<<>>, <<OursOf(n)>>}
  BY DEF Conflicts, Occupied
<1> QED BY <1>1, SmallSets DEF Conflicts, Rewriters

LEMMA ForeignStep == ASSUME Types, ForeignInv, [Next]_vars PROVE ForeignInv'
<1> SUFFICES ASSUME "force" \notin seen' PROVE Foreign' BY DEF ForeignInv
<1>0. Foreign /\ mine'.git = mine.git BY SeenGrows, MineKept DEF ForeignInv
<1>1. ASSUME NEW a \in Agents, SshStep(a) PROVE Foreign'
  BY <1>0, <1>1, SshAside, ForeignMoved DEF Foreign, Aside, TakesOurs
<1>2. ASSUME NEW a \in Agents, Command(a) PROVE Foreign'
  <2>1. TakesOurs(ag'[a])
    <3>1. CASE Aside(ag'[a]) BY <3>1 DEF Aside, TakesOurs
    <3>2. ASSUME NEW o \in Options, Conflicts(git, o) = {},
                 ag'[a] = [Idle EXCEPT !.pc = "unset", !.job = "enable", !.unset = Conflicts(git, o),
                                       !.add = Additions(git, o), !.keys = GitSnap(git, o)]
          PROVE  TakesOurs(ag'[a])
      <4>1. git \in Configs BY DEF Types
      <4>2. ag'[a].pc = "unset" /\ ag'[a].unset = {} /\ ag'[a].keys.written = DesiredNames(o)
        BY <3>2, <4>1, EnableIs DEF Idle
      <4>3. \A n \in DesiredNames(o) : n \in Names /\ ToSet(git[n]) \subseteq {OursOf(n)}
        BY <3>2, <4>1, NoConflict, DesiredIs, NamesAre
      <4>4. \A n \in DesiredNames(o) : Free(n) BY <4>3, <1>0 DEF Foreign, Free
      <4> QED BY <4>2, <4>4 DEF TakesOurs
    <3> QED BY <1>2, <3>1, <3>2, CommandIs
  <2> QED BY <2>1, <1>0, <1>2, CommandIs, ForeignMoved DEF Foreign
<1>3. CASE Edit
  <2>1. UNCHANGED <<git, snap, ag>> BY <1>3 DEF Edit
  <2> QED BY <1>0, <2>1 DEF Foreign, TakesOurs, Free
<1>4. ASSUME NEW a \in Agents, Crash(a) PROVE Foreign'
  <2>1. Leave(a) /\ git' = git /\ snap' = snap BY <1>4 DEF Crash
  <2>2. TakesOurs(ag'[a]) /\ \A b \in Agents \ {a} : ag'[b] = ag[b]
    BY <2>1, AsideIs, "idle" \in Places \ {"unset", "clear"} DEF Aside, TakesOurs, Places
  <2> QED BY <1>0, <2>1, <2>2, ForeignMoved DEF Foreign
<1>5. CASE UNCHANGED vars BY <1>0, <1>5 DEF vars, Foreign, TakesOurs, Free
<1> QED BY <1>0, <1>1, <1>2, <1>3, <1>4, <1>5, GitStepForeign DEF Next

\* Whatever overlaps, fails or dies, a rewrite of the user's that is not GHydra's own value stays
\* in the global git configuration until an enable --force is told to take it away: the names a snapshot
\* clears on disable (gitcfg.go Disable clears every desired name, written or not) held
\* nothing else when it was made.
THEOREM OthersKept == Spec => []ForeignKept
<1> DEFINE Inv == Types /\ ForeignInv
<1>1. Init => Inv
  <2> SUFFICES ASSUME Init PROVE ForeignInv BY InitTypes
  <2>1. \A a \in Agents : ag[a].pc = "idle" BY DEF Init, Idle
  <2>2. mine.git = git /\ snap["git"] = None BY DEF Init
  <2> QED BY <2>1, <2>2 DEF ForeignInv, Foreign, TakesOurs
<1>2. Inv /\ [Next]_vars => Inv' BY TypesStep, ForeignStep
<1>3. Inv => ForeignKept BY DEF ForeignInv, Foreign, ForeignKept
<1> QED BY <1>1, <1>2, <1>3, PTL DEF Spec

-----------------------------------------------------------------------------
(* The git keys come back                                                  *)

\* The steps for git leave the ssh file alone.
LEMMA GitAside ==
    ASSUME Types, NEW a \in Agents, GitStep(a)
    PROVE  /\ ag[a].pc \in {"unset", "gitload", "clear"} /\ ag'[a].pc \in {"idle", "unset", "clear", "sshload"}
           /\ \A b \in Agents \ {a} : ag'[b] = ag[b]
           /\ UNCHANGED <<file, bak, mine>> /\ snap'["ssh"] = snap["ssh"]
           /\ back' \cap {"ssh"} = back \cap {"ssh"}
<1>0. ag = [b \in Agents |-> ag[b]] /\ ag[a] \in AgentType BY DEF Types, AgentFits
<1>1. ASSUME Leave(a) \/ GitDone(a)
      PROVE  ag'[a].pc \in {"idle", "sshload"} /\ \A b \in Agents \ {a} : ag'[b] = ag[b]
  <2>1. Idle.pc = "idle" /\ [Idle EXCEPT !.pc = "sshload", !.job = "off"].pc = "sshload" BY DEF Idle
  <2> QED BY <1>0, <1>1, <2>1 DEF Leave, GitDone
<1>2. CASE Unset(a)
  <2>1. CASE Leave(a) BY <2>1, <1>1, <1>2 DEF Unset, At
  <2>2. CASE ~Leave(a) BY <2>2, <1>0, <1>2 DEF Unset, At, AgentType
  <2> QED BY <2>1, <2>2
<1>3. CASE Add(a)
  <2>1. CASE Leave(a) BY <2>1, <1>1, <1>3 DEF Add, At
  <2>2. CASE ~Leave(a) BY <2>2, <1>0, <1>3 DEF Add, At, AgentType
  <2> QED BY <2>1, <2>2
<1>4. CASE SaveGit(a)
  <2>1. snap'["ssh"] = snap["ssh"] BY <1>4 DEF SaveGit, Types
  <2> QED BY <2>1, <1>1, <1>4 DEF SaveGit, At
<1>5. CASE GitLoad(a)
  <2>1. CASE GitDone(a) BY <2>1, <1>1, <1>5 DEF GitLoad, At
  <2>2. CASE ~GitDone(a) BY <2>2, <1>0, <1>5 DEF GitLoad, At, AgentType
  <2> QED BY <2>1, <2>2
<1>6. CASE Clear(a) BY <1>0, <1>6 DEF Clear, At, AgentType
<1>7. CASE ReAdd(a)
  <2>1. CASE GitDone(a) BY <2>1, <1>1, <1>7 DEF ReAdd, At
  <2>2. CASE ~GitDone(a) BY <2>2, <1>0, <1>7 DEF ReAdd, At, AgentType
  <2> QED BY <2>1, <2>2
<1>8. CASE DropGit(a)
  <2>1. snap'["ssh"] = snap["ssh"] BY <1>8 DEF DropGit, Types
  <2> QED BY <2>1, <1>1, <1>8 DEF DropGit, At
<1> QED BY <1>2, <1>3, <1>4, <1>5, <1>6, <1>7, <1>8 DEF GitStep

LEMMA SshBusy == ASSUME NEW a, SshStep(a) PROVE ag[a].pc # "idle"
BY DEF SshStep, Backup, WriteFile, SaveSsh, SshLoad, Rebackup, Restore, Unlink, DropSsh, At

LEMMA CrashIs ==
    ASSUME Types, NEW a \in Agents, Crash(a)
    PROVE  /\ ag[a].pc # "idle" /\ ag'[a].pc = "idle" /\ \A b \in Agents \ {a} : ag'[b] = ag[b]
           /\ UNCHANGED <<git, file, bak, snap, mine, back>>
<1>1. Idle.pc = "idle" BY DEF Idle
<1> QED BY <1>1 DEF Crash, Leave, At, Types

LEMMA AloneStep == ASSUME Types, Alone, [Next]_vars PROVE Alone'
<1> SUFFICES ASSUME "overlap" \notin seen' PROVE \A a, b \in Agents : At(a, "idle")' \/ At(b, "idle")' \/ a = b
  BY DEF Alone
<1>0. \A a, b \in Agents : At(a, "idle") \/ At(b, "idle") \/ a = b BY SeenGrows DEF Alone
<1>1. ASSUME NEW a \in Agents, ag[a].pc # "idle", \A b \in Agents \ {a} : ag'[b] = ag[b]
      PROVE  \A c, b \in Agents : At(c, "idle")' \/ At(b, "idle")' \/ c = b
  BY <1>0, <1>1 DEF At
<1>2. ASSUME NEW a \in Agents, GitStep(a) \/ SshStep(a) \/ Crash(a)
      PROVE  ag[a].pc # "idle" /\ \A b \in Agents \ {a} : ag'[b] = ag[b]
  BY <1>2, GitAside, SshAside, SshBusy, CrashIs
<1>3. ASSUME NEW a \in Agents, Command(a) PROVE \A c, b \in Agents : At(c, "idle")' \/ At(b, "idle")' \/ c = b
  <2>1. ~Busy /\ \A b \in Agents \ {a} : ag'[b] = ag[b] BY <1>3, CommandIs
  <2>2. \A b \in Agents \ {a} : ag'[b].pc = "idle" BY <2>1 DEF Busy, At
  <2> QED BY <2>2 DEF At
<1>4. CASE UNCHANGED ag BY <1>0, <1>4 DEF At
<1>5. Edit \/ UNCHANGED vars => UNCHANGED ag BY DEF Edit, vars
<1> QED BY <1>1, <1>2, <1>3, <1>4, <1>5 DEF Next

\* Alone, an agent at work has the others idle.
LEMMA OthersIdle ==
    ASSUME Alone, "overlap" \notin seen, NEW a \in Agents, ag[a].pc # "idle"
    PROVE  \A b \in Agents \ {a} : ag[b].pc = "idle"
BY DEF Alone, At

LEMMA RestorableIs ==
    ASSUME NEW a \in Agents, \A b \in Agents \ {a} : ag'[b].pc = "idle",
           \A n \in Names : ToSet(git'[n]) \subseteq ToSet(mine'.git[n]) \cup {OursOf(n)},
           "git" \in back' => \A n \in Names : Returned(n)',
           ag'[a].pc = "unset" \/ (snap'["git"] = None
               /\ \A n \in Names : ToSet(mine'.git[n]) \subseteq ToSet(git'[n]) \cup {OursOf(n)})
           \/ (snap'["git"] # None /\ Covers(snap["git"])'),
           ag'[a].pc = "unset" => Taken(ag[a])',
           ag'[a].pc = "clear" => Giving(ag[a])'
    PROVE  Restorable'
<1>1. ~Enabling' \/ ag'[a].pc = "unset" BY DEF Enabling, At
<1>2. ~Enabling' => IF snap'["git"] = None
          THEN \A n \in Names : ToSet(mine'.git[n]) \subseteq ToSet(git'[n]) \cup {OursOf(n)}
          ELSE Covers(snap["git"])'
  BY DEF Enabling, At
<1>3. \A b \in Agents : At(b, "unset")' => Taken(ag[b])' BY DEF At
<1>4. \A b \in Agents : At(b, "clear")' => Giving(ag[b])' BY DEF At
<1> QED BY <1>2, <1>3, <1>4 DEF Restorable

\* The same keys, snapshot and history.
LEMMA CoversKept == ASSUME NEW k, Covers(k), UNCHANGED git, mine'.git = mine.git PROVE Covers(k)'
BY DEF Covers

\* Without a snapshot of anything nothing of the user's is missing.
LEMMA BareIs ==
    ASSUME NEW k, Covers(k), k.prior = NoKeys
    PROVE  \A n \in Names : ToSet(mine.git[n]) \subseteq ToSet(git[n]) \cup {OursOf(n)}
<1>1. \A n \in Names : ToSet(k.prior[n]) = {} BY SmallSets DEF NoKeys
<1> QED BY <1>1 DEF Covers

\* An agent that leaves the git keys alone.
LEMMA RestorableAside ==
    ASSUME Restorable, ~Enabling, NEW a \in Agents, \A b \in Agents \ {a} : ag'[b].pc = "idle",
           Aside(ag'[a]), git' = git, snap'["git"] = snap["git"], "git" \in back' => "git" \in back, mine'.git = mine.git
    PROVE  Restorable'
<1>1. \A n \in Names : ToSet(git'[n]) \subseteq ToSet(mine'.git[n]) \cup {OursOf(n)} BY DEF Restorable
<1>2. "git" \in back' => \A n \in Names : Returned(n)' BY DEF Restorable, Returned
<1>3. (snap'["git"] = None /\ \A n \in Names : ToSet(mine'.git[n]) \subseteq ToSet(git'[n]) \cup {OursOf(n)})
           \/ (snap'["git"] # None /\ Covers(snap["git"])')
  BY DEF Restorable, Covers
<1> QED BY <1>1, <1>2, <1>3, RestorableIs DEF Aside

\* An enable that ends before its snapshot is saved, and holds no keys.
LEMMA HalfIs ==
    ASSUME Types, Restorable, NEW a \in Agents, \A b \in Agents \ {a} : ag'[b].pc = "idle",
           At(a, "unset"), ~HoldsKeys(a), ag'[a].pc = "idle", mine'.git = mine.git, UNCHANGED <<git, snap, back>>
    PROVE  Restorable'
<1>1. snap["git"] = None /\ ag[a].keys.prior = NoKeys BY DEF HoldsKeys
<1>2. "git" \notin back /\ Covers(ag[a].keys) BY <1>1 DEF Restorable, Taken
<1>3. \A n \in Names : ToSet(mine.git[n]) \subseteq ToSet(git[n]) \cup {OursOf(n)} BY <1>1, <1>2, BareIs
<1>4. \A n \in Names : ToSet(git'[n]) \subseteq ToSet(mine'.git[n]) \cup {OursOf(n)} BY DEF Restorable
<1> QED BY <1>1, <1>2, <1>3, <1>4, RestorableIs

LEMMA LeaveIs == ASSUME Types, NEW a \in Agents, Leave(a) PROVE ag'[a].pc = "idle"
<1>1. Idle.pc = "idle" BY DEF Idle
<1> QED BY <1>1 DEF Leave, Types

LEMMA UnsetRestorable ==
    ASSUME Types, Restorable, NEW a \in Agents, \A b \in Agents \ {a} : ag'[b].pc = "idle",
           Unset(a), mine'.git = mine.git, "half" \notin seen'
    PROVE  Restorable'
<1> DEFINE r == ag[a]
<1>0. r \in AgentType /\ ag = [b \in Agents |-> ag[b]] /\ At(a, "unset") /\ r.pc = "unset"
  BY DEF Types, AgentFits, Unset, At
<1>1. CASE Leave(a) /\ EndsHalf(a) /\ UNCHANGED git
  <2>1. ~HoldsKeys(a) BY <1>1 DEF EndsHalf
  <2>2. UNCHANGED <<git, snap, back>> BY <1>1 DEF Unset
  <2> QED BY <1>0, <1>1, <2>1, <2>2, LeaveIs, HalfIs
<1>2. ASSUME NEW n \in r.unset, git' = [git EXCEPT ![n] = <<>>], ag' = [ag EXCEPT ![a].unset = @ \ {n}]
      PROVE  Restorable'
  <2>1. n \in Names BY <1>0 DEF AgentType
  <2>2. ToSet(git'[n]) = {} /\ \A m \in Names \ {n} : git'[m] = git[m] BY <2>1, <1>2, GitCleared
  <2>3. ag'[a].pc = "unset" /\ ag'[a].keys = r.keys /\ ag'[a].add = r.add /\ ag'[a].unset = r.unset \ {n}
    BY <1>0, <1>2 DEF AgentType
  <2>4. snap' = snap /\ back' = back BY DEF Unset
  <2>5. Taken(r) BY <1>0 DEF Restorable
  <2>6. CASE snap["git"] # None /\ snap["git"].prior # NoKeys
    <3>1. Taken(ag[a])' BY <2>3, <2>4, <2>5, <2>6 DEF Taken
    <3>2. \A m \in Names : ToSet(git'[m]) \subseteq ToSet(mine'.git[m]) \cup {OursOf(m)} BY <2>2 DEF Restorable
    <3> QED BY <3>1, <3>2, <2>3, <2>4, <2>5, RestorableIs DEF Taken
  <2>7. CASE Covers(r.keys) /\ \A m \in r.unset : ToSet(mine.git[m]) \subseteq ToSet(r.keys.prior[m]) \cup {OursOf(m)}
    <3>1. Covers(r.keys)' 
      <4>1. \A m \in Names \ {n} : git'[m] = git[m] BY <2>2
      <4> QED BY <2>2, <2>3, <2>7 DEF Covers
    <3>2. Taken(ag[a])' BY <2>3, <2>4, <2>5, <2>7, <3>1 DEF Taken, Covers
    <3>3. \A m \in Names : ToSet(git'[m]) \subseteq ToSet(mine'.git[m]) \cup {OursOf(m)} BY <2>2 DEF Restorable
    <3> QED BY <3>2, <3>3, <2>3, <2>4, <2>5, RestorableIs DEF Taken
  <2> QED BY <2>5, <2>6, <2>7 DEF Taken
<1> QED BY <1>1, <1>2 DEF Unset

LEMMA AddRestorable ==
    ASSUME Types, Restorable, NEW a \in Agents, \A b \in Agents \ {a} : ag'[b].pc = "idle",
           Add(a), mine'.git = mine.git, "half" \notin seen'
    PROVE  Restorable'
<1> DEFINE r == ag[a]
           n == Head(r.add)
<1>0. r \in AgentType /\ ag = [b \in Agents |-> ag[b]] /\ At(a, "unset") /\ r.pc = "unset" /\ r.keys \in Snapshots
  BY DEF Types, AgentFits, Add, At
<1>1. CASE Leave(a) /\ EndsHalf(a) /\ UNCHANGED git
  <2>1. ~HoldsKeys(a) BY <1>1 DEF EndsHalf
  <2>2. UNCHANGED <<git, snap, back>> BY <1>1 DEF Add
  <2> QED BY <1>0, <1>1, <2>1, <2>2, LeaveIs, HalfIs
<1>2. ASSUME git' = [git EXCEPT ![n] = Append(@, OursOf(n))], ag' = [ag EXCEPT ![a].add = Tail(@)]
      PROVE  Restorable'
  <2>5. Taken(r) BY <1>0 DEF Restorable
  <2>1. n \in r.keys.written /\ Tail(r.add) \in Seq(r.keys.written)
    BY <2>5, HeadTailSet DEF Taken, Add
  <2>8. n \in Wanted /\ n \in Names BY <1>0, <2>1 DEF Snapshots, Wanted
  <2> HIDE DEF n
  <2>2. ToSet(git'[n]) = ToSet(git[n]) \cup {OursOf(n)} /\ \A m \in Names \ {n} : git'[m] = git[m]
    BY <2>8, <1>2, GitTypes, NamesAre DEF Values
  <2>3. ag'[a].pc = "unset" /\ ag'[a].keys = r.keys /\ ag'[a].add = Tail(r.add) /\ ag'[a].unset = r.unset
    BY <1>0, <1>2 DEF AgentType
  <2>4. snap' = snap /\ back' = back BY DEF Add
  <2>6. \A m \in Names : ToSet(git'[m]) \subseteq ToSet(mine'.git[m]) \cup {OursOf(m)} BY <2>2 DEF Restorable
  <2>7. Taken(ag[a])'
    <3>1. CASE snap["git"] # None /\ snap["git"].prior # NoKeys
      BY <2>1, <2>3, <2>4, <2>5, <3>1 DEF Taken
    <3>2. CASE Covers(r.keys) /\ \A m \in r.unset : ToSet(mine.git[m]) \subseteq ToSet(r.keys.prior[m]) \cup {OursOf(m)}
      <4>1. Covers(r.keys)' BY <2>1, <2>2, <2>3, <3>2 DEF Covers
      <4> QED BY <2>1, <2>3, <2>4, <2>5, <3>2, <4>1 DEF Taken, Covers
    <3> QED BY <2>5, <3>1, <3>2 DEF Taken
  <2> QED BY <2>3, <2>4, <2>5, <2>6, <2>7, RestorableIs DEF Taken
<1> QED BY <1>1, <1>2 DEF Add

LEMMA SaveRestorable ==
    ASSUME Types, Restorable, NEW a \in Agents, \A b \in Agents \ {a} : ag'[b].pc = "idle",
           SaveGit(a), mine'.git = mine.git, "half" \notin seen', "over" \notin seen'
    PROVE  Restorable'
<1> DEFINE r == ag[a]
<1>0. At(a, "unset") /\ r.keys \in Snapshots /\ Leave(a) /\ git' = git /\ back' = back
  BY DEF Types, AgentFits, SaveGit, At
<1>1. CASE EndsHalf(a) /\ UNCHANGED snap
  <2>1. ~HoldsKeys(a) BY <1>1 DEF EndsHalf
  <2> QED BY <1>0, <1>1, <2>1, LeaveIs, HalfIs
<1>2. CASE snap' = [snap EXCEPT !["git"] = r.keys] /\ ~(snap["git"] # None /\ snap["git"].prior # NoKeys)
  <2>1. snap'["git"] = r.keys /\ r.keys # None BY <1>0, <1>2, SnapIs, ConfigAssumption
  <2>2. Covers(r.keys) /\ "git" \notin back BY <1>0, <1>2 DEF Restorable, Taken
  <2>3. Covers(snap["git"])' BY <2>1, <2>2, <1>0 DEF Covers
  <2>4. \A m \in Names : ToSet(git'[m]) \subseteq ToSet(mine'.git[m]) \cup {OursOf(m)} BY <1>0 DEF Restorable
  <2> QED BY <1>0, <2>1, <2>2, <2>3, <2>4, LeaveIs, RestorableIs
<1> QED BY <1>1, <1>2 DEF SaveGit

LEMMA LoadRestorable ==
    ASSUME Types, Restorable, NEW a \in Agents, \A b \in Agents \ {a} : ag'[b].pc = "idle", ~Enabling,
           GitLoad(a), mine'.git = mine.git
    PROVE  Restorable'
<1> DEFINE r == ag[a]
<1>0. r \in AgentType /\ ag = [b \in Agents |-> ag[b]] /\ r.pc = "gitload" /\ r.vals = <<>>
      /\ git' = git /\ snap' = snap /\ back' \subseteq back
  BY DEF Types, AgentFits, GitLoad, At
<1>1. CASE GitDone(a)
  BY <1>0, <1>1, AsideIs, "idle" \in Places \ {"unset", "clear"}, RestorableAside DEF Places
<1>2. CASE snap["git"] # None /\ back' = back \ {"git"}
           /\ ag' = [ag EXCEPT ![a].pc = "clear", ![a].keys = snap["git"], ![a].unset = snap["git"].written]
  <2>1. ag'[a].pc = "clear" /\ ag'[a].keys = snap["git"] /\ ag'[a].unset = snap["git"].written
        /\ ag'[a].vals = <<>>
    BY <1>0, <1>2 DEF AgentType
  <2>2. Covers(snap["git"]) BY <1>2 DEF Restorable
  <2>3. Giving(ag[a])' BY <1>0, <1>2, <2>1, <2>2, SmallSets DEF Giving, Covers
  <2>4. Covers(snap["git"])' BY <2>2, <1>0 DEF Covers
  <2>5. \A m \in Names : ToSet(git'[m]) \subseteq ToSet(mine'.git[m]) \cup {OursOf(m)} BY <1>0 DEF Restorable
  <2> QED BY <1>0, <1>2, <2>1, <2>3, <2>4, <2>5, RestorableIs
<1> QED BY <1>1, <1>2 DEF GitLoad

LEMMA ClearRestorable ==
    ASSUME Types, Restorable, NEW a \in Agents, \A b \in Agents \ {a} : ag'[b].pc = "idle", ~Enabling,
           Clear(a), mine'.git = mine.git, "kept" \notin seen'
    PROVE  Restorable'
<1> DEFINE r == ag[a]
<1>0. r \in AgentType /\ ag = [b \in Agents |-> ag[b]] /\ r.pc = "clear"
      /\ snap' = snap /\ back' = back
  BY DEF Types, AgentFits, Clear, At
<1>1. PICK n \in r.unset : ag' = [ag EXCEPT ![a].unset = @ \ {n}] /\ git' = [git EXCEPT ![n] = <<>>]
  BY DEF Clear
<1>2. n \in Names BY <1>0 DEF AgentType
<1>3. ToSet(git'[n]) = {} /\ \A m \in Names \ {n} : git'[m] = git[m] BY <1>1, <1>2, GitCleared
<1>4. /\ ag'[a].pc = "clear" /\ ag'[a].keys = r.keys /\ ag'[a].unset = r.unset \ {n}
      /\ ag'[a].vals = r.vals /\ ag'[a].name = r.name
  BY <1>0, <1>1 DEF AgentType
<1>5. Giving(r) /\ "git" \notin back BY <1>0 DEF Restorable, At, Giving
<1>6. Giving(ag[a])'
  <2>1. \A m \in Names :
          /\ ToSet(r.keys.prior[m]) \subseteq ToSet(mine.git[m])
          /\ m \in r.unset \ {n} => ToSet(mine.git[m]) \subseteq ToSet(r.keys.prior[m]) \cup {OursOf(m)}
          /\ m \notin r.unset \ {n} =>
                /\ ToSet(git'[m]) \subseteq ToSet(mine.git[m])
                /\ ToSet(mine.git[m]) \subseteq ToSet(git'[m]) \cup ToSet(r.keys.prior[m]) \cup {OursOf(m)}
                        \cup (IF m = r.name THEN ToSet(r.vals) ELSE {})
    BY <1>3, <1>5 DEF Giving
  <2> QED BY <1>0, <1>4, <1>5, <2>1 DEF Giving
<1>7. Covers(snap["git"])'
  <2>1. Covers(snap["git"]) BY <1>5 DEF Restorable, Giving
  <2>2. n \in snap["git"].written BY <1>5 DEF Giving
  <2> QED BY <2>1, <2>2, <1>0, <1>3 DEF Covers
<1>8. \A m \in Names : ToSet(git'[m]) \subseteq ToSet(mine'.git[m]) \cup {OursOf(m)} BY <1>3 DEF Restorable
<1> QED BY <1>0, <1>4, <1>5, <1>6, <1>7, <1>8, RestorableIs DEF Giving

LEMMA ReAddRestorable ==
    ASSUME Types, Restorable, NEW a \in Agents, \A b \in Agents \ {a} : ag'[b].pc = "idle", ~Enabling,
           ReAdd(a), mine'.git = mine.git
    PROVE  Restorable'
<1> DEFINE r == ag[a]
           left(n) == IF r.vals # <<>> THEN r.vals ELSE r.keys.prior[n]
<1>0. r \in AgentType /\ ag = [b \in Agents |-> ag[b]] /\ r.pc = "clear" /\ r.unset = {} /\ r.keys \in Snapshots
      /\ snap' = snap /\ back' = back
  BY DEF Types, AgentFits, ReAdd, At
<1>5. Giving(r) /\ "git" \notin back BY <1>0 DEF Restorable, At, Giving
<1>1. PICK n \in Names :
         /\ IF r.vals # <<>> THEN n = r.name ELSE r.keys.prior[n] # <<>>
         /\ \/ /\ git' = [git EXCEPT ![n] = Append(@, Head(left(n)))]
               /\ ag' = [ag EXCEPT ![a].name = n, ![a].vals = Tail(left(n)), ![a].keys.prior[n] = <<>>]
            \/ GitDone(a) /\ UNCHANGED git
  BY DEF ReAdd
<1>2. CASE GitDone(a) /\ UNCHANGED git
  BY <1>0, <1>2, AsideIs, "idle" \in Places \ {"unset", "clear"}, RestorableAside DEF Places
<1>3. ASSUME git' = [git EXCEPT ![n] = Append(@, Head(left(n)))],
             ag' = [ag EXCEPT ![a].name = n, ![a].vals = Tail(left(n)), ![a].keys.prior[n] = <<>>]
      PROVE  Restorable'
  <2>1. r.vals \in Seq(Values) /\ r.keys.prior \in Configs BY <1>0 DEF AgentType, Snapshots
  <2>2. left(n) \in Seq(Values) /\ left(n) # <<>> BY <1>1, <2>1 DEF Configs
  <2>3. ToSet(left(n)) \subseteq ToSet(mine.git[n]) BY <1>1, <1>5 DEF Giving
  <2>4. ToSet(mine.git[n]) \subseteq ToSet(git[n]) \cup ToSet(left(n)) \cup {OursOf(n)}
    <3>1. CASE r.vals # <<>>
      <4>1. ToSet(r.keys.prior[n]) = {} BY <1>1, <1>5, <3>1, SmallSets DEF Giving
      <4> QED BY <1>0, <1>1, <1>5, <3>1, <4>1 DEF Giving
    <3>2. CASE r.vals = <<>>
      BY <1>0, <1>1, <1>5, <3>2, SmallSets DEF Giving
    <3> QED BY <3>1, <3>2
  <2>5. \A m \in Names \ {n} : m = r.name => r.vals = <<>> BY <1>1
  <2> HIDE DEF left
  <2>6. Head(left(n)) \in Values /\ ToSet(left(n)) = {Head(left(n))} \cup ToSet(Tail(left(n))) BY <2>2, HeadTailSet
  <2>7. ToSet(git'[n]) = ToSet(git[n]) \cup {Head(left(n))} /\ \A m \in Names \ {n} : git'[m] = git[m]
    BY <1>3, <2>6, GitTypes
  <2>8. /\ ag'[a].pc = "clear" /\ ag'[a].unset = {} /\ ag'[a].name = n /\ ag'[a].vals = Tail(left(n))
        /\ ag'[a].keys.prior[n] = <<>> /\ \A m \in Names \ {n} : ag'[a].keys.prior[m] = r.keys.prior[m]
    <3>1. ag'[a] = [r EXCEPT !.name = n, !.vals = Tail(left(n)), !.keys.prior[n] = <<>>] BY <1>0, <1>3
    <3> QED BY <3>1, <1>0, <2>1 DEF AgentType, Snapshots, Configs
  <2>9. ASSUME NEW m \in Names
        PROVE  /\ ToSet(ag'[a].keys.prior[m]) \subseteq ToSet(mine.git[m])
               /\ ToSet(git'[m]) \subseteq ToSet(mine.git[m])
               /\ ToSet(mine.git[m]) \subseteq ToSet(git'[m]) \cup ToSet(ag'[a].keys.prior[m]) \cup {OursOf(m)}
                        \cup (IF m = n THEN ToSet(Tail(left(n))) ELSE {})
    <3>1. CASE m = n
      <4>1. ToSet(git[n]) \subseteq ToSet(mine.git[n]) BY <1>0, <1>5 DEF Giving
      <4> QED BY <3>1, <4>1, <2>3, <2>4, <2>6, <2>7, <2>8, SmallSets
    <3>2. CASE m # n
      <4>1. git'[m] = git[m] /\ ag'[a].keys.prior[m] = r.keys.prior[m] BY <3>2, <2>7, <2>8
      <4>2. (IF m = r.name THEN ToSet(r.vals) ELSE {}) = {} BY <3>2, <2>5, SmallSets
      <4> QED BY <3>2, <4>1, <4>2, <1>0, <1>5 DEF Giving
    <3> QED BY <3>1, <3>2
  <2>10. Giving(ag[a])'
    <3>1. ToSet(Tail(left(n))) \subseteq ToSet(mine.git[n]) BY <2>3, <2>6
    <3> QED BY <1>0, <1>5, <2>8, <2>9, <3>1 DEF Giving
  <2>11. Covers(snap["git"])'
    <3>1. Covers(snap["git"]) BY <1>5 DEF Restorable, Giving
    <3>2. \A m \in Names : ToSet(git'[m]) \subseteq ToSet(mine.git[m]) /\ ToSet(git[m]) \subseteq ToSet(git'[m])
      BY <2>7, <2>9
    <3> QED BY <3>1, <3>2, <1>0 DEF Covers
  <2>12. \A m \in Names : ToSet(git'[m]) \subseteq ToSet(mine'.git[m]) \cup {OursOf(m)} BY <2>9
  <2> QED BY <1>0, <1>5, <2>8, <2>10, <2>11, <2>12, RestorableIs DEF Giving
<1> QED BY <1>1, <1>2, <1>3

LEMMA DropRestorable ==
    ASSUME Types, Restorable, NEW a \in Agents, \A b \in Agents \ {a} : ag'[b].pc = "idle", ~Enabling,
           DropGit(a), mine'.git = mine.git
    PROVE  Restorable'
<1> DEFINE r == ag[a]
<1>0. r.pc = "clear" /\ r.unset = {} /\ r.vals = <<>> /\ r.keys.prior = NoKeys /\ GitDone(a) /\ git' = git
      /\ (snap' = [snap EXCEPT !["git"] = None] \/ UNCHANGED snap)
  BY DEF DropGit, At
<1>1. Giving(r) BY <1>0 DEF Restorable, At
<1>2. ASSUME NEW n \in Names PROVE Returned(n)
  <2>1. ToSet(r.keys.prior[n]) = {} /\ (IF n = r.name THEN ToSet(r.vals) ELSE {}) = {} BY <1>0, SmallSets DEF NoKeys
  <2> QED BY <1>0, <1>1, <2>1 DEF Giving, Returned
<1>3. \A n \in Names : Returned(n)' BY <1>0, <1>2 DEF Returned
<1>4. Aside(ag'[a]) BY <1>0, AsideIs, "idle" \in Places \ {"unset", "clear"} DEF Places
<1>5. \A m \in Names : ToSet(git'[m]) \subseteq ToSet(mine'.git[m]) \cup {OursOf(m)} BY <1>0 DEF Restorable
<1>6. CASE snap' = [snap EXCEPT !["git"] = None]
  <2>1. snap'["git"] = None BY <1>6, SnapIs
  <2>2. \A m \in Names : ToSet(mine'.git[m]) \subseteq ToSet(git'[m]) \cup {OursOf(m)} BY <1>3 DEF Returned
  <2> QED BY <2>1, <2>2, <1>3, <1>4, <1>5, RestorableIs DEF Aside
<1>7. CASE UNCHANGED snap
  <2>1. Covers(snap["git"]) /\ snap["git"] # None BY <1>1 DEF Restorable, Giving
  <2>2. Covers(snap["git"])' BY <2>1, <1>0, <1>7 DEF Covers
  <2> QED BY <2>1, <2>2, <1>3, <1>4, <1>5, <1>7, RestorableIs DEF Aside
<1> QED BY <1>0, <1>6, <1>7

\* An enable that begins has in hand what it needs to give everything back.
LEMMA EnableRestorable ==
    ASSUME Types, Restorable, ~Enabling, NEW a \in Agents, \A b \in Agents \ {a} : ag'[b].pc = "idle",
           NEW o \in Options, Conflicts(git, o) # {} => ~OwnKeys, "git" \notin back',
           ag'[a] = [Idle EXCEPT !.pc = "unset", !.job = "enable", !.unset = Conflicts(git, o),
                                 !.add = Additions(git, o), !.keys = GitSnap(git, o)],
           git' = git, snap' = snap, mine'.git = mine.git
    PROVE  Restorable'
<1> DEFINE k == GitSnap(git, o)
           C == Conflicts(git, o)
           D == DesiredNames(o)
<1>0. git \in Configs BY DEF Types
<1>1. ag'[a].pc = "unset" /\ ag'[a].unset = C /\ ag'[a].add = Additions(git, o) /\ ag'[a].keys = k
  BY DEF Idle
<1>2. Additions(git, o) \in Seq(D) /\ k.written = D /\ C \subseteq Names
      /\ \A n \in Names : k.prior[n] = IF n \in C THEN git[n] ELSE <<>>
  BY <1>0, EnableIs
<1>3. \A n \in D \ C : ToSet(git[n]) \subseteq {OursOf(n)} BY <1>0, NoConflict
<1>4. \A n \in Names \ (D \cup C) : ToSet(git[n]) \cap Sources = {} BY <1>0, NoConflict
<1>5. C # {} => \A n \in Names : OursOf(n) \notin ToSet(git[n]) \ ToSet(mine.git[n]) BY DEF OwnKeys
<1> HIDE DEF k, C, D
<1>6. \A n \in Names : ToSet(git[n]) \subseteq ToSet(mine.git[n]) \cup {OursOf(n)} BY DEF Restorable
<1>7. ASSUME ~(snap["git"] # None /\ snap["git"].prior # NoKeys)
      PROVE  Covers(k) /\ \A n \in C : ToSet(mine.git[n]) \subseteq ToSet(k.prior[n]) \cup {OursOf(n)}
  <2>1. \A n \in Names : ToSet(mine.git[n]) \subseteq ToSet(git[n]) \cup {OursOf(n)}
    <3>1. CASE snap["git"] = None BY <3>1 DEF Restorable
    <3>2. CASE snap["git"] # None /\ snap["git"].prior = NoKeys
      <4>1. Covers(snap["git"]) BY <3>2 DEF Restorable
      <4> QED BY <4>1, <3>2, BareIs
    <3> QED BY <1>7, <3>1, <3>2
  <2>2. ASSUME NEW n \in C
        PROVE  /\ k.prior[n] = git[n] /\ ToSet(git[n]) \subseteq ToSet(mine.git[n])
               /\ ToSet(mine.git[n]) \subseteq ToSet(git[n]) \cup {OursOf(n)}
    BY <1>2, <1>5, <1>6, <2>1
  <2>3. ASSUME NEW n \in Names \ C
        PROVE  /\ ToSet(k.prior[n]) = {}
               /\ n \in D => ToSet(mine.git[n]) \subseteq {OursOf(n)}
               /\ n \notin D => /\ ToSet(git[n]) \subseteq ToSet(mine.git[n])
                                /\ ToSet(mine.git[n]) \subseteq ToSet(git[n]) \cup {OursOf(n)}
    <3>1. ToSet(k.prior[n]) = {} BY <1>2, SmallSets
    <3>2. n \in D => ToSet(mine.git[n]) \subseteq {OursOf(n)} BY <1>3, <2>1
    <3>3. ASSUME n \notin D PROVE OursOf(n) \notin ToSet(git[n])
      <4>1. CASE n = Other
        <5>1. ToSet(git[n]) \subseteq Values BY <1>0 DEF Configs, ToSet
        <5> QED BY <4>1, <5>1, NamesAre
      <4>2. CASE n # Other
        <5>1. OursOf(n) \in Sources BY <4>2, NamesAre DEF Wanted
        <5> QED BY <5>1, <3>3, <1>4
      <4> QED BY <4>1, <4>2
    <3> QED BY <3>1, <3>2, <3>3, <1>6, <2>1
  <2>4. Covers(k)
    <3> SUFFICES ASSUME NEW n \in Names
                 PROVE  /\ ToSet(k.prior[n]) \subseteq ToSet(mine.git[n])
                        /\ n \in k.written => ToSet(mine.git[n]) \subseteq ToSet(k.prior[n]) \cup {OursOf(n)}
                        /\ n \notin k.written =>
                              /\ ToSet(git[n]) \subseteq ToSet(mine.git[n])
                              /\ ToSet(mine.git[n]) \subseteq ToSet(k.prior[n]) \cup ToSet(git[n]) \cup {OursOf(n)}
      BY DEF Covers
    <3>1. CASE n \in C BY <3>1, <2>2
    <3>2. CASE n \notin C BY <3>2, <2>3, <1>2
    <3> QED BY <3>1, <3>2
  <2> QED BY <2>2, <2>4
<1>8. Taken(ag[a])'
  <2>1. CASE snap["git"] # None /\ snap["git"].prior # NoKeys
    BY <1>1, <1>2, <2>1 DEF Taken
  <2>2. CASE ~(snap["git"] # None /\ snap["git"].prior # NoKeys)
    <3>1. Covers(ag[a].keys)' BY <1>1, <1>7, <2>2 DEF Covers
    <3> QED BY <1>1, <1>2, <1>7, <2>2, <3>1 DEF Taken
  <2> QED BY <2>1, <2>2
<1> QED BY <1>1, <1>6, <1>8, RestorableIs

LEMMA GitInvStep == ASSUME Types, Alone, GitInv, [Next]_vars PROVE GitInv'
<1> SUFFICES ASSUME seen' \cap {"kept", "overlap", "half", "over"} = {} PROVE Restorable' BY DEF GitInv
<1>0. Restorable /\ mine'.git = mine.git /\ "overlap" \notin seen BY SeenGrows, MineKept DEF GitInv
<1>1. ASSUME NEW a \in Agents, ag[a].pc # "idle", \A b \in Agents \ {a} : ag'[b] = ag[b]
      PROVE  (\A b \in Agents \ {a} : ag'[b].pc = "idle") /\ (ag[a].pc # "unset" => ~Enabling)
  BY <1>0, <1>1, OthersIdle DEF Enabling, At
<1>2. ASSUME NEW a \in Agents, GitStep(a) PROVE Restorable'
  <2>1. (\A b \in Agents \ {a} : ag'[b].pc = "idle") /\ (ag[a].pc # "unset" => ~Enabling)
    BY <1>1, <1>2, GitAside
  <2>2. CASE Unset(a) BY <1>0, <2>1, <2>2, UnsetRestorable
  <2>3. CASE Add(a) BY <1>0, <2>1, <2>3, AddRestorable
  <2>4. CASE SaveGit(a) BY <1>0, <2>1, <2>4, SaveRestorable
  <2>5. CASE GitLoad(a) BY <1>0, <2>1, <2>5, LoadRestorable DEF GitLoad, At
  <2>6. CASE Clear(a) BY <1>0, <2>1, <2>6, ClearRestorable DEF Clear, At
  <2>7. CASE ReAdd(a) BY <1>0, <2>1, <2>7, ReAddRestorable DEF ReAdd, At
  <2>8. CASE DropGit(a) BY <1>0, <2>1, <2>8, DropRestorable DEF DropGit, At
  <2> QED BY <1>2, <2>2, <2>3, <2>4, <2>5, <2>6, <2>7, <2>8 DEF GitStep
<1>3. ASSUME NEW a \in Agents, SshStep(a) PROVE Restorable'
  <2>1. ag[a].pc # "idle" /\ Aside(ag[a]) /\ Aside(ag'[a]) /\ \A b \in Agents \ {a} : ag'[b] = ag[b]
    BY <1>3, SshAside, SshBusy
  <2>2. git' = git /\ snap'["git"] = snap["git"] /\ ("git" \in back' => "git" \in back) BY <1>3, SshAside
  <2> QED BY <1>0, <1>1, <2>1, <2>2, RestorableAside DEF Aside
<1>4. ASSUME NEW a \in Agents, Crash(a) PROVE Restorable'
  <2>1. (\A b \in Agents \ {a} : ag'[b].pc = "idle") /\ (ag[a].pc # "unset" => ~Enabling)
    BY <1>1, <1>4, CrashIs
  <2>2. ag'[a].pc = "idle" /\ UNCHANGED <<git, snap, back>> BY <1>4, CrashIs
  <2>3. CASE ag[a].pc = "unset"
    <3>1. ~HoldsKeys(a) BY <1>4 DEF Crash, EndsHalf
    <3> QED BY <1>0, <2>1, <2>2, <2>3, <3>1, HalfIs DEF At
  <2>4. CASE ag[a].pc # "unset" BY <1>0, <2>1, <2>2, <2>4, RestorableAside DEF Aside
  <2> QED BY <2>3, <2>4
<1>5. ASSUME NEW a \in Agents, Command(a) PROVE Restorable'
  <2>1. ~Busy /\ \A b \in Agents \ {a} : ag'[b] = ag[b] BY <1>5, CommandIs
  <2>2. ~Enabling /\ \A b \in Agents \ {a} : ag'[b].pc = "idle" BY <2>1 DEF Busy, At, Enabling
  <2>3. git' = git /\ snap' = snap /\ ("git" \in back' => "git" \in back) BY <1>5, CommandIs
  <2>4. CASE Aside(ag'[a]) BY <1>0, <2>2, <2>3, <2>4, RestorableAside
  <2>5. ASSUME NEW o \in Options, Conflicts(git, o) # {} => ~OwnKeys, "git" \notin back',
               ag'[a] = [Idle EXCEPT !.pc = "unset", !.job = "enable", !.unset = Conflicts(git, o),
                                     !.add = Additions(git, o), !.keys = GitSnap(git, o)]
        PROVE  Restorable'
    BY <1>0, <2>2, <2>3, <2>5, EnableRestorable
  <2> QED BY <1>5, <2>4, <2>5, CommandIs
<1>6. CASE Edit \/ UNCHANGED vars
  <2>1. UNCHANGED <<git, snap, ag, back>> BY <1>6 DEF Edit, vars
  <2> QED BY <1>0, <2>1 DEF Restorable, Returned, Covers, Taken, Giving, Enabling, At
<1> QED BY <1>2, <1>3, <1>4, <1>5, <1>6 DEF Next

\* Once disable or off has reported the git keys given back (gitDisableCore, restoreManagedOnOff),
\* the user's values are there again and nothing of GHydra's, also with --force, after an enable
\* that was interrupted, and after a disable that failed between two keys and was repeated, with the
\* exceptions GitRestored names.
THEOREM KeysReturned == Spec => []GitRestored
<1> DEFINE Inv == Types /\ Alone /\ GitInv
<1>1. Init => Inv
  <2> SUFFICES ASSUME Init PROVE Alone /\ GitInv BY InitTypes
  <2>1. \A a \in Agents : ag[a].pc = "idle" BY DEF Init, Idle
  <2>2. mine.git = git /\ snap["git"] = None /\ back = {} BY DEF Init
  <2> QED BY <2>1, <2>2 DEF Alone, GitInv, Restorable, At
<1>2. Inv /\ [Next]_vars => Inv' BY TypesStep, AloneStep, GitInvStep
<1>3. Inv => GitRestored BY DEF GitInv, Restorable, Returned, GitRestored
<1> QED BY <1>1, <1>2, <1>3, PTL DEF Spec

-----------------------------------------------------------------------------
(* The ssh file comes back                                                 *)

LEMMA BorrowedIs ==
    ASSUME NEW a \in Agents, \A b \in Agents \ {a} : ag'[b].pc = "idle",
           TextOf(file') = mine'.text,
           "ssh" \in back' => ~Effective(file'),
           bak' \in {None, Original'}, snap'["ssh"] \in {None, Original'},
           Holds(ag[a])'
    PROVE  Borrowed'
<1>1. \A b \in Agents \ {a} : Holds(ag[b])' BY DEF Holds
<1> QED BY <1>1 DEF Borrowed, TextOf, Effective, BlockOf

LEMMA Aloof ==
    ASSUME NEW r, r.pc \in {"idle", "unset", "gitload", "clear", "sshload", "restore"}
    PROVE  Holds(r) /\ Holds(r)'
BY DEF Holds

\* How an agent goes on.
LEMMA GotoIs ==
    ASSUME Types, NEW a \in Agents, NEW l, Goto(a, l)
    PROVE  ag'[a].pc = l /\ ag'[a].put = ag[a].put /\ ag'[a].got = ag[a].got
<1>1. ag[a] \in AgentType /\ ag = [b \in Agents |-> ag[b]] BY DEF Types, AgentFits
<1>2. ag'[a] = [ag[a] EXCEPT !.pc = l] BY <1>1 DEF Goto
<1> QED BY <1>1, <1>2 DEF AgentType

LEMMA OriginalIs ==
    ASSUME Types, file \in Files \cup {None}, TextOf(file) = mine.text
    PROVE  Original \in Files /\ Original # None /\ ~Effective(Original) /\ TextOf(Original) = mine.text
<1>1. mine.text \in Texts BY DEF Types
<1>2. Original \in Files BY <1>1 DEF Original, Files
<1>3. Original # None BY <1>2, ManagedAssumption
<1> QED BY <1>2, <1>3 DEF Original, Effective, BlockOf, TextOf

LEMMA SshStepBorrowed ==
    ASSUME Types, Borrowed, NEW a \in Agents, \A b \in Agents \ {a} : ag'[b].pc = "idle", SshStep(a), mine' = mine
    PROVE  Borrowed'
<1> DEFINE r == ag[a]
<1>0. /\ AgentFits(r) /\ r \in AgentType /\ ag = [b \in Agents |-> ag[b]] /\ Holds(r)
      /\ TextOf(file) = mine.text /\ ("ssh" \in back => ~Effective(file))
      /\ bak \in {None, Original} /\ snap["ssh"] \in {None, Original} /\ Original' = Original
      /\ file \in Files \cup {None} /\ None \notin Files
  BY ManagedAssumption DEF Types, AgentFits, Borrowed, Original
<1>00. ~Effective(Original) /\ TextOf(Original) = mine.text /\ Original # None /\ Original \in Files
  BY <1>0, OriginalIs
<1>1. CASE Backup(a)
  <2>1. r.pc = "backup" /\ file' = file /\ snap' = snap /\ back' = back BY <1>1 DEF Backup, At
  <2>2. r.got = Original /\ "ssh" \notin back /\ r.put.text = mine.text BY <1>0, <2>1 DEF Holds
  <2>3. CASE bak' = r.got /\ Goto(a, "write")
    <3>1. ag'[a].pc = "write" /\ ag'[a].put = r.put /\ ag'[a].got = r.got BY <2>3, GotoIs
    <3>2. Holds(ag[a])' BY <2>1, <2>2, <3>1, <1>0 DEF Holds
    <3> QED BY <1>0, <2>1, <2>2, <2>3, <3>2, BorrowedIs
  <2>4. CASE Leave(a) /\ UNCHANGED bak
    <3>1. Holds(ag[a])' BY <2>4, LeaveIs, Aloof
    <3> QED BY <1>0, <2>1, <2>4, <3>1, BorrowedIs
  <2> QED BY <1>1, <2>3, <2>4 DEF Backup, BackupContent
<1>2. CASE WriteFile(a)
  <2>1. r.pc = "write" /\ bak' = bak /\ snap' = snap /\ back' = back BY <1>2 DEF WriteFile, At
  <2>2. "ssh" \notin back /\ r.put.text = mine.text /\ r.put \in Files BY <1>0, <2>1 DEF Holds, AgentFits
  <2>3. CASE file' = r.put /\ Goto(a, "sshsave")
    <3>3. ag'[a].pc = "sshsave" /\ ag'[a].got = r.got BY <2>3, GotoIs
    <3>4. r.got = Original \/ (r.got = None /\ mine.text = "") BY <1>0, <2>1 DEF Holds
    <3>1. Holds(ag[a])' BY <2>1, <2>2, <3>3, <3>4, <1>0 DEF Holds
    <3>2. TextOf(file') = mine.text BY <2>2, <2>3, <1>0 DEF TextOf
    <3> QED BY <1>0, <2>1, <2>2, <3>1, <3>2, BorrowedIs
  <2>4. CASE Leave(a) /\ UNCHANGED file
    <3>1. Holds(ag[a])' BY <2>4, LeaveIs, Aloof
    <3> QED BY <1>0, <2>1, <2>4, <3>1, BorrowedIs
  <2> QED BY <1>2, <2>3, <2>4 DEF WriteFile
<1>3. CASE SaveSsh(a)
  <2>1. r.pc = "sshsave" /\ file' = file /\ bak' = bak /\ back' = back /\ Leave(a) BY <1>3 DEF SaveSsh, At
  <2>2. Holds(ag[a])' BY <2>1, LeaveIs, Aloof
  <2>3. snap'["ssh"] \in {None, Original}
    <3>1. CASE snap' = [snap EXCEPT !["ssh"] = EmptyFile] /\ r.got = None
      <4>1. mine.text = "" BY <2>1, <3>1, <1>0, <1>00 DEF Holds
      <4> QED BY <3>1, <4>1, SnapIs DEF EmptyFile, Original
    <3>2. CASE snap' = [snap EXCEPT !["ssh"] = bak] BY <3>2, <1>0, SnapIs
    <3>3. CASE UNCHANGED snap BY <3>3, <1>0
    <3> QED BY <1>3, <3>1, <3>2, <3>3 DEF SaveSsh, Failed
  <2> QED BY <1>0, <2>1, <2>2, <2>3, BorrowedIs
<1>4. CASE SshLoad(a)
  <2>1. file' = file /\ bak' = bak /\ snap' = snap /\ back' \subseteq back BY <1>4 DEF SshLoad
  <2>2. Holds(ag[a])'
    <3>1. CASE snap["ssh"] # None /\ ag' = [ag EXCEPT ![a].pc = "rebackup", ![a].got = snap["ssh"]]
      <4>1. ag'[a].pc = "rebackup" /\ ag'[a].got = snap["ssh"] BY <3>1, <1>0 DEF AgentType
      <4> QED BY <4>1, <3>1, <1>0 DEF Holds
    <3>2. CASE Leave(a) BY <3>2, LeaveIs, Aloof
    <3>3. CASE Goto(a, "restore") BY <3>3, GotoIs, Aloof
    <3> QED BY <1>4, <3>1, <3>2, <3>3 DEF SshLoad
  <2> QED BY <1>0, <2>1, <2>2, BorrowedIs
<1>5. CASE Rebackup(a)
  <2>1. r.pc = "rebackup" /\ file' = file /\ snap' = snap /\ back' = back /\ bak' \in {bak, r.got}
    BY <1>5 DEF Rebackup, At
  <2>2. r.got = Original BY <1>0, <2>1 DEF Holds
  <2>3. Holds(ag[a])'
    <3>1. CASE ag' = [ag EXCEPT ![a].pc = "restore", ![a].got = None]
      <4>1. ag'[a].pc = "restore" BY <3>1, <1>0 DEF AgentType
      <4> QED BY <4>1, Aloof
    <3>2. CASE Leave(a) BY <3>2, LeaveIs, Aloof
    <3>3. CASE Goto(a, "restore") BY <3>3, GotoIs, Aloof
    <3> QED BY <1>5, <3>1, <3>2, <3>3 DEF Rebackup
  <2> QED BY <1>0, <2>1, <2>2, <2>3, BorrowedIs
<1>6. CASE Restore(a)
  <2>1. r.pc = "restore" /\ bak' = bak /\ snap' = snap BY <1>6 DEF Restore, At
  <2>2. CASE bak # None /\ file' = bak /\ Goto(a, "unlink") /\ back' = back
    <3>1. file' = Original BY <2>2, <1>0
    <3>3. ag'[a].pc = "unlink" BY <2>2, GotoIs
    <3>4. ~Effective(file') BY <3>1, <1>00
    <3>2. Holds(ag[a])' BY <3>3, <3>4 DEF Holds, Effective, BlockOf
    <3> QED BY <1>0, <1>00, <2>1, <2>2, <3>1, <3>2, BorrowedIs
  <2>3. CASE file' = (IF file = None THEN None ELSE Without(file)) /\ AfterFile(a)
    <3>1. ~Effective(file') /\ TextOf(file') = mine.text
      <4>1. CASE file = None BY <4>1, <2>3, <1>0 DEF Effective, BlockOf, TextOf
      <4>2. CASE file # None
        <5>1. file' \in Files /\ file'.text = file.text /\ file'.block = "none" /\ file' # None BY <4>2, <2>3, <1>0, FileIs
        <5> QED BY <5>1, <4>2, <1>0 DEF Effective, BlockOf, TextOf
      <4> QED BY <4>1, <4>2
    <3>2. Holds(ag[a])'
      <4>1. CASE Leave(a) BY <4>1, LeaveIs, Aloof
      <4>2. CASE Goto(a, "sshdrop")
        <5>1. ag'[a].pc = "sshdrop" BY <4>2, GotoIs
        <5> QED BY <5>1, <3>1 DEF Holds, Effective, BlockOf
      <4> QED BY <2>3, <4>1, <4>2 DEF AfterFile
    <3> QED BY <1>0, <2>1, <3>1, <3>2, BorrowedIs
  <2>4. CASE UNCHANGED <<file, back>> /\ (Leave(a) \/ ag' = [ag EXCEPT ![a].got = None])
    <3>1. Holds(ag[a])'
      <4>1. CASE Leave(a) BY <4>1, LeaveIs, Aloof
      <4>2. CASE ag' = [ag EXCEPT ![a].got = None]
        <5>1. ag'[a].pc = "restore" BY <4>2, <2>1, <1>0 DEF AgentType
        <5> QED BY <5>1, Aloof
      <4> QED BY <2>4, <4>1, <4>2
    <3> QED BY <1>0, <2>1, <2>4, <3>1, BorrowedIs
  <2> QED BY <1>6, <2>2, <2>3, <2>4 DEF Restore
<1>7. CASE Unlink(a)
  <2>1. r.pc = "unlink" /\ file' = file /\ snap' = snap /\ bak' \in {None, bak} /\ AfterFile(a) BY <1>7 DEF Unlink, At
  <2>2. ~Effective(file) BY <1>0, <2>1 DEF Holds
  <2>3. Holds(ag[a])'
    <3>1. CASE Leave(a) BY <3>1, LeaveIs, Aloof
    <3>2. CASE Goto(a, "sshdrop")
      <4>1. ag'[a].pc = "sshdrop" BY <3>2, GotoIs
      <4> QED BY <4>1, <2>1, <2>2 DEF Holds, Effective, BlockOf
    <3> QED BY <2>1, <3>1, <3>2 DEF AfterFile
  <2> QED BY <1>0, <2>1, <2>2, <2>3, BorrowedIs
<1>8. CASE DropSsh(a)
  <2>1. r.pc = "sshdrop" /\ file' = file /\ bak' = bak /\ Leave(a) BY <1>8 DEF DropSsh, At
  <2>2. ~Effective(file) BY <1>0, <2>1 DEF Holds
  <2>3. Holds(ag[a])' BY <2>1, LeaveIs, Aloof
  <2>4. snap'["ssh"] \in {None, Original} BY <1>8, <1>0, SnapIs DEF DropSsh
  <2> QED BY <1>0, <2>1, <2>2, <2>3, <2>4, BorrowedIs
<1> QED BY <1>1, <1>2, <1>3, <1>4, <1>5, <1>6, <1>7, <1>8 DEF SshStep

LEMMA SshInvStep == ASSUME Types, Alone, SshInv, [Next]_vars PROVE SshInv'
<1> SUFFICES ASSUME seen' \cap {"again", "edit", "overlap"} = {} PROVE Borrowed' BY DEF SshInv
<1>0. Borrowed /\ "overlap" \notin seen BY SeenGrows DEF SshInv
<1>1. ASSUME NEW a \in Agents, ag[a].pc # "idle", \A b \in Agents \ {a} : ag'[b] = ag[b]
      PROVE  \A b \in Agents \ {a} : ag'[b].pc = "idle"
  BY <1>0, <1>1, OthersIdle
<1>2. ASSUME NEW a \in Agents, GitStep(a) PROVE Borrowed'
  <2>1. \A b \in Agents \ {a} : ag'[b].pc = "idle" BY <1>1, <1>2, GitAside
  <2>2. UNCHANGED <<file, bak, mine>> /\ snap'["ssh"] = snap["ssh"] /\ ("ssh" \in back' => "ssh" \in back)
    BY <1>2, GitAside
  <2>3. Holds(ag[a])' BY <1>2, GitAside, Aloof
  <2> QED BY <1>0, <2>1, <2>2, <2>3, BorrowedIs DEF Borrowed, Original
<1>3. ASSUME NEW a \in Agents, SshStep(a) PROVE Borrowed'
  <2>1. \A b \in Agents \ {a} : ag'[b].pc = "idle" BY <1>1, <1>3, SshAside, SshBusy
  <2>2. mine' = mine
    BY <1>3 DEF SshStep, Backup, WriteFile, SaveSsh, SshLoad, Rebackup, Restore, Unlink, DropSsh
  <2> QED BY <1>0, <1>3, <2>1, <2>2, SshStepBorrowed
<1>4. ASSUME NEW a \in Agents, Crash(a) PROVE Borrowed'
  <2>1. \A b \in Agents \ {a} : ag'[b].pc = "idle" BY <1>1, <1>4, CrashIs
  <2>2. ag'[a].pc = "idle" /\ UNCHANGED <<file, bak, snap, mine, back>> BY <1>4, CrashIs
  <2>3. Holds(ag[a])' BY <2>2, Aloof
  <2> QED BY <1>0, <2>1, <2>2, <2>3, BorrowedIs DEF Borrowed, Original
<1>5. ASSUME NEW a \in Agents, Command(a) PROVE Borrowed'
  <2>1. ~Busy /\ (\A b \in Agents \ {a} : ag'[b] = ag[b]) /\ snap' = snap BY <1>5, CommandIs
  <2>2. \A b \in Agents \ {a} : ag'[b].pc = "idle" BY <2>1 DEF Busy, At
  <2>3. UNCHANGED <<file, bak, mine>> /\ back' \subseteq back
    BY <1>5 DEF Command, GitEnable, SshEnable, GitDisable, SshDisable
  <2>4. Holds(ag[a])'
    <3>0. ag = [b \in Agents |-> ag[b]] BY DEF Types
    <3>1. ASSUME NEW o \in Options, NEW force \in BOOLEAN, GitEnable(a, o, force) PROVE ag'[a].pc = "unset"
      BY <3>0, <3>1 DEF GitEnable, Begin, Idle
    <3>2. ASSUME NEW job, GitDisable(a, job) \/ SshDisable(a, job) PROVE ag'[a].pc \in {"gitload", "sshload"}
      BY <3>0, <3>2 DEF GitDisable, SshDisable, Begin, Idle
    <3>3. ASSUME NEW alias \in BOOLEAN, SshEnable(a, alias) PROVE Holds(ag[a])'
      <4>1. ~Effective(file) /\ "ssh" \notin back' BY <3>3 DEF SshEnable, Note
      <4>2. /\ ag'[a].pc = (IF file = None THEN "write" ELSE "backup")
            /\ ag'[a].put = WithBlock(file, alias) /\ ag'[a].got = file
        BY <3>0, <3>3 DEF SshEnable, Begin, Idle
      <4>3. file \in Files \cup {None} /\ TextOf(file) = mine.text BY <1>0 DEF Types, Borrowed
      <4>4. WithBlock(file, alias).text = mine.text BY <4>3, FileIs
      <4>5. file # None => file = Original BY <4>1, <4>3 DEF Files, Effective, BlockOf, TextOf, Original
      <4>6. file = None => mine.text = "" BY <4>3 DEF TextOf
      <4> QED BY <2>3, <4>1, <4>2, <4>4, <4>5, <4>6 DEF Holds, Original
    <3> QED BY <1>5, <3>1, <3>2, <3>3, Aloof DEF Command
  <2> QED BY <1>0, <2>1, <2>2, <2>3, <2>4, BorrowedIs DEF Borrowed, Original
<1>6. CASE Edit
  <2>1. ~Busy /\ snap["ssh"] = None /\ bak = None /\ UNCHANGED <<bak, snap, ag, back>> BY <1>6 DEF Edit
  <2>2. \A b \in Agents : ag'[b].pc = "idle" BY <2>1 DEF Busy, At
  <2>3. \A b \in Agents : Holds(ag[b])' BY <2>2, Aloof
  <2>4. file \in Files /\ None \notin Files /\ file # None BY <1>6, ManagedAssumption DEF Edit, Types
  <2>5. CASE file' = [file EXCEPT !.text = "edited"] /\ mine' = [mine EXCEPT !.text = "edited"]
    <3>1. file' \in Files /\ file'.text = "edited" /\ file'.block = file.block BY <2>4, <2>5 DEF Files, Texts
    <3>2. mine'.text = "edited" BY <2>5 DEF Types
    <3> QED BY <1>0, <2>1, <2>3, <2>4, <3>1, <3>2 DEF Borrowed, TextOf, Effective, BlockOf
  <2>6. CASE Effective(file) /\ file' = [file EXCEPT !.block = "broken"] /\ UNCHANGED mine
    <3>1. file' \in Files /\ file'.text = file.text BY <2>4, <2>6 DEF Files
    <3> QED BY <1>0, <2>1, <2>3, <2>4, <2>6, <3>1 DEF Borrowed, TextOf, Effective, BlockOf
  <2> QED BY <1>6, <2>5, <2>6 DEF Edit
<1>7. CASE UNCHANGED vars
  BY <1>0, <1>7 DEF vars, Borrowed, Holds, Original, Effective, BlockOf, TextOf
<1> QED BY <1>2, <1>3, <1>4, <1>5, <1>6, <1>7 DEF Next

\* Once disable or off has reported the ssh file given back (sshDisableCore), our block is out of it and its
\* text is the user's, wherever an enable or disable before it died between backup, file and
\* snapshot (sshcfg.go Enable and Disable), with the exceptions SshRestored names.
THEOREM FileReturned == Spec => []SshRestored
<1> DEFINE Inv == Types /\ Alone /\ SshInv
<1>1. Init => Inv
  <2> SUFFICES ASSUME Init PROVE Alone /\ SshInv BY InitTypes
  <2>1. \A a \in Agents : ag[a].pc = "idle" BY DEF Init, Idle
  <2>2. mine.text = TextOf(file) /\ snap["ssh"] = None /\ bak = None /\ back = {} BY DEF Init
  <2> QED BY <2>1, <2>2 DEF Alone, SshInv, Borrowed, Holds, At
<1>2. Inv /\ [Next]_vars => Inv' BY TypesStep, AloneStep, SshInvStep
<1>3. Inv => SshRestored BY DEF SshInv, Borrowed, SshRestored
<1> QED BY <1>1, <1>2, <1>3, PTL DEF Spec

=============================================================================
