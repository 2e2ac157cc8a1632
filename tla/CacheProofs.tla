----------------------------- MODULE CacheProofs -----------------------------
(***************************************************************************)
(* The properties of ContentCache, proved for every set of importers and   *)
(* of targets, whatever media and payloads a target has, and any number of *)
(* power failures.                                                         *)
(*                                                                         *)
(* The inductive invariant counts what an import has done: the files of    *)
(* its plan before its place.  Without a power failure they are good for   *)
(* good; after one only an import that nothing has run beside can say so   *)
(* of its own files, because each of them was compared with its name, or   *)
(* is never torn, or was written by the import itself.                     *)
(***************************************************************************)
EXTENDS ContentCache, TLAPS

Kinds == {"media", "media manifest", "blob", "graph", "index"}

Steps == {"current", "index", "media", "graph", "blobs", "open"}

\* The places of an import's plan whose files are published.
Done(r) ==
    {i \in 1..Len(Plan(r.target)) :
        \/ i < r.place
        \/ i = r.place /\ (r.renamed \/ r.state = "passed")}

At(p, i) == Plan(import[p].target)[i]

\* Nothing but a media file is ever torn.
FilesTyped ==
    /\ disk = [f \in Files |-> disk[f]] /\ kept = [f \in Files |-> kept[f]]
    /\ \A f \in Files \ Pointers :
          /\ disk[f] \in {"absent", "torn", "good"} /\ disk[f] \in kept[f]
          /\ kept[f] \subseteq {"absent", "torn", "good"}
          /\ "torn" \in kept[f] => f[1] = "media"
    /\ \A f \in Pointers :
          disk[f] \in Targets \cup {NoTarget} /\ disk[f] \in kept[f]

Import == [state : {"idle", "running", "passed", "failed"},
           target : Targets \cup {NoTarget}, place : Nat, renamed : BOOLEAN]

InPlan(r) ==
    /\ r.state = "idle" => r.target = NoTarget /\ r.place = 1 /\ ~r.renamed
    /\ r.state # "idle" => r.target \in Targets /\ r.place \in 1..Len(Plan(r.target))
    /\ r.state = "passed" => r.place = Len(Plan(r.target))

ReaderTyped ==
    /\ reader \in [target : Targets \cup {NoTarget}, place : Steps \cup {"closed"}]
    /\ reader.place # "closed" => reader.target \in Targets

Typed ==
    /\ FilesTyped
    /\ import \in [Importers -> Import] /\ \A p \in Importers : InPlan(import[p])
    /\ alone \subseteq Importers
    /\ ReaderTyped
    /\ losses \in Nat

Published(f) == IF f \in Pointers THEN disk[f] # NoTarget ELSE disk[f] = "good"

\* Without a power failure no file is torn, and what is done stays.
Undisturbed ==
    losses = 0 =>
       /\ \A f \in Files \ Pointers : disk[f] # "torn"
       /\ \A p \in Importers : import[p].state # "idle" =>
             \A i \in Done(import[p]) : Published(At(p, i))
       /\ \A t \in Targets : disk[Current] = t =>
             Good(Generation(t)) /\ \A f \in Pointers : Published(f)
       /\ \A f \in Pointers : disk[f] # NoTarget =>
             \E p \in Importers : import[p].target = disk[f]

\* An import on its own knows each of its files.
Solitary ==
    \A p \in alone :
       /\ alone = {p} /\ import[p].state # "idle"
       /\ \A q \in Importers : Active(q) => q = p
       /\ \A i \in Done(import[p]) : disk[At(p, i)] = Value(At(p, i), import[p].target)

\* What the store has checked.
Checked ==
    LET t == reader.target
    IN  /\ reader.place \in {"media", "graph", "blobs", "open"} => Good({Index(t)})
        /\ reader.place \in {"graph", "blobs", "open"} => Good(MediaFiles(t))
        /\ reader.place \in {"blobs", "open"} => Good({Graph(t)})
        /\ reader.place = "open" => Good(Blobs(t))

IInv == Typed /\ Undisturbed /\ Solitary /\ Checked

-----------------------------------------------------------------------------
(* The files of a generation.                                              *)

\* What a concatenation holds.
LEMMA ToSetOfConcat ==
    ASSUME NEW S, NEW s \in Seq(S), NEW u \in Seq(S)
    PROVE  s \o u \in Seq(S) /\ ToSet(s \o u) = ToSet(s) \cup ToSet(u)
<1>1. /\ s \o u \in Seq(S) /\ Len(s) \in Nat /\ Len(u) \in Nat
      /\ Len(s \o u) = Len(s) + Len(u)
      /\ \A i \in 1..Len(s) : (s \o u)[i] = s[i]
      /\ \A i \in 1..Len(u) : (s \o u)[Len(s) + i] = u[i]
  OBVIOUS
<1>2. /\ DOMAIN s = 1..Len(s) /\ DOMAIN u = 1..Len(u)
      /\ DOMAIN (s \o u) = 1..Len(s) + Len(u)
  BY <1>1
<1>3. ASSUME NEW x \in ToSet(s \o u) PROVE x \in ToSet(s) \cup ToSet(u)
  <2>1. PICK i \in 1..Len(s) + Len(u) : (s \o u)[i] = x
    BY <1>2 DEF ToSet
  <2>2. CASE i \in 1..Len(s)
    BY <1>1, <1>2, <2>1, <2>2 DEF ToSet
  <2>3. CASE i \notin 1..Len(s)
    <3>1. i - Len(s) \in 1..Len(u) /\ Len(s) + (i - Len(s)) = i
      BY <1>1, <2>3
    <3> QED BY <1>1, <1>2, <2>1, <3>1 DEF ToSet
  <2> QED BY <2>2, <2>3
<1>4. ASSUME NEW x \in ToSet(s) PROVE x \in ToSet(s \o u)
  BY <1>1, <1>2 DEF ToSet
<1>5. ASSUME NEW x \in ToSet(u) PROVE x \in ToSet(s \o u)
  <2>1. PICK i \in 1..Len(u) : u[i] = x
    BY <1>2 DEF ToSet
  <2>2. Len(s) + i \in 1..Len(s) + Len(u)
    BY <1>1
  <2> QED BY <1>1, <1>2, <2>1, <2>2 DEF ToSet
<1> QED BY <1>1, <1>3, <1>4, <1>5

\* The files of a list of names.
LEMMA EachIsSeq ==
    ASSUME NEW kind, NEW names, names \in Seq(ToSet(names))
    PROVE  Each(kind, names) \in Seq(ToSet(Each(kind, names)))
<1>1. Len(names) \in Nat /\ DOMAIN names = 1..Len(names)
  OBVIOUS
<1> DEFINE s == Each(kind, names)
<1>2. s = [i \in 1..Len(names) |-> <<kind, names[i]>>]
  BY <1>1 DEF Each
<1>3. \A i \in 1..Len(names) : s[i] \in ToSet(s)
  BY <1>2 DEF ToSet
<1>4. s = [i \in 1..Len(names) |-> s[i]]
  BY <1>2
<1> HIDE DEF s
<1>5. s \in [1..Len(names) -> ToSet(s)]
  BY <1>3, <1>4
<1> QED BY <1>1, <1>5 DEF s

\* What an import has published before the index.
Before(t) ==
    Each("media", Media[t]) \o <<MediaManifest(t), MediaCurrent>>
       \o Each("blob", Payloads[t]) \o <<Graph(t), GraphCurrent>>

\* The files a plan publishes before its index and the current pointer.
LEMMA PlanFiles ==
    ASSUME NEW t \in Targets
    PROVE  LET S == MediaFiles(t) \cup Blobs(t) \cup {Graph(t), MediaCurrent, GraphCurrent}
           IN  Before(t) \in Seq(S) /\ ToSet(Before(t)) = S
<1> DEFINE m == Each("media", Media[t])
           b == Each("blob", Payloads[t])
           S == ToSet(m) \cup ToSet(b)
                  \cup {MediaManifest(t), MediaCurrent, Graph(t), GraphCurrent}
<1>1. m \in Seq(ToSet(m)) /\ b \in Seq(ToSet(b))
  BY EachIsSeq, TargetsAssumption
<1>2. /\ \A x, y : ToSet(<<x, y>>) = {x, y}
      /\ \A x \in S, y \in S : <<x, y>> \in Seq(S)
  <2>1. \A x, y : DOMAIN <<x, y>> = {1, 2} /\ <<x, y>>[1] = x /\ <<x, y>>[2] = y
    OBVIOUS
  <2>2. \A x, y : ToSet(<<x, y>>) = {x, y}
    BY <2>1 DEF ToSet
  <2> QED BY <2>2
<1> HIDE DEF m, b
<1>3. m \in Seq(S) /\ b \in Seq(S)
  BY <1>1
<1> HIDE DEF S
<1> DEFINE v == <<MediaManifest(t), MediaCurrent>>
           w == <<Graph(t), GraphCurrent>>
<1>4. /\ v \in Seq(S) /\ w \in Seq(S)
      /\ ToSet(v) = {MediaManifest(t), MediaCurrent}
      /\ ToSet(w) = {Graph(t), GraphCurrent}
  BY <1>2 DEF S
<1> HIDE DEF v, w
<1> DEFINE mv == m \o v
           mvb == mv \o b
           all == mvb \o w
<1>5. \A x \in Seq(S), y \in Seq(S) :
        x \o y \in Seq(S) /\ ToSet(x \o y) = ToSet(x) \cup ToSet(y)
  BY ToSetOfConcat
<1>6. mv \in Seq(S) /\ ToSet(mv) = ToSet(m) \cup ToSet(v)
  BY <1>3, <1>4, <1>5
<1> HIDE DEF mv
<1>7. mvb \in Seq(S) /\ ToSet(mvb) = ToSet(mv) \cup ToSet(b)
  BY <1>3, <1>5, <1>6
<1> HIDE DEF mvb
<1>8. all \in Seq(S) /\ ToSet(all) = ToSet(mvb) \cup ToSet(w)
  BY <1>4, <1>5, <1>7
<1>9. Before(t) = all
  BY DEF Before, mv, mvb, m, v, b, w
<1> HIDE DEF all
<1>10. S = MediaFiles(t) \cup Blobs(t) \cup {Graph(t), MediaCurrent, GraphCurrent}
  BY DEF S, MediaFiles, Blobs, m, b
<1>11. ToSet(all) = S
  BY <1>4, <1>6, <1>7, <1>8 DEF S
<1> QED BY <1>8, <1>9, <1>10, <1>11

\* The kinds of the files that are not pointers.
LEMMA KindsOfFiles ==
    ASSUME NEW t \in Targets
    PROVE  /\ \A f \in MediaFiles(t) : f[1] \in {"media", "media manifest"}
           /\ \A f \in Blobs(t) : f[1] = "blob"
           /\ Graph(t)[1] = "graph" /\ Index(t)[1] = "index"
           /\ \A f \in Pointers : f[1] \notin Kinds
<1>1. \A kind, names : \A f \in ToSet(Each(kind, names)) : f[1] = kind
  BY DEF ToSet, Each
<1>2. \A f \in ToSet(Each("media", Media[t])) : f[1] = "media"
  BY <1>1
<1>3. \A f \in Blobs(t) : f[1] = "blob"
  BY <1>1 DEF Blobs
<1>4. MediaManifest(t)[1] = "media manifest" /\ Graph(t)[1] = "graph" /\ Index(t)[1] = "index"
  BY DEF MediaManifest, Graph, Index
<1>5. \A f \in MediaFiles(t) : f[1] \in {"media", "media manifest"}
  BY <1>2, <1>4 DEF MediaFiles
<1>6. \A f \in Pointers : f[1] \in {"current", "media/current", "graph/current"}
  BY DEF Pointers, Current, MediaCurrent, GraphCurrent
<1>7. \A f \in Pointers : f[1] \notin Kinds
  BY <1>6 DEF Kinds
<1> QED BY <1>3, <1>4, <1>5, <1>7

\* The plan publishes the generation and the pointers, and current last.
LEMMA PlanFacts ==
    ASSUME NEW t \in Targets
    PROVE  /\ Len(Plan(t)) \in Nat \ {0} /\ DOMAIN Plan(t) = 1..Len(Plan(t))
           /\ \A i \in 1..Len(Plan(t)) :
                 /\ Plan(t)[i] \in Generation(t) \cup Pointers
                 /\ Plan(t)[i] = Current <=> i = Len(Plan(t))
           /\ \A f \in Generation(t) \cup Pointers :
                 \E i \in 1..Len(Plan(t)) : Plan(t)[i] = f
           /\ Generation(t) = MediaFiles(t) \cup Blobs(t) \cup {Graph(t), Index(t)}
<1> DEFINE S == MediaFiles(t) \cup Blobs(t) \cup {Graph(t), MediaCurrent, GraphCurrent}
           b == Before(t)
           n == Len(b)
           plan == b \o <<Index(t), Current>>
<1>1. Plan(t) = plan
  BY DEF Plan, Before
<1>2. b \in Seq(S) /\ ToSet(b) = S
  BY PlanFiles
<1>3. n \in Nat /\ DOMAIN b = 1..n
  BY <1>2
<1> HIDE DEF b, S
<1>4. /\ Len(plan) = n + 2 /\ DOMAIN plan = 1..n + 2
      /\ \A i \in 1..n : plan[i] = b[i]
      /\ plan[n + 1] = Index(t) /\ plan[n + 2] = Current
  <2> DEFINE e == <<Index(t), Current>>
             T == S \cup {Index(t), Current}
  <2>1. b \in Seq(T) /\ e \in Seq(T) /\ Len(e) = 2 /\ e[1] = Index(t) /\ e[2] = Current
    BY <1>2
  <2> HIDE DEF e, T
  <2>2. /\ Len(b \o e) = n + 2 /\ DOMAIN (b \o e) = 1..n + 2
        /\ \A i \in 1..n : (b \o e)[i] = b[i]
        /\ \A i \in 1..2 : (b \o e)[n + i] = e[i]
    <3>1. \A x \in Seq(T), y \in Seq(T) :
            /\ Len(x) \in Nat /\ Len(y) \in Nat
            /\ Len(x \o y) = Len(x) + Len(y) /\ DOMAIN (x \o y) = 1..Len(x) + Len(y)
            /\ \A i \in 1..Len(x) : (x \o y)[i] = x[i]
            /\ \A i \in 1..Len(y) : (x \o y)[Len(x) + i] = y[i]
      OBVIOUS
    <3>2. /\ Len(b \o e) = Len(b) + 2 /\ DOMAIN (b \o e) = 1..Len(b) + 2
          /\ \A i \in 1..Len(b) : (b \o e)[i] = b[i]
          /\ \A i \in 1..2 : (b \o e)[Len(b) + i] = e[i]
      <4> HIDE DEF n
      <4>1. Len(e) = 2 /\ b \in Seq(T) /\ e \in Seq(T)
        BY <2>1
      <4> QED BY <3>1, <4>1
    <3> QED BY <3>2 DEF n
  <2> QED BY <2>1, <2>2 DEF e
<1> HIDE DEF plan, n
<1>5. \A i \in 1..n : plan[i] \in S
  BY <1>2, <1>3, <1>4 DEF ToSet
<1>6. \A f \in S : \E i \in 1..n : plan[i] = f
  <2>1. \A f \in S : \E i \in 1..n : b[i] = f
    BY <1>2, <1>3 DEF ToSet
  <2> QED BY <1>4, <2>1
<1>7. 1..n + 2 = 1..n \cup {n + 1, n + 2}
  BY <1>3
<1>8. ToSet(plan) = S \cup {Index(t), Current}
  <2>1. ASSUME NEW f \in S PROVE f \in ToSet(plan)
    BY <1>4, <1>6, <1>7 DEF ToSet
  <2>2. Index(t) \in ToSet(plan) /\ Current \in ToSet(plan)
    BY <1>4, <1>7 DEF ToSet
  <2>3. ASSUME NEW f \in ToSet(plan) PROVE f \in S \cup {Index(t), Current}
    <3>1. PICK i \in 1..n + 2 : plan[i] = f
      BY <1>4 DEF ToSet
    <3> QED BY <1>4, <1>5, <1>7, <3>1
  <2> QED BY <2>1, <2>2, <2>3
<1>9. /\ \A f \in MediaFiles(t) \cup Blobs(t) \cup {Graph(t), Index(t)} : f[1] \in Kinds
      /\ \A f \in Pointers : f[1] \notin Kinds
  BY KindsOfFiles DEF Kinds
<1>10. Generation(t) = MediaFiles(t) \cup Blobs(t) \cup {Graph(t), Index(t)}
  BY <1>1, <1>8, <1>9 DEF Generation, Pointers, S
<1>11. Generation(t) \cup Pointers = S \cup {Index(t), Current}
  BY <1>10 DEF S, Pointers
<1>12. \A i \in 1..n + 2 :
         plan[i] \in Generation(t) \cup Pointers /\ (plan[i] = Current <=> i = n + 2)
  <2>1. Current \notin S /\ Index(t) # Current
    <3>1. MediaCurrent # Current /\ GraphCurrent # Current
      BY DEF MediaCurrent, GraphCurrent, Current
    <3> QED BY <1>9, <3>1 DEF S, Pointers
  <2>2. ASSUME NEW i \in 1..n PROVE plan[i] # Current /\ i # n + 2 /\ plan[i] \in S
    BY <1>3, <1>5, <2>1
  <2>3. n + 1 # n + 2
    BY <1>3
  <2> QED BY <1>4, <1>7, <1>11, <2>1, <2>2, <2>3
<1>13. \A f \in Generation(t) \cup Pointers : \E i \in 1..n + 2 : plan[i] = f
  BY <1>4, <1>6, <1>7, <1>11
<1>14. n + 2 \in Nat \ {0}
  BY <1>3
<1> QED BY <1>1, <1>4, <1>10, <1>12, <1>13, <1>14

-----------------------------------------------------------------------------
(* The steps.                                                              *)

\* The files of a plan are files of the store.
LEMMA FilesOfPlans ==
    ASSUME NEW t \in Targets
    PROVE  /\ Generation(t) \subseteq Files \ Pointers
           /\ Pointers \subseteq Files
           /\ \A i \in 1..Len(Plan(t)) : Plan(t)[i] \in Files
<1>1. Generation(t) \subseteq Files \ Pointers /\ Pointers \subseteq Files
  BY DEF Files, Generation
<1>2. \A i \in 1..Len(Plan(t)) : Plan(t)[i] \in Generation(t) \cup Pointers
  BY PlanFacts
<1> QED BY <1>1, <1>2

\* A running import has a file, which is the last one only for current.
LEMMA RunningFacts ==
    ASSUME Typed, NEW p \in Importers, Active(p)
    PROVE  LET t == import[p].target
               n == Len(Plan(t))
           IN  /\ t \in Targets /\ n \in Nat \ {0} /\ import[p].place \in 1..n
               /\ File(p) = At(p, import[p].place) /\ File(p) \in Files
               /\ File(p) = Current => import[p].place = n
<1>1. import[p].target \in Targets /\ import[p].place \in 1..Len(Plan(import[p].target))
  BY DEF Typed, InPlan, Active
<1> QED BY <1>1, PlanFacts, FilesOfPlans DEF File, At

\* The empty store satisfies IInv.
LEMMA InitIsGood ==
    ASSUME Init
    PROVE  IInv
<1>1. \A p \in Importers : import[p] = [state |-> "idle", target |-> NoTarget, place |-> 1,
                                        renamed |-> FALSE]
  BY DEF Init
<1>2. /\ \A f \in Files : kept[f] = {disk[f]}
      /\ \A f \in Files : disk[f] = IF f \in Pointers THEN NoTarget ELSE "absent"
      /\ disk = [f \in Files |-> disk[f]] /\ kept = [f \in Files |-> kept[f]]
  BY DEF Init
<1>3. FilesTyped
  <2>1. \A f \in Files : disk[f] \in kept[f]
    BY <1>2
  <2>2. \A f \in Files \ Pointers : disk[f] = "absent" /\ kept[f] = {"absent"}
    BY <1>2
  <2>3. \A f \in Pointers : f \in Files /\ disk[f] = NoTarget
    BY <1>2 DEF Files
  <2> QED BY <1>2, <2>1, <2>2, <2>3 DEF FilesTyped
<1>4. Typed
  BY <1>1, <1>3 DEF Init, Typed, Import, InPlan, ReaderTyped, Steps
<1>5. Undisturbed
  <2>1. \A f \in Pointers : disk[f] = NoTarget
    BY <1>2 DEF Files
  <2>2. \A f \in Files \ Pointers : disk[f] # "torn"
    BY <1>2
  <2>3. Current \in Pointers
    BY DEF Pointers
  <2> QED BY <1>1, <2>1, <2>2, <2>3, TargetsAssumption DEF Undisturbed
<1>6. Solitary /\ Checked
  BY DEF Init, Solitary, Checked
<1> QED BY <1>4, <1>5, <1>6 DEF IInv

\* What a step of an import does to a file: nothing, or it makes it good, and
\* a pointer names the target of the import.
LEMMA ProgressIsGood ==
    ASSUME IInv, NEW p \in Importers, Active(p), NEW r \in Import,
           r.target = import[p].target, r.state # "idle", InPlan(r),
           import' = [import EXCEPT ![p] = r],
           FilesTyped', UNCHANGED <<alone, reader, losses>>,
           \/ disk' = disk
           \/ disk' = [disk EXCEPT ![File(p)] = Value(File(p), import[p].target)],
           \A i \in Done(r) :
              \/ i \in Done(import[p])
              \/ /\ i = import[p].place
                 /\ disk'[File(p)] = Value(File(p), import[p].target)
    PROVE  IInv'
<1>t. PICK t \in Targets : t = import[p].target
  BY RunningFacts DEF IInv
<1>f. PICK file \in Files : file = File(p)
  BY RunningFacts DEF IInv
<1>1. /\ t \in Targets /\ t # NoTarget /\ file \in Files /\ file = At(p, import[p].place)
      /\ file = Current => import[p].place = Len(Plan(t))
  BY <1>t, <1>f, RunningFacts, TargetsAssumption DEF IInv
<1>2. /\ import'[p] = r /\ \A q \in Importers : q # p => import'[q] = import[q]
      /\ \A q \in Importers : import'[q].target = import[q].target
      /\ \A q \in Importers : (import'[q].state # "idle") = (import[q].state # "idle")
      /\ import' \in [Importers -> Import]
  BY DEF IInv, Typed, Active
<1>3. /\ disk'[file] = disk[file] \/ disk'[file] = Value(file, t)
      /\ \A f \in Files : f # file => disk'[f] = disk[f]
      /\ disk'[file] # disk[file] => disk' = [disk EXCEPT ![file] = Value(file, t)]
  BY <1>t, <1>f, <1>1 DEF IInv, Typed, FilesTyped
<1>4. \A q \in Importers : \A i : At(q, i)' = At(q, i)
  BY <1>2 DEF At
<1>5. Typed'
  BY <1>2 DEF IInv, Typed, InPlan, ReaderTyped
<1>6. \A f \in Files \ Pointers : disk[f] = "good" => disk'[f] = "good"
  BY <1>3 DEF Value
<1>7. \A f \in Files : Published(f) => Published(f)'
  BY <1>1, <1>3 DEF Published, Value
<1>8. Value(file, t) = disk'[file] => Published(file)'
  BY <1>1 DEF Published, Value
<1>9. \A q \in Importers : import[q].state # "idle" =>
        /\ import[q].target \in Targets
        /\ \A i \in Done(import[q]) : At(q, i) \in Files
  BY FilesOfPlans DEF IInv, Typed, InPlan, Done, At
<1>10. \A u \in Targets : Good(Generation(u)) => Good(Generation(u))'
  BY <1>6, FilesOfPlans DEF Good
<1>11. Undisturbed'
  <2> SUFFICES ASSUME losses = 0 PROVE Undisturbed'
    BY DEF Undisturbed
  <2>1. \A f \in Files \ Pointers : disk'[f] # "torn"
    BY <1>3 DEF IInv, Undisturbed, Value
  <2>2. ASSUME NEW q \in Importers, import'[q].state # "idle", NEW i \in Done(import'[q])
        PROVE  Published(At(q, i))'
    <3>1. CASE i \in Done(import[q])
      <4>1. Published(At(q, i)) /\ At(q, i) \in Files
        BY <1>2, <1>9, <2>2, <3>1 DEF IInv, Undisturbed
      <4> QED BY <1>4, <1>7, <4>1
    <3>2. CASE i \notin Done(import[q])
      <4>1. q = p /\ i = import[p].place /\ disk'[file] = Value(file, t)
        BY <1>t, <1>f, <1>2, <2>2, <3>2
      <4> QED BY <1>1, <1>4, <1>8, <4>1
    <3> QED BY <3>1, <3>2
  <2>3. ASSUME NEW u \in Targets, disk'[Current] = u
        PROVE  Good(Generation(u))' /\ \A f \in Pointers : Published(f)'
    <3>1. CASE disk[Current] = u
      <4>1. Good(Generation(u)) /\ \A f \in Pointers : Published(f)
        BY <3>1 DEF IInv, Undisturbed
      <4> QED BY <1>7, <1>10, <4>1 DEF Files
    <3>2. CASE disk[Current] # u
      <4>1. Current \in Pointers /\ Current \in Files
        BY DEF Files, Pointers
      <4>2. file = Current /\ u = t /\ disk'[file] = Value(file, t)
        BY <1>3, <2>3, <3>2, <4>1 DEF Value
      <4>3. import[p].place = Len(Plan(t)) /\ Len(Plan(t)) \in Nat \ {0}
        BY <1>1, <4>2, PlanFacts
      <4>4. ASSUME NEW i \in 1..Len(Plan(t)), i # Len(Plan(t))
            PROVE  Published(Plan(t)[i])
        <5>1. i \in Done(import[p])
          BY <1>t, <4>3, <4>4 DEF Done
        <5> QED BY <1>t, <5>1 DEF IInv, Undisturbed, Active, At
      <4>5. \A f \in Generation(t) \cup Pointers : f # Current => Published(f)
        BY <1>1, <4>4, PlanFacts
      <4>6. \A f \in Pointers : Published(f)'
        BY <1>7, <1>8, <4>2, <4>5 DEF Files
      <4>7. \A f \in Generation(t) : disk[f] = "good"
        BY <1>1, <4>1, <4>5, FilesOfPlans DEF Published
      <4> QED BY <1>1, <1>10, <4>2, <4>6, <4>7 DEF Good
    <3> QED BY <3>1, <3>2
  <2>4. ASSUME NEW f \in Pointers, disk'[f] # NoTarget
        PROVE  \E q \in Importers : import'[q].target = disk'[f]
    <3>1. f \in Files
      BY DEF Files
    <3>2. CASE disk'[f] = disk[f]
      BY <1>2, <2>4, <3>2 DEF IInv, Undisturbed
    <3>3. CASE disk'[f] # disk[f]
      BY <1>t, <1>2, <1>3, <2>4, <3>1, <3>3 DEF Value
    <3> QED BY <3>2, <3>3
  <2> QED BY <2>1, <2>2, <2>3, <2>4 DEF Undisturbed
<1>12. Solitary'
  <2> SUFFICES ASSUME NEW q \in alone
               PROVE  /\ alone = {q} /\ import'[q].state # "idle"
                      /\ \A o \in Importers : Active(o)' => o = q
                      /\ \A i \in Done(import'[q]) :
                            disk'[At(q, i)'] = Value(At(q, i)', import'[q].target)
    BY DEF Solitary
  <2>1. /\ alone = {q} /\ q \in Importers /\ import[q].state # "idle"
        /\ \A o \in Importers : Active(o) => o = q
        /\ \A i \in Done(import[q]) : disk[At(q, i)] = Value(At(q, i), import[q].target)
    BY DEF IInv, Solitary, Typed
  <2>2. q = p
    BY <2>1
  <2>3. import'[q].state # "idle" /\ \A o \in Importers : Active(o)' => o = q
    BY <1>2, <2>1, <2>2 DEF Active
  <2>4. ASSUME NEW i \in Done(import'[q])
        PROVE  disk'[At(q, i)] = Value(At(q, i), t)
    <3>1. CASE i \in Done(import[q])
      BY <1>t, <1>3, <1>9, <2>1, <2>2, <3>1
    <3>2. CASE i \notin Done(import[q])
      <4>1. i = import[p].place /\ disk'[file] = Value(file, t)
        BY <1>t, <1>f, <1>2, <2>2, <2>4, <3>2
      <4> QED BY <1>1, <2>2, <4>1
    <3> QED BY <3>1, <3>2
  <2> QED BY <1>t, <1>2, <1>4, <2>1, <2>2, <2>3, <2>4
<1>13. Checked'
  <2>1. reader' = reader /\ Checked /\ (reader.place # "closed" => reader.target \in Targets)
    BY DEF IInv, Typed, ReaderTyped
  <2>2. CASE reader.place = "closed"
    BY <2>1, <2>2 DEF Checked
  <2>3. CASE reader.place # "closed"
    <3> DEFINE u == reader.target
    <3>1. u \in Targets
      BY <2>1, <2>3
    <3>2. MediaFiles(u) \cup Blobs(u) \cup {Graph(u), Index(u)} \subseteq Files \ Pointers
      BY <3>1, PlanFacts, FilesOfPlans
    <3>3. /\ Good({Index(u)}) => Good({Index(u)})'
          /\ Good(MediaFiles(u)) => Good(MediaFiles(u))'
          /\ Good({Graph(u)}) => Good({Graph(u)})'
          /\ Good(Blobs(u)) => Good(Blobs(u))'
      BY <1>6, <2>1, <3>2 DEF Good
    <3> QED BY <2>1, <3>3 DEF Checked
  <2> QED BY <2>2, <2>3
<1> QED BY <1>5, <1>11, <1>12, <1>13 DEF IInv

\* Moving on from a file counts that file among those that are done.
LEMMA AdvancedFacts ==
    ASSUME Typed, NEW p \in Importers, Active(p)
    PROVE  LET r == Advanced(p)
           IN  /\ r \in Import /\ r.target = import[p].target /\ r.state # "idle"
               /\ InPlan(r)
               /\ \A i \in Done(r) : i \in Done(import[p]) \/ i = import[p].place
<1>1. PICK t \in Targets : t = import[p].target
  BY RunningFacts
<1>2. PICK n \in Nat : n = Len(Plan(t)) /\ n # 0
  BY PlanFacts
<1>3. import[p].place \in 1..n /\ import[p] \in Import /\ import[p].state = "running"
  BY <1>1, <1>2, RunningFacts DEF Typed, Active
<1>4. CASE import[p].place = n
  <2>1. Advanced(p) = [import[p] EXCEPT !.state = "passed", !.renamed = FALSE]
    BY <1>1, <1>2, <1>4 DEF Advanced
  <2>2. /\ Advanced(p) \in Import /\ Advanced(p).target = t
        /\ Advanced(p).state = "passed" /\ Advanced(p).place = n
    BY <1>1, <1>3, <1>4, <2>1 DEF Import
  <2> QED BY <1>1, <1>2, <1>3, <1>4, <2>2 DEF InPlan, Done
<1>5. CASE import[p].place # n
  <2>1. Advanced(p) = [import[p] EXCEPT !.place = @ + 1, !.renamed = FALSE]
    BY <1>1, <1>2, <1>5 DEF Advanced
  <2>2. import[p].place + 1 \in 1..n /\ import[p].place + 1 \in Nat
    BY <1>2, <1>3, <1>5
  <2>3. PICK next \in 1..n : next = import[p].place + 1
    BY <2>2
  <2>4. Advanced(p) = [import[p] EXCEPT !.place = next, !.renamed = FALSE]
    BY <1>3, <2>1, <2>3 DEF Import
  <2>5. /\ Advanced(p) \in Import /\ Advanced(p).target = t
        /\ Advanced(p).state = "running" /\ Advanced(p).place = next
        /\ ~Advanced(p).renamed
    BY <1>1, <1>3, <2>2, <2>3, <2>4 DEF Import
  <2> QED BY <1>1, <1>2, <1>3, <2>3, <2>5 DEF InPlan, Done
<1> QED BY <1>4, <1>5

\* Passing over a file that is already published keeps IInv.
LEMMA SkipIsGood ==
    ASSUME IInv, NEW p \in Importers, Skip(p)
    PROVE  IInv'
<1>1. Active(p) /\ Skipped(File(p)) /\ import' = [import EXCEPT ![p] = Advanced(p)]
      /\ UNCHANGED <<disk, kept, alone, reader, losses>>
  BY DEF Skip
<1>2. Typed /\ FilesTyped'
  BY <1>1 DEF IInv, Typed, FilesTyped
<1>3. PICK f \in Files : f = File(p)
  BY <1>1, <1>2, RunningFacts
<1>4. f \notin Pointers /\ disk[f] = "good"
  <2>1. f[1] \in Kinds
    BY <1>1, <1>3 DEF Skipped, Kinds
  <2>2. f \notin Pointers
    BY <1>1, <1>2, <2>1, RunningFacts, KindsOfFiles
  <2>3. CASE f[1] \in {"media", "blob", "index"}
    BY <1>1, <1>3, <2>2, <2>3 DEF Skipped
  <2>4. CASE f[1] \in {"media manifest", "graph"}
    <3>1. disk[f] # "absent" /\ f[1] # "media"
      BY <1>1, <1>3, <2>4 DEF Skipped
    <3> QED BY <1>2, <2>2, <3>1 DEF Typed, FilesTyped
  <2> QED BY <2>1, <2>2, <2>3, <2>4 DEF Kinds
<1>5. disk'[File(p)] = Value(File(p), import[p].target)
  BY <1>1, <1>3, <1>4 DEF Value
<1>6. PICK r : r = Advanced(p)
  OBVIOUS
<1>7. /\ r \in Import /\ r.target = import[p].target /\ r.state # "idle" /\ InPlan(r)
      /\ \A i \in Done(r) : i \in Done(import[p]) \/ i = import[p].place
  BY <1>1, <1>2, <1>6, AdvancedFacts
<1> QED BY <1>1, <1>2, <1>5, <1>6, <1>7, ProgressIsGood

\* Publishing a file under its name keeps IInv.
LEMMA RenameIsGood ==
    ASSUME IInv, NEW p \in Importers, Rename(p)
    PROVE  IInv'
<1>1. /\ Active(p) /\ UNCHANGED <<alone, reader, losses>>
      /\ disk' = [disk EXCEPT ![File(p)] = Value(File(p), import[p].target)]
      /\ kept' = [kept EXCEPT ![File(p)] =
                    @ \cup {Value(File(p), import[p].target)}
                      \cup IF WrittenSynced(File(p)) THEN {} ELSE {"torn"}]
      /\ import' = [import EXCEPT ![p] = IF NameSynced(File(p))
                                         THEN [@ EXCEPT !.renamed = TRUE]
                                         ELSE Advanced(p)]
  BY DEF Rename
<1>2. Typed
  BY DEF IInv
<1>3. PICK t \in Targets : t = import[p].target
  BY <1>1, <1>2, RunningFacts
<1>4. PICK f \in Files : f = File(p)
  BY <1>1, <1>2, RunningFacts
<1>5. /\ disk' = [disk EXCEPT ![f] = Value(f, t)]
      /\ kept' = [kept EXCEPT ![f] = @ \cup {Value(f, t)}
                                       \cup IF WrittenSynced(f) THEN {} ELSE {"torn"}]
  BY <1>1, <1>3, <1>4
<1>6. FilesTyped'
  <2>1. FilesTyped
    BY <1>2 DEF Typed
  <2>2. /\ disk' = [g \in Files |-> disk'[g]] /\ kept' = [g \in Files |-> kept'[g]]
        /\ disk'[f] = Value(f, t)
        /\ kept'[f] = kept[f] \cup {Value(f, t)} \cup IF WrittenSynced(f) THEN {} ELSE {"torn"}
        /\ \A g \in Files : g # f => disk'[g] = disk[g] /\ kept'[g] = kept[g]
    BY <1>5, <2>1 DEF FilesTyped
  <2>3. \A g \in Files : g # f =>
          /\ g \notin Pointers =>
                /\ disk'[g] \in {"absent", "torn", "good"} /\ disk'[g] \in kept'[g]
                /\ kept'[g] \subseteq {"absent", "torn", "good"}
                /\ "torn" \in kept'[g] => g[1] = "media"
          /\ g \in Pointers => disk'[g] \in Targets \cup {NoTarget} /\ disk'[g] \in kept'[g]
    BY <2>1, <2>2 DEF FilesTyped
  <2>4. CASE f \in Pointers
    <3>1. disk'[f] = t /\ t \in kept'[f]
      BY <2>2, <2>4 DEF Value
    <3> QED BY <2>2, <2>3, <2>4, <3>1 DEF FilesTyped, Files
  <2>5. CASE f \notin Pointers
    <3>1. disk'[f] = "good" /\ "good" \in kept'[f]
      BY <2>2, <2>5 DEF Value
    <3>2. kept'[f] \subseteq {"absent", "torn", "good"} /\ ("torn" \in kept'[f] => f[1] = "media")
      BY <2>1, <2>2, <2>5 DEF FilesTyped, Value, WrittenSynced
    <3> QED BY <2>2, <2>3, <2>5, <3>1, <3>2 DEF FilesTyped, Files
  <2> QED BY <2>4, <2>5
<1>7. disk'[File(p)] = Value(File(p), import[p].target)
  BY <1>2, <1>3, <1>4, <1>5 DEF Typed, FilesTyped
<1>8. CASE NameSynced(File(p))
  <2>1. PICK r : r = [import[p] EXCEPT !.renamed = TRUE]
    OBVIOUS
  <2>2. import[p] \in Import /\ InPlan(import[p]) /\ import[p].state = "running"
    BY <1>1, <1>2 DEF Typed, Active
  <2>3. /\ r \in Import /\ r.target = import[p].target /\ r.state = "running"
        /\ r.place = import[p].place
    BY <2>1, <2>2 DEF Import
  <2>4. InPlan(r)
    BY <2>2, <2>3 DEF InPlan
  <2>5. \A i \in Done(r) : i \in Done(import[p]) \/ i = import[p].place
    BY <2>3 DEF Done
  <2>6. import' = [import EXCEPT ![p] = r]
    BY <1>1, <1>2, <1>8, <2>1 DEF Typed
  <2> QED BY <1>1, <1>6, <1>7, <2>3, <2>4, <2>5, <2>6, ProgressIsGood
<1>9. CASE ~NameSynced(File(p))
  <2>1. PICK r : r = Advanced(p)
    OBVIOUS
  <2>2. /\ r \in Import /\ r.target = import[p].target /\ r.state # "idle" /\ InPlan(r)
        /\ \A i \in Done(r) : i \in Done(import[p]) \/ i = import[p].place
    BY <1>1, <1>2, <2>1, AdvancedFacts
  <2>3. import' = [import EXCEPT ![p] = r]
    BY <1>1, <1>2, <1>9, <2>1 DEF Typed
  <2> QED BY <1>1, <1>6, <1>7, <2>2, <2>3, ProgressIsGood
<1> QED BY <1>8, <1>9

\* Making a rename durable keeps IInv.
LEMMA SyncDirectoryIsGood ==
    ASSUME IInv, NEW p \in Importers, SyncDirectory(p)
    PROVE  IInv'
<1>1. /\ Active(p) /\ import[p].renamed /\ UNCHANGED <<disk, alone, reader, losses>>
      /\ kept' = [kept EXCEPT ![File(p)] = {disk[File(p)]}]
      /\ import' = [import EXCEPT ![p] = Advanced(p)]
  BY DEF SyncDirectory
<1>2. Typed
  BY DEF IInv
<1>3. PICK f \in Files : f = File(p)
  BY <1>1, <1>2, RunningFacts
<1>4. FilesTyped'
  <2>1. FilesTyped
    BY <1>2 DEF Typed
  <2>2. /\ kept' = [g \in Files |-> kept'[g]] /\ kept'[f] = {disk[f]}
        /\ \A g \in Files : g # f => kept'[g] = kept[g]
    BY <1>1, <1>3, <2>1 DEF FilesTyped
  <2>3. \A g \in Files : disk'[g] \in kept'[g] /\ kept'[g] \subseteq kept[g]
    BY <1>1, <2>1, <2>2 DEF FilesTyped
  <2> QED BY <1>1, <2>1, <2>2, <2>3 DEF FilesTyped, Files
<1>5. PICK r : r = Advanced(p)
  OBVIOUS
<1>6. /\ r \in Import /\ r.target = import[p].target /\ r.state # "idle" /\ InPlan(r)
      /\ \A i \in Done(r) : i \in Done(import[p]) \/ i = import[p].place
  BY <1>1, <1>2, <1>5, AdvancedFacts
<1>7. import[p].place \in Done(import[p])
  BY <1>1, <1>2, RunningFacts DEF Done
<1> QED BY <1>1, <1>4, <1>5, <1>6, <1>7, ProgressIsGood

\* An import that stops with an error keeps IInv.
LEMMA StopIsGood ==
    ASSUME IInv, NEW p \in Importers, Stop(p)
    PROVE  IInv'
<1>1. /\ Active(p) /\ UNCHANGED <<disk, kept, alone, reader, losses>>
      /\ import' = [import EXCEPT ![p].state = "failed"]
  BY DEF Stop
<1>2. Typed /\ FilesTyped'
  BY <1>1 DEF IInv, Typed, FilesTyped
<1>3. import[p] \in Import /\ InPlan(import[p]) /\ import[p].state = "running"
  BY <1>1, <1>2 DEF Typed, Active
<1>4. PICK r : r = [import[p] EXCEPT !.state = "failed"]
  OBVIOUS
<1>5. /\ r \in Import /\ r.target = import[p].target /\ r.state = "failed"
      /\ r.place = import[p].place /\ r.renamed = import[p].renamed
  BY <1>3, <1>4 DEF Import
<1>6. InPlan(r) /\ \A i \in Done(r) : i \in Done(import[p])
  BY <1>3, <1>5 DEF InPlan, Done
<1>7. import' = [import EXCEPT ![p] = r]
  BY <1>1, <1>2, <1>4 DEF Typed
<1> QED BY <1>1, <1>2, <1>5, <1>6, <1>7, ProgressIsGood

\* The start of an import keeps IInv.
LEMMA BeginIsGood ==
    ASSUME IInv, NEW p \in Importers, NEW t \in Targets, Begin(p, t)
    PROVE  IInv'
<1>1. /\ import[p].state = "idle" /\ UNCHANGED <<disk, kept, reader, losses>>
      /\ import' = [import EXCEPT ![p].state = "running", ![p].target = t]
      /\ alone' = IF \E q \in Importers : Active(q) THEN {} ELSE {p}
  BY DEF Begin
<1>2. Typed
  BY DEF IInv
<1>3. import[p] \in Import /\ import[p].target = NoTarget /\ import[p].place = 1
      /\ ~import[p].renamed
  BY <1>1, <1>2 DEF Typed, InPlan
<1>4. PICK r : r = [import[p] EXCEPT !.state = "running", !.target = t]
  OBVIOUS
<1>5. /\ r \in Import /\ r.target = t /\ r.state = "running" /\ r.place = 1 /\ ~r.renamed
  BY <1>3, <1>4 DEF Import
<1>6. Len(Plan(t)) \in Nat \ {0}
  BY PlanFacts
<1>7. InPlan(r) /\ Done(r) = {}
  BY <1>5, <1>6 DEF InPlan, Done
<1>8. /\ import'[p] = r /\ \A q \in Importers : q # p => import'[q] = import[q]
      /\ import' \in [Importers -> Import]
  BY <1>1, <1>2, <1>4, <1>5 DEF Typed
<1>9. Typed'
  BY <1>1, <1>2, <1>7, <1>8 DEF Typed, FilesTyped, InPlan, ReaderTyped
<1>10. Undisturbed'
  <2> SUFFICES ASSUME losses = 0 PROVE Undisturbed'
    BY <1>1 DEF Undisturbed
  <2>1. ASSUME NEW q \in Importers, import'[q].state # "idle", NEW i \in Done(import'[q])
        PROVE  Published(At(q, i))'
    <3>1. q # p
      BY <1>7, <1>8, <2>1
    <3>2. Published(At(q, i)) /\ At(q, i)' = At(q, i)
      BY <1>8, <2>1, <3>1 DEF IInv, Undisturbed, At
    <3> QED BY <1>1, <3>2 DEF Published
  <2>2. ASSUME NEW f \in Pointers, disk[f] # NoTarget
        PROVE  \E q \in Importers : import'[q].target = disk[f]
    <3>1. PICK q \in Importers : import[q].target = disk[f]
      BY <2>2 DEF IInv, Undisturbed
    <3> QED BY <1>3, <1>8, <2>2, <3>1
  <2>3. /\ \A f \in Files \ Pointers : disk'[f] # "torn"
        /\ \A u \in Targets : disk'[Current] = u =>
              Good(Generation(u))' /\ \A f \in Pointers : Published(f)'
    BY <1>1 DEF IInv, Undisturbed, Good, Published
  <2> QED BY <1>1, <2>1, <2>2, <2>3 DEF Undisturbed
<1>11. Solitary'
  <2> SUFFICES ASSUME NEW q \in alone'
               PROVE  /\ alone' = {q} /\ import'[q].state # "idle"
                      /\ \A o \in Importers : Active(o)' => o = q
                      /\ Done(import'[q]) = {}
    BY DEF Solitary
  <2>1. q = p /\ alone' = {p} /\ ~\E o \in Importers : Active(o)
    BY <1>1
  <2> QED BY <1>5, <1>7, <1>8, <2>1 DEF Active
<1>12. Checked'
  BY <1>1 DEF IInv, Checked, Good
<1> QED BY <1>9, <1>10, <1>11, <1>12 DEF IInv

\* A step of the store changes nothing else; what it has checked is good.
LEMMA ReaderIsGood ==
    ASSUME IInv, UNCHANGED <<disk, kept, import, alone, losses>>, ReaderTyped', Checked'
    PROVE  IInv'
<1>1. Typed'
  BY DEF IInv, Typed, FilesTyped, InPlan
<1>2. Undisturbed'
  BY DEF IInv, Undisturbed, Published, Good, At, Done
<1>3. Solitary'
  BY DEF IInv, Solitary, Active, At, Done
<1> QED BY <1>1, <1>2, <1>3 DEF IInv

\* A reader that starts to open the store keeps IInv.
LEMMA OpenStoreIsGood ==
    ASSUME IInv, NEW t \in Targets, OpenStore(t)
    PROVE  IInv'
<1>1. /\ reader' = [target |-> t, place |-> "current"]
      /\ UNCHANGED <<disk, kept, import, alone, losses>>
  BY DEF OpenStore
<1>2. ReaderTyped' /\ Checked'
  BY <1>1 DEF ReaderTyped, Checked, Steps
<1> QED BY <1>1, <1>2, ReaderIsGood

\* Each check of a reader keeps IInv.
LEMMA ChecksIsGood ==
    ASSUME IInv, Checks
    PROVE  IInv'
<1>1. UNCHANGED <<disk, kept, import, alone, losses>>
  BY DEF Checks
<1>2. /\ DOMAIN OpenSteps = 1..6 /\ Len(OpenSteps) = 6
      /\ OpenSteps[1] = "current" /\ OpenSteps[2] = "index" /\ OpenSteps[3] = "media"
      /\ OpenSteps[4] = "graph" /\ OpenSteps[5] = "blobs" /\ OpenSteps[6] = "open"
  BY DEF OpenSteps
<1>3. ReaderTyped /\ Checked
  BY DEF IInv, Typed
<1>4. CASE reader' = [reader EXCEPT !.place = "closed"]
  <2>1. reader'.place = "closed"
        /\ reader' \in [target : Targets \cup {NoTarget}, place : Steps \cup {"closed"}]
    BY <1>3, <1>4 DEF ReaderTyped
  <2>2. ReaderTyped' /\ Checked'
    BY <2>1 DEF ReaderTyped, Checked
  <2> QED BY <1>1, <2>2, ReaderIsGood
<1>5. CASE /\ Finds(reader.place, reader.target)
           /\ \E i \in 1 .. Len(OpenSteps) - 1 :
                 /\ OpenSteps[i] = reader.place
                 /\ reader' = [reader EXCEPT !.place = OpenSteps[i + 1]]
  <2>1. PICK i \in 1..5 : /\ OpenSteps[i] = reader.place
                          /\ reader' = [reader EXCEPT !.place = OpenSteps[i + 1]]
    BY <1>2, <1>5
  <2>2. PICK t : t = reader.target
    OBVIOUS
  <2>3. PICK next \in Steps : next = OpenSteps[i + 1]
    BY <1>2, <2>1 DEF Steps
  <2>4. reader' = [target |-> t, place |-> next] /\ t \in Targets
    BY <1>2, <1>3, <2>1, <2>2, <2>3 DEF ReaderTyped
  <2>5. ReaderTyped'
    BY <2>4 DEF ReaderTyped
  <2>6. /\ next \in {"media", "graph", "blobs", "open"} => Good({Index(t)})
        /\ next \in {"graph", "blobs", "open"} => Good(MediaFiles(t))
        /\ next \in {"blobs", "open"} => Good({Graph(t)})
        /\ next = "open" => Good(Blobs(t))
    <3>1. CASE i = 1
      BY <1>2, <2>3, <3>1
    <3>2. CASE i = 2
      <4>1. reader.place = "index" /\ next = "media" /\ Finds("index", t)
        BY <1>2, <1>5, <2>1, <2>2, <2>3, <3>2
      <4> QED BY <4>1 DEF Finds
    <3>3. CASE i = 3
      <4>1. reader.place = "media" /\ next = "graph" /\ Finds("media", t)
        BY <1>2, <1>5, <2>1, <2>2, <2>3, <3>3
      <4>2. Good({Index(t)})
        BY <1>3, <2>2, <4>1 DEF Checked
      <4> QED BY <4>1, <4>2 DEF Finds
    <3>4. CASE i = 4
      <4>1. reader.place = "graph" /\ next = "blobs" /\ Finds("graph", t)
        BY <1>2, <1>5, <2>1, <2>2, <2>3, <3>4
      <4>2. Good({Index(t)}) /\ Good(MediaFiles(t))
        BY <1>3, <2>2, <4>1 DEF Checked
      <4> QED BY <4>1, <4>2 DEF Finds
    <3>5. CASE i = 5
      <4>1. reader.place = "blobs" /\ next = "open" /\ Finds("blobs", t)
        BY <1>2, <1>5, <2>1, <2>2, <2>3, <3>5
      <4>2. Good({Index(t)}) /\ Good(MediaFiles(t)) /\ Good({Graph(t)})
        BY <1>3, <2>2, <4>1 DEF Checked
      <4> QED BY <4>1, <4>2 DEF Finds
    <3> QED BY <3>1, <3>2, <3>3, <3>4, <3>5
  <2>7. reader'.place = next /\ reader'.target = t
    BY <2>4
  <2>8. Checked'
    BY <1>1, <2>6, <2>7 DEF Checked, Good
  <2> QED BY <1>1, <2>5, <2>8, ReaderIsGood
<1> QED BY <1>4, <1>5 DEF Checks

\* A reader that lets go of the store keeps IInv.
LEMMA CloseStoreIsGood ==
    ASSUME IInv, CloseStore
    PROVE  IInv'
<1>1. /\ reader' = [reader EXCEPT !.place = "closed"]
      /\ UNCHANGED <<disk, kept, import, alone, losses>>
  BY DEF CloseStore
<1>2. reader'.place = "closed"
      /\ reader' \in [target : Targets \cup {NoTarget}, place : Steps \cup {"closed"}]
  BY <1>1 DEF IInv, Typed, ReaderTyped
<1>3. ReaderTyped' /\ Checked'
  BY <1>2 DEF ReaderTyped, Checked
<1> QED BY <1>1, <1>3, ReaderIsGood

\* Each name has one of the values it may have kept.
LEMMA LeftoversAreKept ==
    ASSUME FilesTyped, NEW d \in Leftovers
    PROVE  /\ d = [f \in Files |-> d[f]]
           /\ \A f \in Files : d[f] \in kept[f]
           /\ \A f \in Files \ Pointers : d[f] \in {"absent", "torn", "good"}
           /\ \A f \in Pointers : d[f] \in Targets \cup {NoTarget}
<1> DEFINE F == {e \in [Unsure \ Pointers -> {"absent", "torn", "good"}] :
                    \A f \in DOMAIN e : e[f] \in kept[f]}
           N == {e \in [Unsure \cap Pointers -> Targets \cup {NoTarget}] :
                    \A f \in DOMAIN e : e[f] \in kept[f]}
           G(x, y) == [f \in Files |-> IF f \in DOMAIN x THEN x[f]
                                       ELSE IF f \in DOMAIN y THEN y[f] ELSE disk[f]]
<1>0. Leftovers = {G(x, y) : x \in F, y \in N}
  BY DEF Leftovers
<1> HIDE DEF F, N, G
<1>p. PICK found \in F, named \in N : d = G(found, named)
  BY <1>0
<1> USE DEF F, N, G
<1>1. d = [f \in Files |-> IF f \in DOMAIN found THEN found[f]
                           ELSE IF f \in DOMAIN named THEN named[f] ELSE disk[f]]
  BY <1>p
<1>2. DOMAIN found = Unsure \ Pointers /\ DOMAIN named = Unsure \cap Pointers
  OBVIOUS
<1>3. Pointers \subseteq Files
  BY DEF Files
<1>4. ASSUME NEW f \in Files
      PROVE  /\ d[f] \in kept[f]
             /\ f \notin Pointers => d[f] \in {"absent", "torn", "good"}
             /\ f \in Pointers => d[f] \in Targets \cup {NoTarget}
  <2>1. CASE f \in Unsure \ Pointers
    BY <1>1, <1>2, <2>1
  <2>2. CASE f \in Unsure \cap Pointers
    BY <1>1, <1>2, <2>2
  <2>3. CASE f \notin Unsure
    <3>1. d[f] = disk[f]
      BY <1>1, <1>2, <2>3
    <3> QED BY <3>1 DEF FilesTyped
  <2> QED BY <2>1, <2>2, <2>3
<1> QED BY <1>1, <1>3, <1>4

\* After a power failure nothing is open, nothing runs and nobody is alone.
LEMMA PowerFailsIsGood ==
    ASSUME IInv, PowerFails
    PROVE  IInv'
<1>1. /\ losses' = losses + 1 /\ disk' \in Leftovers
      /\ kept' = [f \in Files |-> {disk'[f]}]
      /\ import' = [p \in Importers |->
                      IF Active(p) THEN [import[p] EXCEPT !.state = "failed"] ELSE import[p]]
      /\ alone' = {} /\ reader' = [reader EXCEPT !.place = "closed"]
  BY DEF PowerFails
<1>2. Typed /\ FilesTyped
  BY DEF IInv, Typed
<1>3. FilesTyped'
  <2>1. /\ disk' = [f \in Files |-> disk'[f]]
        /\ \A f \in Files : disk'[f] \in kept[f]
        /\ \A f \in Files \ Pointers : disk'[f] \in {"absent", "torn", "good"}
        /\ \A f \in Pointers : disk'[f] \in Targets \cup {NoTarget}
    BY <1>1, <1>2, LeftoversAreKept
  <2>2. kept' = [f \in Files |-> kept'[f]] /\ \A f \in Files : kept'[f] = {disk'[f]}
    BY <1>1
  <2>3. \A f \in Files \ Pointers :
          /\ disk'[f] \in {"absent", "torn", "good"} /\ disk'[f] \in kept'[f]
          /\ kept'[f] \subseteq {"absent", "torn", "good"}
          /\ "torn" \in kept'[f] => f[1] = "media"
    BY <1>2, <2>1, <2>2 DEF FilesTyped
  <2>4. \A f \in Pointers : disk'[f] \in Targets \cup {NoTarget} /\ disk'[f] \in kept'[f]
    BY <2>1, <2>2 DEF Files
  <2> QED BY <2>1, <2>2, <2>3, <2>4 DEF FilesTyped
<1>4. \A p \in Importers : import'[p] \in Import /\ InPlan(import'[p])
  <2> TAKE p \in Importers
  <2>1. import[p] \in Import /\ InPlan(import[p])
    BY <1>2 DEF Typed
  <2>2. CASE Active(p)
    <3>1. import'[p] = [import[p] EXCEPT !.state = "failed"]
      BY <1>1, <2>2
    <3>2. /\ import'[p] \in Import /\ import'[p].state = "failed"
          /\ import'[p].target = import[p].target /\ import'[p].place = import[p].place
      BY <2>1, <3>1 DEF Import
    <3> QED BY <2>1, <2>2, <3>2 DEF InPlan, Active
  <2>3. CASE ~Active(p)
    BY <1>1, <2>1, <2>3
  <2> QED BY <2>2, <2>3
<1>5. import' \in [Importers -> Import]
  BY <1>1, <1>4
<1>6. reader'.place = "closed"
      /\ reader' \in [target : Targets \cup {NoTarget}, place : Steps \cup {"closed"}]
  BY <1>1, <1>2 DEF Typed, ReaderTyped
<1>7. losses' \in Nat /\ losses' # 0
  BY <1>1, <1>2 DEF Typed
<1>8. Typed'
  BY <1>1, <1>3, <1>4, <1>5, <1>6, <1>7 DEF Typed, ReaderTyped
<1> QED BY <1>1, <1>6, <1>7, <1>8 DEF IInv, Undisturbed, Solitary, Checked

\* The inductive invariant.
THEOREM Invariance == Spec => []IInv
<1>1. Init => IInv
  BY InitIsGood
<1>2. IInv /\ [Next]_vars => IInv'
  <2> SUFFICES ASSUME IInv, [Next]_vars
               PROVE  IInv'
    OBVIOUS
  <2>1. ASSUME NEW p \in Importers, NEW t \in Targets, Begin(p, t) PROVE IInv'
    BY <2>1, BeginIsGood
  <2>2. ASSUME NEW p \in Importers, Skip(p) PROVE IInv'
    BY <2>2, SkipIsGood
  <2>3. ASSUME NEW p \in Importers, Rename(p) PROVE IInv'
    BY <2>3, RenameIsGood
  <2>4. ASSUME NEW p \in Importers, SyncDirectory(p) PROVE IInv'
    BY <2>4, SyncDirectoryIsGood
  <2>5. ASSUME NEW p \in Importers, Stop(p) PROVE IInv'
    BY <2>5, StopIsGood
  <2>6. ASSUME NEW t \in Targets, OpenStore(t) PROVE IInv'
    BY <2>6, OpenStoreIsGood
  <2>7. CASE Checks
    BY <2>7, ChecksIsGood
  <2>8. CASE CloseStore
    BY <2>8, CloseStoreIsGood
  <2>9. CASE PowerFails
    BY <2>9, PowerFailsIsGood
  <2>10. CASE UNCHANGED vars
    <3>1. UNCHANGED <<disk, kept, import, alone, losses>> /\ reader' = reader
      BY <2>10 DEF vars
    <3>2. ReaderTyped' /\ Checked'
      BY <3>1 DEF IInv, Typed, ReaderTyped, Checked, Good
    <3> QED BY <3>1, <3>2, ReaderIsGood
  <2> QED BY <2>1, <2>2, <2>3, <2>4, <2>5, <2>6, <2>7, <2>8, <2>9, <2>10 DEF Next
<1> QED BY <1>1, <1>2, PTL DEF Spec

-----------------------------------------------------------------------------
(* The properties.                                                         *)

\* A cache opens if everything a target names is there.
LEMMA WholeIsOpenable ==
    ASSUME NEW t \in Targets, Good(Generation(t)), \A f \in Pointers : disk[f] = t
    PROVE  Openable(t)
<1>1. /\ Good({Index(t)}) /\ Good(MediaFiles(t)) /\ Good({Graph(t)}) /\ Good(Blobs(t))
  BY PlanFacts DEF Good
<1>2. disk[Current] = t /\ disk[MediaCurrent] = t /\ disk[GraphCurrent] = t
  BY DEF Pointers
<1>3. Finds("current", t) /\ Finds("index", t)
  BY <1>1, <1>2 DEF Finds
<1>4. Finds("media", t)
  BY <1>1, <1>2 DEF Finds
<1>5. Finds("graph", t)
  BY <1>1, <1>2 DEF Finds
<1>6. Finds("blobs", t)
  BY <1>1 DEF Finds
<1>7. /\ Len(OpenSteps) - 1 = 5
      /\ OpenSteps[1] = "current" /\ OpenSteps[2] = "index" /\ OpenSteps[3] = "media"
      /\ OpenSteps[4] = "graph" /\ OpenSteps[5] = "blobs"
  BY DEF OpenSteps
<1>8. \A i \in 1..5 : i \in {1, 2, 3, 4, 5}
  OBVIOUS
<1> QED BY <1>3, <1>4, <1>5, <1>6, <1>7, <1>8 DEF Openable

\* Imports that fail, die or race leave the generation that current names
\* whole; with a single target it can be opened at every moment.
THEOREM PublishedTheorem == Spec => []PublishedIsComplete
<1>1. IInv => PublishedIsComplete
  <2> SUFFICES ASSUME IInv, NEW t \in Targets, losses = 0, disk[Current] = t
               PROVE  /\ Good(Generation(t))
                      /\ {import[p].target : p \in Importers} \subseteq {t, NoTarget}
                         => Openable(t)
    BY DEF PublishedIsComplete
  <2>1. Good(Generation(t)) /\ \A f \in Pointers : Published(f)
    BY DEF IInv, Undisturbed
  <2>2. ASSUME {import[p].target : p \in Importers} \subseteq {t, NoTarget}
        PROVE  \A f \in Pointers : disk[f] = t
    <3>1. \A f \in Pointers : disk[f] # NoTarget
      BY <2>1 DEF Published
    <3> QED BY <2>2, <3>1 DEF IInv, Undisturbed
  <2> QED BY <2>1, <2>2, WholeIsOpenable
<1> QED BY <1>1, Invariance, PTL

\* An import that passed and had the cache for itself repairs it, whatever
\* power failures and failed imports have left there.
THEOREM RepairTheorem == Spec => []ReimportRepairs
<1>1. IInv => ReimportRepairs
  <2> SUFFICES ASSUME IInv, NEW p \in alone, import[p].state = "passed"
               PROVE  Openable(import[p].target)
    BY DEF ReimportRepairs
  <2>1. PICK t \in Targets : t = import[p].target /\ import[p].place \in 1..Len(Plan(t))
    BY DEF IInv, Typed, InPlan
  <2>2. import[p].place = Len(Plan(t))
    BY <2>1 DEF IInv, Typed, InPlan
  <2>3. Done(import[p]) = 1..Len(Plan(t))
    BY <2>1, <2>2, PlanFacts DEF Done
  <2>4. \A i \in 1..Len(Plan(t)) : disk[Plan(t)[i]] = Value(Plan(t)[i], t)
    BY <2>1, <2>3 DEF IInv, Solitary, At
  <2>5. \A f \in Generation(t) \cup Pointers : disk[f] = Value(f, t)
    BY <2>4, PlanFacts
  <2>6. Good(Generation(t)) /\ \A f \in Pointers : disk[f] = t
    BY <2>5, FilesOfPlans DEF Value, Good
  <2> QED BY <2>1, <2>6, WholeIsOpenable
<1> QED BY <1>1, Invariance, PTL

\* What a store was checked to have while imports went on stays readable.
THEOREM OpenedTheorem == Spec => []OpenedStaysWhole
<1>1. IInv => OpenedStaysWhole
  <2> SUFFICES ASSUME IInv, reader.place = "open"
               PROVE  Good(Generation(reader.target))
    BY DEF OpenedStaysWhole
  <2>1. PICK t \in Targets : t = reader.target
    BY DEF IInv, Typed, ReaderTyped
  <2>2. Good({Index(t)}) /\ Good(MediaFiles(t)) /\ Good({Graph(t)}) /\ Good(Blobs(t))
    BY <2>1 DEF IInv, Checked
  <2> QED BY <2>1, <2>2, PlanFacts DEF Good
<1> QED BY <1>1, Invariance, PTL
=============================================================================
