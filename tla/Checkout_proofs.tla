--------------------------- MODULE Checkout_proofs ---------------------------
(***************************************************************************)
(* Proofs about the engine checkout, for every set of processes and jobs,  *)
(* every sequence of patches and adapters, every revision and every bound. *)
(*                                                                         *)
(* A job is a sequence of steps and what is left of it is a suffix, so     *)
(* what the order of the steps guarantees is an invariant of suffixes:     *)
(*   Ordered  what must come right before, and what must still come after; *)
(*   Once     one private Design build before anything is published of it. *)
(* It is proved once for the sequences of Checkout, piece by piece         *)
(* (JobsOrdered), and kept by every step that goes on or skips (Running).  *)
(* Each step is then described by what it does to its own job and to those *)
(* of the others (Moved, Stays), and the invariants are proved from that:  *)
(*   Pulls     nothing is left of the user's edits right before a pull;    *)
(*   Builds    what the two publications copy is current or marked as old; *)
(*   Builders  who still gives the lock back has it, so it excludes;       *)
(*   Stamps    no stamp while the pair is published by the one that has    *)
(*             the lock;                                                   *)
(*   Designs   the number of a job stands for one source (with Numbered).  *)
(***************************************************************************)
EXTENDS Checkout, SequenceTheorems, WellFoundedInduction, TLAPS

(* What a job has to do, and what is known of the order of its steps.      *)
Names ==
  {"lock", "agent_fresh", "unstamp", "read", "compile", "link", "compare", "agent", "cowork",
   "stamp", "unlock", "snapshot", "design_fresh", "private", "same", "design", "receipt",
   "inspect", "download", "clear", "place", "apply", "restore", "make", "anchors", "status",
   "diff", "pull", "server_ready", "make_server", "ready"}
Todo == Seq(Names \X (Patches \cup {"none"}))

(* Every b comes right after an a; the first step of what is left of a job *)
(* may be one whose a is done.                                             *)
After(t, a, b, first) ==
  \A i \in 1 .. Len(t) : t[i][1] = b => IF i = 1 THEN first ELSE t[i - 1][1] = a
(* Every a is followed by a b, and by none of no before that.              *)
Then(t, a, b, no) ==
  \A i \in 1 .. Len(t) : t[i][1] = a =>
    \E j \in i .. Len(t) : t[j][1] = b /\ \A k \in i .. j - 1 : t[k][1] \notin no
(* Between c and b there is an a, and there is one before the first b, too, *)
(* if the job is not begun.                                                *)
Paired(t, c, a, b, begun) ==
  /\ \A i, j \in 1 .. Len(t) : i < j /\ t[i][1] = c /\ t[j][1] = b =>
       \E k \in i .. j : t[k][1] = a
  /\ \A j \in 1 .. Len(t) : t[j][1] = b => begun \/ \E k \in 1 .. j : t[k][1] = a

Linked(t, begun) ==
  /\ After(t, "diff", "pull", begun) /\ After(t, "compare", "agent", begun)
  /\ After(t, "agent", "cowork", begun) /\ After(t, "cowork", "stamp", begun)
  /\ Then(t, "inspect", "apply", {"lock", "unstamp"})
  /\ \A x \in {"agent_fresh", "design_fresh", "stamp"} : Then(t, x, "unlock", {"lock"})
  /\ \A x \in {"agent", "cowork"} : Then(t, x, "stamp", {"unstamp"})
  /\ \A x \in {"lock", "stamp"} : Paired(t, x, "unstamp", "stamp", begun)
Ordered(t, begun) ==
  t \in Todo /\ Linked(t, begun) /\ Paired(t, "unlock", "lock", "unlock", begun)

(* A job prepares one Design binary, before it publishes it.               *)
Preparing == {"private", "design", "receipt"}
Once(t) == \A i, j \in 1 .. Len(t) : i < j => t[i][1] \notin Preparing \/ t[j][1] # "private"

(* The end of a sequence from n on.                                        *)
Rest(u, t, n) ==
  /\ u \in Todo /\ n \in 1 .. Len(t) + 1 /\ Len(u) = Len(t) - n + 1
  /\ \A i \in 1 .. Len(u) : u[i] = t[i + n - 1]

LEMMA TodoLen ==
  ASSUME NEW t \in Todo
  PROVE  Len(t) \in Nat /\ \A i \in 1 .. Len(t) : t[i] \in Names \X (Patches \cup {"none"})
  BY LenProperties, ElementOfSeq DEF Todo

LEMMA Joined ==
  ASSUME NEW s \in Todo, NEW t \in Todo
  PROVE  /\ s \o t \in Todo /\ Len(s \o t) = Len(s) + Len(t)
         /\ \A i \in 1 .. Len(s) : (s \o t)[i] = s[i]
         /\ \A i \in 1 .. Len(t) : (s \o t)[Len(s) + i] = t[i]
         /\ \A i \in 1 .. Len(s) + Len(t) :
              IF i <= Len(s) THEN (s \o t)[i] = s[i]
              ELSE i - Len(s) \in 1 .. Len(t) /\ (s \o t)[i] = t[i - Len(s)]
<1>1. /\ s \o t \in Todo /\ Len(s \o t) = Len(s) + Len(t) /\ Len(s) \in Nat /\ Len(t) \in Nat
      /\ \A i \in 1 .. Len(s) + Len(t) :
           (s \o t)[i] = IF i <= Len(s) THEN s[i] ELSE t[i - Len(s)]
  BY ConcatProperties, TodoLen DEF Todo
<1> HIDE DEF Todo
<1> DEFINE u == s \o t
<1>2. \A i \in 1 .. Len(t) : u[Len(s) + i] = t[i]
  <2>1. TAKE i \in 1 .. Len(t)
  <2>2. Len(s) + i \in 1 .. Len(s) + Len(t) /\ ~(Len(s) + i <= Len(s)) /\ Len(s) + i - Len(s) = i
    BY <1>1
  <2>3. QED
    BY <1>1, <2>2
<1>3. QED
  BY <1>1, <1>2

LEMMA AfterJoined ==
  ASSUME NEW s \in Todo, NEW t \in Todo, NEW a, NEW b, After(s, a, b, FALSE), After(t, a, b, FALSE)
  PROVE  After(s \o t, a, b, FALSE)
<1> DEFINE u == s \o t
<1>1. Len(s) \in Nat /\ Len(t) \in Nat
  BY TodoLen
<1>2. /\ Len(u) = Len(s) + Len(t)
      /\ \A i \in 1 .. Len(s) : u[i] = s[i]
      /\ \A i \in 1 .. Len(t) : u[Len(s) + i] = t[i]
  BY Joined
<1> HIDE DEF u
<1>3. ASSUME NEW i \in 1 .. Len(u), u[i][1] = b PROVE i # 1 /\ u[i - 1][1] = a
  <2>1. CASE i <= Len(s)
    <3>1. i \in 1 .. Len(s)
      BY <1>1, <2>1
    <3>2. s[i][1] = b
      BY <1>2, <1>3, <3>1
    <3>3. i # 1 /\ s[i - 1][1] = a
      BY <3>1, <3>2 DEF After
    <3>4. i - 1 \in 1 .. Len(s)
      BY <3>1, <3>3
    <3>5. QED
      BY <1>2, <3>3, <3>4
  <2>2. CASE i > Len(s)
    <3>1. PICK j \in 1 .. Len(t) : i = Len(s) + j
      <4>1. i - Len(s) \in 1 .. Len(t) /\ i = Len(s) + (i - Len(s))
        BY <1>1, <1>2, <2>2
      <4>2. QED
        BY <4>1
    <3>2. t[j][1] = b
      BY <1>2, <1>3, <3>1
    <3>3. j # 1 /\ t[j - 1][1] = a
      BY <3>2 DEF After
    <3>4. j - 1 \in 1 .. Len(t) /\ i - 1 = Len(s) + (j - 1)
      BY <1>1, <3>1, <3>3
    <3>5. u[i - 1] = t[j - 1]
      BY <1>2, <3>4
    <3>6. i # 1
      BY <1>1, <3>1, <3>3
    <3>7. QED
      BY <3>3, <3>5, <3>6
  <2>3. QED
    BY <1>1, <2>1, <2>2
<1>4. QED
  BY <1>3 DEF After, u

LEMMA ThenJoined ==
  ASSUME NEW s \in Todo, NEW t \in Todo, NEW a, NEW b, NEW no, Then(s, a, b, no), Then(t, a, b, no)
  PROVE  Then(s \o t, a, b, no)
<1> DEFINE u == s \o t
<1>1. Len(s) \in Nat /\ Len(t) \in Nat
  BY TodoLen
<1>2. /\ Len(u) = Len(s) + Len(t)
      /\ \A i \in 1 .. Len(s) : u[i] = s[i]
      /\ \A i \in 1 .. Len(t) : u[Len(s) + i] = t[i]
  BY Joined
<1> HIDE DEF u
<1>3. ASSUME NEW i \in 1 .. Len(u), u[i][1] = a
      PROVE  \E j \in i .. Len(u) : u[j][1] = b /\ \A k \in i .. j - 1 : u[k][1] \notin no
  <2>1. CASE i <= Len(s)
    <3>1. i \in 1 .. Len(s)
      BY <1>1, <2>1
    <3>2. s[i][1] = a
      BY <1>2, <1>3, <3>1
    <3>3. PICK j \in i .. Len(s) : s[j][1] = b /\ \A k \in i .. j - 1 : s[k][1] \notin no
      BY <3>1, <3>2 DEF Then
    <3>4. j \in i .. Len(u) /\ j \in 1 .. Len(s) /\ \A k \in i .. j - 1 : k \in 1 .. Len(s)
      BY <1>1, <1>2, <3>1, <3>3
    <3>5. QED
      BY <1>2, <3>3, <3>4
  <2>2. CASE i > Len(s)
    <3> DEFINE d == i - Len(s)
    <3>1. d \in 1 .. Len(t) /\ i = Len(s) + d
      BY <1>1, <1>2, <2>2
    <3> HIDE DEF d
    <3>2. t[d][1] = a
      BY <1>2, <1>3, <3>1
    <3>3. PICK j \in d .. Len(t) : t[j][1] = b /\ \A k \in d .. j - 1 : t[k][1] \notin no
      BY <3>1, <3>2 DEF Then
    <3>4. Len(s) + j \in i .. Len(u) /\ j \in 1 .. Len(t) /\ u[Len(s) + j] = t[j]
      BY <1>1, <1>2, <3>1, <3>3
    <3>5. ASSUME NEW k \in i .. (Len(s) + j) - 1 PROVE u[k][1] \notin no
      <4>1. k - Len(s) \in d .. j - 1 /\ k - Len(s) \in 1 .. Len(t) /\ k = Len(s) + (k - Len(s))
        BY <1>1, <3>1, <3>3
      <4>2. u[k] = t[k - Len(s)]
        BY <1>2, <4>1
      <4>3. QED
        BY <3>3, <4>1, <4>2
    <3>6. u[Len(s) + j][1] = b
      BY <3>3, <3>4
    <3>7. QED
      BY <3>4, <3>5, <3>6
  <2>3. QED
    BY <1>1, <2>1, <2>2
<1>4. QED
  BY <1>3 DEF Then, u

LEMMA PairedJoined ==
  ASSUME NEW s \in Todo, NEW t \in Todo, NEW c, NEW a, NEW b, Paired(s, c, a, b, FALSE), Paired(t, c, a, b, FALSE)
  PROVE  Paired(s \o t, c, a, b, FALSE)
<1> DEFINE u == s \o t
<1>1. Len(s) \in Nat /\ Len(t) \in Nat
  BY TodoLen
<1>2. /\ Len(u) = Len(s) + Len(t)
      /\ \A i \in 1 .. Len(s) : u[i] = s[i]
      /\ \A i \in 1 .. Len(t) : u[Len(s) + i] = t[i]
  BY Joined
<1> HIDE DEF u
<1>3. ASSUME NEW j \in 1 .. Len(u), u[j][1] = b, j <= Len(s)
      PROVE  /\ \E k \in 1 .. j : u[k][1] = a
             /\ \A i \in 1 .. j - 1 : u[i][1] = c => \E k \in i .. j : u[k][1] = a
  <2>1. j \in 1 .. Len(s) /\ \A k \in 1 .. j : k \in 1 .. Len(s) /\ u[k] = s[k]
    BY <1>1, <1>2, <1>3
  <2>2. \E k \in 1 .. j : s[k][1] = a
    BY <1>3, <2>1 DEF Paired
  <2>3. ASSUME NEW i \in 1 .. j - 1, u[i][1] = c PROVE \E k \in i .. j : u[k][1] = a
    <3>1. i \in 1 .. Len(s) /\ i < j /\ s[i][1] = c /\ \A k \in i .. j : k \in 1 .. j
      BY <1>1, <2>1, <2>3
    <3>2. PICK k \in i .. j : s[k][1] = a
      BY <1>3, <2>1, <3>1 DEF Paired
    <3>3. QED
      BY <2>1, <3>1, <3>2
  <2>4. QED
    BY <2>1, <2>2, <2>3
<1>4. ASSUME NEW j \in 1 .. Len(u), u[j][1] = b, j > Len(s)
      PROVE  /\ \E k \in 1 .. j : u[k][1] = a
             /\ \A i \in 1 .. j - 1 : u[i][1] = c => \E k \in i .. j : u[k][1] = a
  <2> DEFINE d == j - Len(s)
  <2>1. d \in 1 .. Len(t) /\ j = Len(s) + d
    BY <1>1, <1>2, <1>4
  <2> HIDE DEF d
  <2>2. \A k \in 1 .. d : k \in 1 .. Len(t) /\ Len(s) + k \in 1 .. j /\ u[Len(s) + k] = t[k]
    BY <1>1, <1>2, <2>1
  <2>3. t[d][1] = b
    BY <1>2, <1>4, <2>1
  <2>4. PICK e \in 1 .. d : t[e][1] = a
    BY <2>1, <2>3 DEF Paired
  <2>5. u[Len(s) + e][1] = a /\ Len(s) + e \in 1 .. j
    BY <2>2, <2>4
  <2>6. ASSUME NEW i \in 1 .. j - 1, u[i][1] = c PROVE \E k \in i .. j : u[k][1] = a
    <3>1. CASE i <= Len(s)
      <4>1. Len(s) + e \in i .. j
        BY <1>1, <2>1, <2>4, <3>1
      <4>2. QED
        BY <2>5, <4>1
    <3>2. CASE i > Len(s)
      <4> DEFINE x == i - Len(s)
      <4>1. x \in 1 .. d /\ x < d /\ i = Len(s) + x
        BY <1>1, <2>1, <3>2
      <4> HIDE DEF x
      <4>2. t[x][1] = c /\ x \in 1 .. Len(t)
        BY <2>2, <2>6, <4>1
      <4>3. PICK k \in x .. d : t[k][1] = a
        BY <2>1, <2>3, <4>1, <4>2 DEF Paired
      <4>4. k \in 1 .. d /\ Len(s) + k \in i .. j
        BY <1>1, <2>1, <4>1, <4>3
      <4>5. QED
        BY <2>2, <4>3, <4>4
    <3>3. QED
      BY <1>1, <3>1, <3>2
  <2>7. QED
    BY <2>5, <2>6
<1>5. ASSUME NEW j \in 1 .. Len(u), u[j][1] = b
      PROVE  /\ \E k \in 1 .. j : u[k][1] = a
             /\ \A i \in 1 .. j - 1 : u[i][1] = c => \E k \in i .. j : u[k][1] = a
  <2>1. j <= Len(s) \/ j > Len(s)
    BY <1>1
  <2>2. CASE j <= Len(s)
    BY <1>3, <1>5, <2>2
  <2>3. CASE j > Len(s)
    BY <1>4, <1>5, <2>3
  <2>4. QED
    BY <2>1, <2>2, <2>3
<1>6. ASSUME NEW i \in 1 .. Len(u), NEW j \in 1 .. Len(u), i < j, u[i][1] = c, u[j][1] = b
      PROVE  \E k \in i .. j : u[k][1] = a
  <2>1. i \in 1 .. j - 1
    BY <1>6
  <2>2. QED
    BY <1>5, <1>6, <2>1
<1>7. QED
  BY <1>5, <1>6 DEF Paired, u

LEMMA LinkedJoined ==
  ASSUME NEW s \in Todo, NEW t \in Todo, Linked(s, FALSE), Linked(t, FALSE)
  PROVE  Linked(s \o t, FALSE)
  BY AfterJoined, ThenJoined, PairedJoined DEF Linked

(* Two jobs one after the other are a job.                                 *)
LEMMA OrderedJoined ==
  ASSUME NEW s, NEW t, Ordered(s, FALSE), Ordered(t, FALSE)
  PROVE  Ordered(s \o t, FALSE)
<1>1. s \in Todo /\ t \in Todo /\ s \o t \in Todo
  BY Joined DEF Ordered
<1>2. QED
  BY <1>1, LinkedJoined, PairedJoined DEF Ordered

LEMMA OnceJoined ==
  ASSUME NEW s \in Todo, NEW t \in Todo, \A i \in 1 .. Len(s) : s[i][1] \notin Preparing, Once(t)
  PROVE  Once(s \o t)
<1>1. Len(s) \in Nat /\ Len(t) \in Nat
  BY TodoLen
<1> DEFINE u == s \o t
<1>2. /\ Len(u) = Len(s) + Len(t)
      /\ \A i \in 1 .. Len(s) : u[i] = s[i]
      /\ \A i \in 1 .. Len(t) : u[Len(s) + i] = t[i]
  BY Joined
<1> HIDE DEF u
<1>3. ASSUME NEW i \in 1 .. Len(u), NEW j \in 1 .. Len(u), i < j
      PROVE  u[i][1] \notin Preparing \/ u[j][1] # "private"
  <2>1. CASE i <= Len(s)
    <3>1. i \in 1 .. Len(s)
      BY <1>1, <2>1
    <3>2. QED
      BY <1>2, <3>1
  <2>2. CASE i > Len(s)
    <3>1. /\ i - Len(s) \in 1 .. Len(t) /\ j - Len(s) \in 1 .. Len(t) /\ i - Len(s) < j - Len(s)
          /\ i = Len(s) + (i - Len(s)) /\ j = Len(s) + (j - Len(s))
      BY <1>1, <1>2, <1>3, <2>2
    <3>2. u[i] = t[i - Len(s)] /\ u[j] = t[j - Len(s)]
      BY <1>2, <3>1
    <3>3. QED
      BY <3>1, <3>2 DEF Once
  <2>3. QED
    BY <1>1, <2>1, <2>2
<1>4. QED
  BY <1>3 DEF Once, u

LEMMA EarlyJoined ==
  ASSUME NEW s \in Todo, NEW t \in Todo, NEW S,
         \A i \in 1 .. Len(s) : s[i][1] \notin S, \A i \in 1 .. Len(t) : t[i][1] \notin S
  PROVE  \A i \in 1 .. Len(s \o t) : (s \o t)[i][1] \notin S
<1>1. Len(s) \in Nat /\ Len(t) \in Nat
  BY TodoLen
<1>2. \A i \in 1 .. Len(s) + Len(t) :
        IF i <= Len(s) THEN (s \o t)[i] = s[i]
        ELSE i - Len(s) \in 1 .. Len(t) /\ (s \o t)[i] = t[i - Len(s)]
  BY Joined
<1>3. Len(s \o t) = Len(s) + Len(t)
  BY Joined
<1>4. ASSUME NEW i \in 1 .. Len(s) + Len(t) PROVE (s \o t)[i][1] \notin S
  <2>1. CASE i <= Len(s)
    BY <1>1, <1>2, <2>1
  <2>2. CASE ~(i <= Len(s))
    BY <1>1, <1>2, <2>2
  <2>3. QED
    BY <2>1, <2>2
<1>5. QED
  BY <1>3, <1>4
-----------------------------------------------------------------------------
(* The pieces that jobs are made of.                                       *)
Marked == {"pull", "agent", "cowork", "stamp", "inspect", "agent_fresh", "design_fresh", "unlock"}

LEMMA Unmarked ==
  ASSUME NEW t \in Todo, \A i \in 1 .. Len(t) : t[i][1] \notin Marked
  PROVE  Ordered(t, FALSE)
<1>1. \A i \in 1 .. Len(t), x \in Marked : t[i][1] # x
  OBVIOUS
<1>2. \A x \in Marked : After(t, "diff", x, FALSE) /\ After(t, "compare", x, FALSE) /\ After(t, "agent", x, FALSE) /\ After(t, "cowork", x, FALSE)
  BY <1>1 DEF After
<1>3. \A y, no : \A x \in Marked : Then(t, x, y, no)
  BY <1>1 DEF Then
<1>4. \A c, a : \A x \in Marked : Paired(t, c, a, x, FALSE)
  BY <1>1 DEF Paired
<1>5. /\ {"pull", "agent", "cowork", "stamp", "inspect", "unlock"} \subseteq Marked
      /\ {"agent_fresh", "design_fresh", "stamp"} \subseteq Marked /\ {"agent", "cowork"} \subseteq Marked
  BY DEF Marked
<1> HIDE DEF Marked
<1>6. QED
  BY <1>2, <1>3, <1>4, <1>5 DEF Ordered, Linked

LEMMA Listed ==
  ASSUME NEW S, NEW n \in Nat, NEW f \in [1 .. n -> S]
  PROVE  f \in Seq(S) /\ Len(f) = n
<1>1. f \in Seq(S)
  BY SeqDef
<1>2. DOMAIN f = 1 .. n /\ DOMAIN f = 1 .. Len(f) /\ Len(f) \in Nat
  BY <1>1, LenProperties
<1>3. QED
  BY <1>1, <1>2

LEMMA NameOf ==
  ASSUME NEW x \in {"apply", "restore", "make", "anchors", "status", "server_ready", "make_server",
                    "ready", "lock", "unlock", "diff", "pull"}
  PROVE  x \in Names
  BY DEF Names

LEMMA Short ==
  ASSUME NEW S, NEW x \in S, NEW y \in S
  PROVE  /\ <<x>> \in Seq(S) /\ Len(<<x>>) = 1 /\ <<x>>[1] = x
         /\ <<x, y>> \in Seq(S) /\ Len(<<x, y>>) = 2 /\ <<x, y>>[1] = x /\ <<x, y>>[2] = y
  OBVIOUS

LEMMA DoSteps ==
  ASSUME NEW s \in Seq(Names)
  PROVE  Do(s) \in Todo /\ Len(Do(s)) = Len(s) /\ \A i \in 1 .. Len(s) : Do(s)[i][1] = s[i]
<1> DEFINE S == Names \X (Patches \cup {"none"})
<1>1. Len(s) \in Nat /\ DOMAIN s = 1 .. Len(s) /\ \A i \in 1 .. Len(s) : s[i] \in Names
  BY LenProperties, ElementOfSeq
<1>2. Do(s) = [i \in 1 .. Len(s) |-> <<s[i], "none">>]
  BY <1>1 DEF Do
<1>3. \A i \in 1 .. Len(s) : <<s[i], "none">> \in S
  BY <1>1
<1> HIDE DEF S
<1>4. Do(s) \in [1 .. Len(s) -> S] /\ \A i \in 1 .. Len(s) : Do(s)[i] = <<s[i], "none">>
  BY <1>2, <1>3
<1>5. Do(s) \in Seq(S) /\ Len(Do(s)) = Len(s)
  BY <1>1, <1>4, Listed
<1>6. \A i \in 1 .. Len(s) : Do(s)[i][1] = s[i]
  BY <1>4
<1>7. Todo = Seq(S)
  BY DEF Todo, S
<1>8. QED
  BY <1>5, <1>6, <1>7

LEMMA ApplySteps ==
  ASSUME NEW ps \in Seq(Patches)
  PROVE  Apply(ps) \in Todo /\ Len(Apply(ps)) = Len(ps) /\ \A i \in 1 .. Len(ps) : Apply(ps)[i][1] = "apply"
<1> DEFINE S == Names \X (Patches \cup {"none"})
<1>1. Len(ps) \in Nat /\ DOMAIN ps = 1 .. Len(ps) /\ \A i \in 1 .. Len(ps) : ps[i] \in Patches
  BY LenProperties, ElementOfSeq
<1>2. Apply(ps) = [i \in 1 .. Len(ps) |-> <<"apply", ps[i]>>]
  BY <1>1 DEF Apply
<1>3. \A i \in 1 .. Len(ps) : <<"apply", ps[i]>> \in S
  BY <1>1, NameOf
<1> HIDE DEF S
<1>4. Apply(ps) \in [1 .. Len(ps) -> S] /\ \A i \in 1 .. Len(ps) : Apply(ps)[i] = <<"apply", ps[i]>>
  BY <1>2, <1>3
<1>5. Apply(ps) \in Seq(S) /\ Len(Apply(ps)) = Len(ps)
  BY <1>1, <1>4, Listed
<1>6. \A i \in 1 .. Len(ps) : Apply(ps)[i][1] = "apply"
  BY <1>4
<1>7. Todo = Seq(S)
  BY DEF Todo, S
<1>8. QED
  BY <1>5, <1>6, <1>7

LEMMA RestoreSteps ==
  /\ Restore \in Todo /\ Len(Restore) = Len(Order)
  /\ \A i \in 1 .. Len(Order) : Restore[i][1] = "restore"
<1>1. Order \in Seq(Patches)
  BY CheckoutAssumption
<1>2. Len(Order) \in Nat /\ DOMAIN Order = 1 .. Len(Order) /\ \A i \in 1 .. Len(Order) : Order[i] \in Patches
  BY <1>1, LenProperties, ElementOfSeq
<1>3. \A i \in 1 .. Len(Order) : Reverse(Order)[i] \in Patches
  BY <1>2 DEF Reverse
<1> DEFINE S == Names \X (Patches \cup {"none"})
<1>4. Restore = [i \in 1 .. Len(Order) |-> <<"restore", Reverse(Order)[i]>>]
  BY <1>2 DEF Restore
<1>5. \A i \in 1 .. Len(Order) : <<"restore", Reverse(Order)[i]>> \in S
  BY <1>3, NameOf
<1> HIDE DEF S
<1>6. /\ Restore \in [1 .. Len(Order) -> S]
      /\ \A i \in 1 .. Len(Order) : Restore[i] = <<"restore", Reverse(Order)[i]>>
  BY <1>4, <1>5
<1>7. Restore \in Seq(S) /\ Len(Restore) = Len(Order)
  BY <1>2, <1>6, Listed
<1>8. \A i \in 1 .. Len(Order) : Restore[i][1] = "restore"
  BY <1>6
<1>9. Todo = Seq(S)
  BY DEF Todo, S
<1>10. QED
  BY <1>7, <1>8, <1>9

(* What belongs to no build and to no pull.                                *)
Plain(t) == Ordered(t, FALSE) /\ \A i \in 1 .. Len(t) : t[i][1] \notin Preparing

LEMMA PlainJoined ==
  ASSUME NEW s, NEW t, Plain(s), Plain(t)
  PROVE  Plain(s \o t)
  BY OrderedJoined, EarlyJoined DEF Plain, Ordered

LEMMA PlainPieces ==
  /\ Plain(Adapt) /\ Plain(Apply(Order)) /\ Plain(Restore)
  /\ Plain(Do(<<"make">>)) /\ Plain(Do(<<"anchors">>)) /\ Plain(Do(<<"status">>))
  /\ Plain(Do(<<"server_ready">>)) /\ Plain(Do(<<"make_server", "ready">>))
<1>1. ASSUME NEW t \in Todo, NEW x \in {"apply", "restore", "make", "anchors", "status", "server_ready"},
             \A i \in 1 .. Len(t) : t[i][1] = x
      PROVE  Plain(t)
  BY <1>1, Unmarked DEF Plain, Marked, Preparing
<1>2. Order \in Seq(Patches) /\ Adapters \in Seq(Patches)
  BY CheckoutAssumption
<1>3. Plain(Adapt) /\ Plain(Apply(Order)) /\ Plain(Restore)
  BY <1>1, <1>2, ApplySteps, RestoreSteps DEF Adapt
<1>4. ASSUME NEW x \in {"make", "anchors", "status", "server_ready"} PROVE Plain(Do(<<x>>))
  <2> DEFINE s == <<x>>
  <2>1. x \in Names
    BY NameOf
  <2>2. s \in Seq(Names) /\ Len(s) = 1 /\ s[1] = x
    BY <2>1, Short
  <2> HIDE DEF s
  <2>3. Do(s) \in Todo /\ Len(Do(s)) = 1 /\ Do(s)[1][1] = x
    BY <2>2, DoSteps
  <2>4. \A i \in 1 .. Len(Do(s)) : Do(s)[i][1] = x
    BY <2>3
  <2>5. QED
    BY <1>1, <2>3, <2>4 DEF s
<1>5. Plain(Do(<<"make_server", "ready">>))
  <2> DEFINE s == <<"make_server", "ready">>
  <2>1. "make_server" \in Names /\ "ready" \in Names
    BY NameOf
  <2>2. s \in Seq(Names) /\ Len(s) = 2 /\ s[1] = "make_server" /\ s[2] = "ready"
    BY <2>1, Short
  <2> HIDE DEF s
  <2>3. /\ Do(s) \in Todo /\ Len(Do(s)) = 2
        /\ Do(s)[1][1] = "make_server" /\ Do(s)[2][1] = "ready"
    BY <2>2, DoSteps
  <2>4. \A i \in 1 .. Len(Do(s)) : i = 1 \/ i = 2
    BY <2>3
  <2>5. \A i \in 1 .. Len(Do(s)) : Do(s)[i][1] \in {"make_server", "ready"}
    BY <2>3, <2>4
  <2>6. QED
    BY <2>3, <2>5, Unmarked DEF Plain, Marked, Preparing, s
<1>6. QED
  BY <1>3, <1>4, <1>5

LEMMA Literals ==
  ASSUME NEW S, NEW a \in S, NEW b \in S, NEW c \in S, NEW d \in S, NEW e \in S, NEW f \in S,
         NEW g \in S, NEW h \in S, NEW k \in S, NEW l \in S
  PROVE  /\ <<a, b, c, d>> \in Seq(S) /\ Len(<<a, b, c, d>>) = 4
         /\ <<a, b, c, d, e, f, g, h>> \in Seq(S) /\ Len(<<a, b, c, d, e, f, g, h>>) = 8
         /\ <<a, b, c, d, e, f, g, h, k, l>> \in Seq(S)
         /\ Len(<<a, b, c, d, e, f, g, h, k, l>>) = 10
<1>1. <<a, b, c, d>> \in Seq(S) /\ Len(<<a, b, c, d>>) = 4
  OBVIOUS
<1>2. <<a, b, c, d, e, f, g, h>> \in Seq(S) /\ Len(<<a, b, c, d, e, f, g, h>>) = 8
  OBVIOUS
<1>3. <<a, b, c, d, e, f, g, h, k, l>> \in Seq(S) /\ Len(<<a, b, c, d, e, f, g, h, k, l>>) = 10
  OBVIOUS
<1>4. QED
  BY <1>1, <1>2, <1>3

(* A job with no mark but these two.                                       *)
LEMMA Sparse ==
  ASSUME NEW t \in Todo, \A i \in 1 .. Len(t) : t[i][1] \notin Marked \ {"inspect", "pull"},
         Then(t, "inspect", "apply", {"lock", "unstamp"}), After(t, "diff", "pull", FALSE)
  PROVE  Ordered(t, FALSE)
<1> DEFINE M == Marked \ {"inspect", "pull"}
<1>1. \A i \in 1 .. Len(t), x \in M : t[i][1] # x
  OBVIOUS
<1>2. /\ {"agent", "cowork", "stamp", "unlock"} \subseteq M
      /\ {"agent_fresh", "design_fresh", "stamp"} \subseteq M /\ {"agent", "cowork"} \subseteq M
  BY DEF Marked
<1> HIDE DEF M
<1>3. \A x \in M : After(t, "compare", x, FALSE) /\ After(t, "agent", x, FALSE) /\ After(t, "cowork", x, FALSE)
  BY <1>1 DEF After
<1>4. \A y, no : \A x \in M : Then(t, x, y, no)
  BY <1>1 DEF Then
<1>5. \A c, a : \A x \in M : Paired(t, c, a, x, FALSE)
  BY <1>1 DEF Paired
<1>6. QED
  BY <1>2, <1>3, <1>4, <1>5 DEF Ordered, Linked

(* The build lock is taken first and given back last.                      *)
LEMMA Bracket ==
  ASSUME NEW t \in Todo, Len(t) > 0, t[1][1] = "lock",
         \A i \in 1 .. Len(t) : i # Len(t) => t[i][1] # "unlock"
  PROVE  Paired(t, "unlock", "lock", "unlock", FALSE)
<1>1. Len(t) \in Nat
  BY TodoLen
<1>2. \A i, j \in 1 .. Len(t) : i < j => i # Len(t)
  BY <1>1
<1>3. \A j \in 1 .. Len(t) : 1 \in 1 .. j
  BY <1>1
<1>4. QED
  BY <1>2, <1>3 DEF Paired

LEMMA PullOrdered == Plain(Do(<<"diff", "pull">>))
<1> DEFINE s == <<"diff", "pull">>
<1>1. "diff" \in Names /\ "pull" \in Names
  BY NameOf
<1>2. s \in Seq(Names) /\ Len(s) = 2 /\ s[1] = "diff" /\ s[2] = "pull"
  BY <1>1, Short
<1> HIDE DEF s
<1> DEFINE t == Do(s)
<1>3. t \in Todo /\ Len(t) = 2 /\ t[1][1] = "diff" /\ t[2][1] = "pull"
  BY <1>2, DoSteps
<1> HIDE DEF t
<1>4. \A i \in 1 .. Len(t) : t[i][1] \in {"diff", "pull"} /\ (t[i][1] = "pull" => i = 2)
  BY <1>3
<1>5. After(t, "diff", "pull", FALSE)
  BY <1>3, <1>4 DEF After
<1>6. Then(t, "inspect", "apply", {"lock", "unstamp"})
  BY <1>4 DEF Then
<1>7. Ordered(t, FALSE)
  BY <1>3, <1>4, <1>5, <1>6, Sparse DEF Marked
<1>8. \A i \in 1 .. Len(t) : t[i][1] \notin Preparing
  BY <1>4 DEF Preparing
<1>9. QED
  BY <1>7, <1>8 DEF Plain, s, t

LEMMA InspectOrdered == Plain(Do(<<"inspect", "download", "clear", "place">>) \o Apply(Order))
<1> DEFINE s == <<"inspect", "download", "clear", "place">>
<1>1. "inspect" \in Names /\ "download" \in Names /\ "clear" \in Names /\ "place" \in Names
  BY DEF Names
<1>2. s \in Seq(Names) /\ Len(s) = 4
  BY <1>1, Literals
<1>3. s[1] = "inspect" /\ s[2] = "download" /\ s[3] = "clear" /\ s[4] = "place"
  OBVIOUS
<1> HIDE DEF s
<1> DEFINE t == Do(s)  a == Apply(Order)  u == t \o a
<1>4. t \in Todo /\ Len(t) = 4 /\ \A i \in 1 .. 4 : t[i][1] = s[i]
  BY <1>2, DoSteps
<1>5. Order \in Seq(Patches) /\ Order # <<>>
  BY CheckoutAssumption
<1>6. Len(Order) \in Nat \ {0}
  BY <1>5, EmptySeq
<1>7. a \in Todo /\ Len(a) = Len(Order) /\ \A i \in 1 .. Len(a) : a[i][1] = "apply"
  BY <1>5, ApplySteps
<1> HIDE DEF t, a
<1>8. /\ u \in Todo /\ Len(u) = 4 + Len(a)
      /\ \A i \in 1 .. 4 : u[i] = t[i]
      /\ \A i \in 1 .. Len(u) : i > 4 => i - 4 \in 1 .. Len(a) /\ u[i] = a[i - 4]
  <2>1. /\ t \o a \in Todo /\ Len(t \o a) = Len(t) + Len(a)
        /\ \A i \in 1 .. Len(t) : (t \o a)[i] = t[i]
        /\ \A i \in 1 .. Len(t) + Len(a) :
              IF i <= Len(t) THEN (t \o a)[i] = t[i]
              ELSE i - Len(t) \in 1 .. Len(a) /\ (t \o a)[i] = a[i - Len(t)]
    BY <1>4, <1>7, Joined
  <2> HIDE DEF u
  <2>2. QED
    BY <1>4, <1>6, <1>7, <2>1 DEF u
<1> HIDE DEF u
<1>9. u[1][1] = "inspect" /\ u[2][1] = "download" /\ u[3][1] = "clear" /\ u[4][1] = "place"
  BY <1>3, <1>4, <1>8
<1>10. \A i \in 1 .. Len(u) : i > 4 => u[i][1] = "apply"
  BY <1>7, <1>8
<1>11. Len(u) \in Nat /\ Len(u) >= 5
  BY <1>6, <1>7, <1>8
<1>12. \A i \in 1 .. Len(u) : i = 1 \/ i = 2 \/ i = 3 \/ i = 4 \/ i > 4
  BY <1>11
<1>13. \A i \in 1 .. Len(u) : /\ u[i][1] \in {"inspect", "download", "clear", "place", "apply"}
                              /\ u[i][1] = "inspect" => i = 1
  BY <1>9, <1>10, <1>12
<1>14. Then(u, "inspect", "apply", {"lock", "unstamp"})
  <2>1. 5 \in 1 .. Len(u) /\ u[5][1] = "apply"
    BY <1>10, <1>11
  <2>2. \A k \in 1 .. 5 - 1 : u[k][1] \notin {"lock", "unstamp"}
    BY <1>11, <1>13
  <2>3. QED
    BY <1>13, <2>1, <2>2 DEF Then
<1>15. After(u, "diff", "pull", FALSE)
  BY <1>13 DEF After
<1>16. Ordered(u, FALSE)
  BY <1>8, <1>13, <1>14, <1>15, Sparse DEF Marked
<1>17. \A i \in 1 .. Len(u) : u[i][1] \notin Preparing
  BY <1>13 DEF Preparing
<1>18. QED
  BY <1>16, <1>17 DEF Plain, s, t, a, u

(* What a build of the pair does once it has the lock.                     *)
LEMMA AgentPublishes ==
  ASSUME NEW t \in Todo, Len(t) = 10,
         t[1][1] = "agent_fresh", t[2][1] = "unstamp", t[3][1] = "read", t[4][1] = "compile",
         t[5][1] = "link", t[6][1] = "compare", t[7][1] = "agent", t[8][1] = "cowork",
         t[9][1] = "stamp", t[10][1] = "unlock"
  PROVE  /\ Linked(t, FALSE) /\ \A i \in 1 .. Len(t) : t[i][1] \notin Preparing
         /\ \A i \in 1 .. Len(t) : i # Len(t) => t[i][1] # "unlock"
<1>1. \A i \in 1 .. Len(t) : \/ i = 1 \/ i = 2 \/ i = 3 \/ i = 4 \/ i = 5
                             \/ i = 6 \/ i = 7 \/ i = 8 \/ i = 9 \/ i = 10
  OBVIOUS
<1>2. \A i \in 1 .. Len(t) :
        /\ t[i][1] = "agent_fresh" => i = 1
        /\ t[i][1] = "agent" => i = 7
        /\ t[i][1] = "cowork" => i = 8
        /\ t[i][1] = "stamp" => i = 9
        /\ t[i][1] = "unlock" => i = 10
        /\ t[i][1] = "unstamp" => i = 2
        /\ t[i][1] \notin {"pull", "inspect", "design_fresh", "lock"}
  BY <1>1
<1>3. /\ After(t, "diff", "pull", FALSE) /\ After(t, "compare", "agent", FALSE)
      /\ After(t, "agent", "cowork", FALSE) /\ After(t, "cowork", "stamp", FALSE)
  BY <1>2 DEF After
<1>4. Then(t, "inspect", "apply", {"lock", "unstamp"}) /\ Then(t, "design_fresh", "unlock", {"lock"})
  BY <1>2 DEF Then
<1>5. \A x \in {"agent_fresh", "stamp"} : Then(t, x, "unlock", {"lock"})
  <2>1. \A i \in 1 .. Len(t) : 10 \in i .. Len(t) /\ \A k \in i .. 10 - 1 : k \in 1 .. Len(t)
    OBVIOUS
  <2>2. QED
    BY <1>2, <2>1 DEF Then
<1>6. \A x \in {"agent", "cowork"} : Then(t, x, "stamp", {"unstamp"})
  <2>1. 9 \in 7 .. Len(t) /\ 9 \in 8 .. Len(t)
    OBVIOUS
  <2>2. \A i \in {7, 8} : \A k \in i .. 9 - 1 : k \in 1 .. Len(t) /\ k # 2
    OBVIOUS
  <2>3. QED
    BY <1>2, <2>1, <2>2 DEF Then
<1>7. \A x \in {"lock", "stamp"} : Paired(t, x, "unstamp", "stamp", FALSE)
  <2>1. \A i, j \in 1 .. Len(t) : i < j /\ t[i][1] \in {"lock", "stamp"} => t[j][1] # "stamp"
    BY <1>2
  <2>2. \A j \in 1 .. Len(t) : t[j][1] = "stamp" => 2 \in 1 .. j
    BY <1>2
  <2>3. QED
    BY <2>1, <2>2 DEF Paired
<1>8. \A x \in {"agent_fresh", "design_fresh", "stamp"} : Then(t, x, "unlock", {"lock"})
  BY <1>4, <1>5
<1>9. Linked(t, FALSE)
  BY <1>3, <1>4, <1>6, <1>7, <1>8 DEF Linked
<1>10. \A i \in 1 .. Len(t) : t[i][1] \notin Preparing
  BY <1>1 DEF Preparing
<1>11. QED
  BY <1>2, <1>9, <1>10

LEMMA LockPlain == Plain(Do(<<"lock">>)) /\ Len(Do(<<"lock">>)) = 1 /\ Do(<<"lock">>)[1][1] = "lock"
<1> DEFINE s == <<"lock">>
<1>1. "lock" \in Names
  BY NameOf
<1>2. s \in Seq(Names) /\ Len(s) = 1 /\ s[1] = "lock"
  BY <1>1, Short
<1> HIDE DEF s
<1> DEFINE t == Do(s)
<1>3. t \in Todo /\ Len(t) = 1 /\ t[1][1] = "lock"
  BY <1>2, DoSteps
<1> HIDE DEF t
<1>4. \A i \in 1 .. Len(t) : t[i][1] = "lock"
  BY <1>3
<1>5. (\A i \in 1 .. Len(t) : t[i][1] \notin Marked) /\ (\A i \in 1 .. Len(t) : t[i][1] \notin Preparing)
  BY <1>4 DEF Marked, Preparing
<1>6. Plain(t)
  BY <1>3, <1>5, Unmarked DEF Plain
<1>7. QED
  BY <1>3, <1>6 DEF s, t

LEMMA AgentPlain == Plain(BuildAgent)
<1> DEFINE l == Do(<<"lock">>)  a == l \o Adapt
           s == <<"agent_fresh", "unstamp", "read", "compile", "link", "compare", "agent",
                  "cowork", "stamp", "unlock">>
           t == Do(s)
<1>1. \A x \in {"agent_fresh", "unstamp", "read", "compile", "link", "compare", "agent",
                "cowork", "stamp", "unlock"} : x \in Names
  BY DEF Names
<1>2. s \in Seq(Names) /\ Len(s) = 10
  BY <1>1, Literals
<1>3. /\ s[1] = "agent_fresh" /\ s[2] = "unstamp" /\ s[3] = "read" /\ s[4] = "compile"
      /\ s[5] = "link" /\ s[6] = "compare" /\ s[7] = "agent" /\ s[8] = "cowork"
      /\ s[9] = "stamp" /\ s[10] = "unlock"
  OBVIOUS
<1> HIDE DEF s
<1>4. t \in Todo /\ Len(t) = 10 /\ \A i \in 1 .. 10 : t[i][1] = s[i]
  BY <1>2, DoSteps
<1> HIDE DEF t
<1>5. /\ Linked(t, FALSE) /\ \A i \in 1 .. Len(t) : t[i][1] \notin Preparing
      /\ \A i \in 1 .. Len(t) : i # Len(t) => t[i][1] # "unlock"
  <2>1. /\ t[1][1] = "agent_fresh" /\ t[2][1] = "unstamp" /\ t[3][1] = "read" /\ t[4][1] = "compile"
        /\ t[5][1] = "link" /\ t[6][1] = "compare" /\ t[7][1] = "agent" /\ t[8][1] = "cowork"
        /\ t[9][1] = "stamp" /\ t[10][1] = "unlock"
    BY <1>3, <1>4
  <2>2. QED
    BY <1>4, <2>1, AgentPublishes
<1>6. Plain(l) /\ Plain(Adapt) /\ Len(l) = 1 /\ l[1][1] = "lock"
  BY LockPlain, PlainPieces
<1>7. \A i \in 1 .. Len(Adapt) : Adapt[i][1] = "apply"
  BY CheckoutAssumption, ApplySteps DEF Adapt
<1> HIDE DEF l
<1>8. l \in Todo /\ Adapt \in Todo
  BY <1>6 DEF Plain, Ordered
<1>9. Len(Adapt) \in Nat /\ \A i \in 1 .. Len(l) : i = 1
  BY <1>6, <1>8, TodoLen
<1>10. (\A i \in 1 .. Len(l) : l[i][1] \notin {"unlock"}) /\ (\A i \in 1 .. Len(Adapt) : Adapt[i][1] \notin {"unlock"})
  BY <1>6, <1>7, <1>9
<1>11. \A i \in 1 .. Len(a) : a[i][1] \notin {"unlock"}
  BY <1>8, <1>10, EarlyJoined
<1>12. /\ Plain(a) /\ Len(a) = Len(l) + Len(Adapt)
       /\ \A i \in 1 .. Len(l) : a[i] = l[i]
  BY <1>6, <1>8, PlainJoined, Joined
<1>13. a[1][1] = "lock" /\ Len(a) \in Nat /\ Len(a) > 0
  BY <1>6, <1>9, <1>12
<1> HIDE DEF a
<1> DEFINE u == a \o t
<1>14. a \in Todo /\ Linked(a, FALSE) /\ \A i \in 1 .. Len(a) : a[i][1] \notin Preparing
  BY <1>12 DEF Plain, Ordered
<1>15. /\ u \in Todo /\ Len(u) = Len(a) + Len(t) /\ \A i \in 1 .. Len(a) : u[i] = a[i]
       /\ \A i \in 1 .. Len(a) + Len(t) :
              IF i <= Len(a) THEN u[i] = a[i]
              ELSE i - Len(a) \in 1 .. Len(t) /\ u[i] = t[i - Len(a)]
  BY <1>4, <1>14, Joined
<1>16. Linked(u, FALSE)
  BY <1>4, <1>5, <1>14, LinkedJoined
<1>17. \A i \in 1 .. Len(u) : u[i][1] \notin Preparing
  BY <1>4, <1>5, <1>14, EarlyJoined
<1> HIDE DEF u
<1>18. u[1][1] = "lock" /\ Len(u) > 0
  BY <1>4, <1>13, <1>15
<1>19. ASSUME NEW i \in 1 .. Len(u), i # Len(u) PROVE u[i][1] # "unlock"
  <2>1. CASE i <= Len(a)
    <3>1. i \in 1 .. Len(a) /\ u[i] = a[i]
      BY <1>13, <1>15, <2>1
    <3>2. QED
      BY <1>11, <3>1
  <2>2. CASE ~(i <= Len(a))
    <3>1. i - Len(a) \in 1 .. Len(t) /\ i - Len(a) # Len(t) /\ u[i] = t[i - Len(a)]
      BY <1>4, <1>13, <1>15, <1>19, <2>2
    <3>2. QED
      BY <1>5, <3>1
  <2>3. QED
    BY <2>1, <2>2
<1>20. Paired(u, "unlock", "lock", "unlock", FALSE)
  BY <1>15, <1>18, <1>19, Bracket
<1>21. u = BuildAgent
  BY DEF u, a, l, t, s, BuildAgent
<1>22. QED
  BY <1>15, <1>16, <1>17, <1>20, <1>21 DEF Plain, Ordered

LEMMA DesignOrdered == Ordered(BuildDesign, FALSE) /\ Once(BuildDesign)
<1> DEFINE s == <<"lock", "snapshot", "design_fresh", "private", "same", "design", "receipt", "unlock">>
           t == Do(s)
<1>1. \A x \in {"lock", "snapshot", "design_fresh", "private", "same", "design", "receipt",
                "unlock"} : x \in Names
  BY DEF Names
<1>2. s \in Seq(Names) /\ Len(s) = 8
  BY <1>1, Literals
<1>3. /\ s[1] = "lock" /\ s[2] = "snapshot" /\ s[3] = "design_fresh" /\ s[4] = "private"
      /\ s[5] = "same" /\ s[6] = "design" /\ s[7] = "receipt" /\ s[8] = "unlock"
  OBVIOUS
<1> HIDE DEF s
<1>4. t \in Todo /\ Len(t) = 8 /\ \A i \in 1 .. 8 : t[i][1] = s[i]
  BY <1>2, DoSteps
<1> HIDE DEF t
<1>5. /\ t[1][1] = "lock" /\ t[2][1] = "snapshot" /\ t[3][1] = "design_fresh" /\ t[4][1] = "private"
      /\ t[5][1] = "same" /\ t[6][1] = "design" /\ t[7][1] = "receipt" /\ t[8][1] = "unlock"
  BY <1>3, <1>4
<1>6. \A i \in 1 .. Len(t) : i = 1 \/ i = 2 \/ i = 3 \/ i = 4 \/ i = 5 \/ i = 6 \/ i = 7 \/ i = 8
  BY <1>4
<1>7. \A i \in 1 .. Len(t) :
        /\ t[i][1] \notin {"pull", "agent", "cowork", "stamp", "inspect", "agent_fresh"}
        /\ t[i][1] = "lock" => i = 1
        /\ t[i][1] = "design_fresh" => i = 3
        /\ t[i][1] = "private" => i = 4
        /\ t[i][1] = "unlock" => i = 8
  BY <1>5, <1>6
<1>8. \A i \in {1, 2, 3} : t[i][1] \notin Preparing
  BY <1>5 DEF Preparing
<1>9. Once(t)
  <2>1. ASSUME NEW i \in 1 .. Len(t), NEW j \in 1 .. Len(t), i < j, t[j][1] = "private"
        PROVE  t[i][1] \notin Preparing
    <3>1. i \in {1, 2, 3}
      BY <1>4, <1>7, <2>1
    <3>2. QED
      BY <1>8, <3>1
  <2>2. QED
    BY <2>1 DEF Once
<1>10. \A y : \A x \in {"pull", "agent", "cowork", "stamp"} : After(t, y, x, FALSE)
  BY <1>7 DEF After
<1>11. \A y, no : \A x \in {"inspect", "agent_fresh", "stamp", "agent", "cowork"} : Then(t, x, y, no)
  BY <1>7 DEF Then
<1>12. \A c, a : Paired(t, c, a, "stamp", FALSE)
  BY <1>7 DEF Paired
<1>13. Then(t, "design_fresh", "unlock", {"lock"})
  <2>1. 8 \in 3 .. Len(t) /\ t[8][1] = "unlock"
    BY <1>4, <1>5
  <2>2. \A k \in 3 .. 8 - 1 : k \in 1 .. Len(t) /\ k # 1
    BY <1>4
  <2>3. QED
    BY <1>7, <2>1, <2>2 DEF Then
<1>14. Linked(t, FALSE)
  BY <1>10, <1>11, <1>12, <1>13 DEF Linked
<1>15. Paired(t, "unlock", "lock", "unlock", FALSE)
  <2>1. \A i \in 1 .. Len(t) : i # Len(t) => t[i][1] # "unlock"
    BY <1>4, <1>7
  <2>2. t \in Todo /\ Len(t) > 0 /\ t[1][1] = "lock"
    BY <1>4, <1>5
  <2>3. QED
    BY <2>1, <2>2, Bracket
<1>16. QED
  BY <1>4, <1>9, <1>14, <1>15 DEF Ordered, BuildDesign, t, s

LEMMA DesignLast ==
  ASSUME NEW t, Plain(t)
  PROVE  Ordered(t \o BuildDesign, FALSE) /\ Once(t \o BuildDesign)
  BY DesignOrdered, OrderedJoined, OnceJoined DEF Plain, Ordered

(* The jobs are in order.                                                  *)
LEMMA VerifyOrdered == Ordered(Verify, FALSE) /\ Once(Verify)
<1>1. Plain((Apply(Order) \o Do(<<"anchors">>)) \o BuildAgent)
  BY PlainPieces, AgentPlain, PlainJoined
<1>2. QED
  BY <1>1, DesignLast DEF Verify

LEMMA PlainOnce ==
  ASSUME NEW t, Plain(t)
  PROVE  Ordered(t, FALSE) /\ Once(t)
  BY DEF Plain, Once

LEMMA JobsOrdered ==
  ASSUME NEW j \in Jobs
  PROVE  Ordered(Steps(j), FALSE) /\ Once(Steps(j))
<1>1. CASE j = "setup"
  <2>1. Plain(((Do(<<"inspect", "download", "clear", "place">>) \o Apply(Order)) \o Do(<<"make">>))
              \o BuildAgent)
    BY InspectOrdered, PlainPieces, AgentPlain, PlainJoined
  <2>2. Ordered(Setup, FALSE) /\ Once(Setup)
    BY <2>1, DesignLast DEF Setup
  <2>3. QED
    BY <1>1, <2>2 DEF Steps
<1>2. CASE j = "latest"
  <2> DEFINE l == (((Do(<<"status">>) \o Restore) \o Do(<<"diff", "pull">>)) \o Apply(Order)) \o Do(<<"make">>)
  <2>1. Plain(l)
    BY PlainPieces, PullOrdered, PlainJoined
  <2> HIDE DEF l
  <2>2. Ordered(l \o Verify, FALSE) /\ Once(l \o Verify)
    BY <2>1, VerifyOrdered, OrderedJoined, OnceJoined DEF Plain, Ordered
  <2>3. Latest = l \o Verify
    BY DEF Latest, l
  <2>4. QED
    BY <1>2, <2>2, <2>3 DEF Steps
<1>3. CASE j = "verify"
  BY <1>3, VerifyOrdered DEF Steps
<1>4. CASE j = "chat"
  <2>1. Plain(((Adapt \o Do(<<"server_ready">>)) \o Apply(Order)) \o Do(<<"make_server", "ready">>))
    BY PlainPieces, PlainJoined
  <2>2. Ordered(Chat, FALSE) /\ Once(Chat)
    BY <2>1, PlainOnce DEF Chat
  <2>3. QED
    BY <1>4, <2>2 DEF Steps, Launch
<1>5. CASE j = "agent"
  BY <1>5, AgentPlain, PlainOnce DEF Steps, Launch
<1>6. CASE j = "design"
  <2>1. Ordered(Adapt \o BuildDesign, FALSE) /\ Once(Adapt \o BuildDesign)
    BY PlainPieces, DesignLast
  <2>2. QED
    BY <1>6, <2>1 DEF Steps, Launch
<1>7. QED
  BY <1>1, <1>2, <1>3, <1>4, <1>5, <1>6 DEF Jobs
-----------------------------------------------------------------------------
(* What is left of a job.                                                  *)

LEMMA RestMoves ==
  ASSUME NEW t \in Todo, NEW u, NEW n, Rest(u, t, n)
  PROVE  /\ Len(t) \in Nat /\ Len(u) \in Nat /\ n \in Nat /\ n > 0
         /\ \A i \in 1 .. Len(u) : i + n - 1 \in 1 .. Len(t) /\ u[i] = t[i + n - 1]
         /\ \A k \in n .. Len(t) : k - n + 1 \in 1 .. Len(u) /\ u[k - n + 1] = t[k]
<1>1. Len(t) \in Nat /\ u \in Todo /\ n \in 1 .. Len(t) + 1 /\ Len(u) = Len(t) - n + 1
  BY TodoLen DEF Rest
<1>2. \A i \in 1 .. Len(u) : i + n - 1 \in 1 .. Len(t) /\ u[i] = t[i + n - 1]
  BY <1>1 DEF Rest
<1>3. ASSUME NEW k \in n .. Len(t) PROVE k - n + 1 \in 1 .. Len(u) /\ u[k - n + 1] = t[k]
  <2>1. k - n + 1 \in 1 .. Len(u) /\ (k - n + 1) + n - 1 = k
    BY <1>1
  <2>2. QED
    BY <1>2, <2>1
<1>4. QED
  BY <1>1, <1>2, <1>3

LEMMA AfterRest ==
  ASSUME NEW t \in Todo, NEW u, NEW n, Rest(u, t, n), NEW a, NEW b, After(t, a, b, TRUE)
  PROVE  After(u, a, b, TRUE)
<1>1. ASSUME NEW i \in 1 .. Len(u), u[i][1] = b, i # 1 PROVE u[i - 1][1] = a
  <2>1. i - 1 \in 1 .. Len(u)
    BY <1>1, RestMoves
  <2> DEFINE k == i + n - 1
  <2>2. k \in 1 .. Len(t) /\ u[i] = t[k] /\ k # 1 /\ u[i - 1] = t[k - 1]
    <3>1. k \in 1 .. Len(t) /\ u[i] = t[k] /\ k # 1
      BY <1>1, RestMoves
    <3>2. (i - 1) + n - 1 = k - 1
      <4>1. i \in Nat /\ n \in Nat
        BY RestMoves
      <4>2. QED
        BY <4>1
    <3>3. u[i - 1] = t[(i - 1) + n - 1]
      BY <2>1, RestMoves
    <3>4. QED
      BY <3>1, <3>2, <3>3
  <2> HIDE DEF k
  <2>3. QED
    BY <1>1, <2>2 DEF After
<1>2. QED
  BY <1>1 DEF After

LEMMA ThenRest ==
  ASSUME NEW t \in Todo, NEW u, NEW n, Rest(u, t, n), NEW a, NEW b, NEW no, Then(t, a, b, no)
  PROVE  Then(u, a, b, no)
<1>1. ASSUME NEW i \in 1 .. Len(u), u[i][1] = a
      PROVE  \E j \in i .. Len(u) : u[j][1] = b /\ \A k \in i .. j - 1 : u[k][1] \notin no
  <2> DEFINE m == i + n - 1
  <2>1. m \in 1 .. Len(t) /\ u[i] = t[m] /\ m = i + n - 1
    BY RestMoves
  <2> HIDE DEF m
  <2>2. PICK j \in m .. Len(t) : t[j][1] = b /\ \A k \in m .. j - 1 : t[k][1] \notin no
    BY <1>1, <2>1 DEF Then
  <2> DEFINE d == j - n + 1
  <2>3. d \in i .. Len(u) /\ u[d] = t[j] /\ d = j - n + 1
    <3>1. j \in n .. Len(t)
      BY <2>1, <2>2, RestMoves
    <3>2. d \in 1 .. Len(u) /\ u[d] = t[j]
      BY <3>1, RestMoves
    <3>3. QED
      BY <2>1, <2>2, <3>2, RestMoves
  <2> HIDE DEF d
  <2>4. ASSUME NEW k \in i .. d - 1 PROVE u[k][1] \notin no
    <3>1. Len(u) \in Nat /\ Len(t) \in Nat /\ n \in Nat
      BY RestMoves
    <3>2. k \in 1 .. Len(u) /\ k + n - 1 \in m .. j - 1
      BY <2>1, <2>2, <2>3, <3>1
    <3>3. u[k] = t[k + n - 1]
      BY <3>2, RestMoves
    <3>4. QED
      BY <2>2, <3>2, <3>3
  <2>5. QED
    BY <2>2, <2>3, <2>4
<1>2. QED
  BY <1>1 DEF Then

LEMMA PairedRest ==
  ASSUME NEW t \in Todo, NEW u, NEW n, Rest(u, t, n), NEW c, NEW a, NEW b, NEW begun, Paired(t, c, a, b, begun)
  PROVE  Paired(u, c, a, b, TRUE)
<1>1. ASSUME NEW i \in 1 .. Len(u), NEW j \in 1 .. Len(u), i < j, u[i][1] = c, u[j][1] = b
      PROVE  \E k \in i .. j : u[k][1] = a
  <2>1. /\ i + n - 1 \in 1 .. Len(t) /\ j + n - 1 \in 1 .. Len(t) /\ i + n - 1 < j + n - 1
        /\ u[i] = t[i + n - 1] /\ u[j] = t[j + n - 1]
    <3>1. n \in Nat /\ \A m \in 1 .. Len(u) : m + n - 1 \in 1 .. Len(t) /\ u[m] = t[m + n - 1]
      BY RestMoves
    <3>2. i + n - 1 < j + n - 1
      BY <1>1, <3>1
    <3>3. QED
      BY <3>1, <3>2
  <2>2. PICK k \in i + n - 1 .. j + n - 1 : t[k][1] = a
    BY <1>1, <2>1 DEF Paired
  <2>3. k \in n .. Len(t) /\ k - n + 1 \in i .. j
    BY <1>1, <2>1, <2>2, RestMoves
  <2>4. k - n + 1 \in 1 .. Len(u) /\ u[k - n + 1] = t[k]
    BY <2>3, RestMoves
  <2>5. QED
    BY <2>2, <2>3, <2>4
<1>2. QED
  BY <1>1 DEF Paired

LEMMA OrderedRest ==
  ASSUME NEW t, NEW u, NEW n, Rest(u, t, n), Ordered(t, TRUE), Once(t)
  PROVE  Ordered(u, TRUE) /\ Once(u)
<1>1. t \in Todo /\ u \in Todo
  BY DEF Ordered, Rest
<1>2. Ordered(u, TRUE)
  BY <1>1, AfterRest, ThenRest, PairedRest DEF Ordered, Linked
<1>3. \A i, j \in 1 .. Len(u) : i < j =>
        /\ i + n - 1 \in 1 .. Len(t) /\ j + n - 1 \in 1 .. Len(t) /\ i + n - 1 < j + n - 1
        /\ u[i] = t[i + n - 1] /\ u[j] = t[j + n - 1]
  BY <1>1, RestMoves
<1>4. Once(u)
  BY <1>3 DEF Once
<1>5. QED
  BY <1>2, <1>4

(* A job that begins is one that is not begun.                             *)
LEMMA OrderedBegun ==
  ASSUME NEW t, Ordered(t, FALSE)
  PROVE  Ordered(t, TRUE)
  BY DEF Ordered, Linked, After, Paired
-----------------------------------------------------------------------------
(* The types of the state.                                                 *)
AgentSources == {<<>>} \cup (Revs \X BOOLEAN)
CoreSources == {<<>>} \cup (Revs \X (SUBSET Patches) \X (SUBSET Places))
Parts == {"agent", "core"}
Binary == [agent : AgentSources, core : CoreSources, job : Nat, touched : SUBSET Parts]
Sources == [rev : Revs, on : SUBSET Patches, edits : SUBSET Places]
Receipt == [source : Sources \cup {<<>>}, job : Nat]
Process == [job : Jobs \cup {"none"}, id : Nat, todo : Todo, made : Binary,
            prepared : Receipt, began : SUBSET Places]

TypeOK ==
  /\ dir \in {"absent", "empty", "foreign", "git", "archive"}
  /\ src \in Sources
  /\ pair \in [agent : Binary, cowork : Binary, stamp : BOOLEAN]
  /\ design \in [binary : Receipt, stamp : Receipt]
  /\ server \in [on : SUBSET Patches, touched : BOOLEAN]
  /\ proc \in [Procs -> Process]
  /\ lock \in Procs \cup {Nobody, Orphan}
  /\ count \in [jobs : Nat, edits : Nat]

(* The same binary, older than a change of these parts, or not linked yet. *)
Aged(c, b, parts) ==
  /\ c \in Binary /\ c.agent = b.agent /\ c.job = b.job /\ b.touched \subseteq c.touched
  /\ b.job # 0 => parts \subseteq c.touched

LEMMA AgedSelf ==
  ASSUME NEW b \in Binary
  PROVE  Aged(b, b, {})
  BY DEF Aged

LEMMA OlderAged ==
  ASSUME NEW b \in Binary, NEW parts \in SUBSET Parts
  PROVE  Aged(Older(b, parts), b, parts)
<1>1. b.touched \in SUBSET Parts
  BY DEF Binary
<1>2. CASE b.job = 0
  BY <1>2 DEF Older, Aged
<1>3. CASE b.job # 0
  <2> DEFINE c == [b EXCEPT !.touched = @ \cup parts]
  <2>1. Older(b, parts) = c
    BY <1>3 DEF Older
  <2>2. c.agent = b.agent /\ c.job = b.job /\ c.touched = b.touched \cup parts
    BY DEF Binary
  <2>3. c \in Binary
    BY <1>1 DEF Binary
  <2> HIDE DEF c
  <2>4. QED
    BY <2>1, <2>2, <2>3 DEF Aged
<1>4. QED
  BY <1>2, <1>3

LEMMA NoneMade == None \in Binary /\ None.job = 0 /\ NoDesign \in Receipt /\ NoDesign.job = 0
<1>1. <<>> \in AgentSources /\ <<>> \in CoreSources /\ {} \in SUBSET Parts
  BY DEF AgentSources, CoreSources
<1> HIDE DEF AgentSources, CoreSources
<1>2. None \in Binary /\ None.job = 0
  BY <1>1 DEF None, Binary
<1>3. NoDesign \in Receipt /\ NoDesign.job = 0
  BY DEF NoDesign, Receipt
<1>4. QED
  BY <1>2, <1>3

LEMMA IdleProcess ==
  /\ Idle \in Process /\ Idle.todo = <<>> /\ Idle.id = 0 /\ Idle.began = {}
  /\ Idle.made = None /\ Idle.prepared = NoDesign
<1>1. <<>> \in Todo
  BY EmptySeq DEF Todo
<1> HIDE DEF Todo
<1>2. QED
  BY <1>1, NoneMade DEF Idle, Process

LEMMA ProcessFields ==
  ASSUME NEW x \in Process
  PROVE  /\ x.id \in Nat /\ x.todo \in Todo /\ x.made \in Binary /\ x.prepared \in Receipt
         /\ x.began \in SUBSET Places /\ x.job \in Jobs \cup {"none"}
  BY DEF Process

LEMMA ReceiptFields ==
  ASSUME NEW x \in Receipt
  PROVE  x.job \in Nat /\ x.source \in Sources \cup {<<>>}
  BY DEF Receipt
-----------------------------------------------------------------------------
(* How the steps of one process change the processes.                      *)
Stays(o, parts) ==
  /\ proc'[o].todo = proc[o].todo /\ proc'[o].id = proc[o].id
  /\ proc'[o].prepared = proc[o].prepared /\ proc'[o].began \subseteq proc[o].began
  /\ Aged(proc'[o].made, proc[o].made, parts)

(* p ends, or goes on with its n-th step from here; the sources of parts   *)
(* were written.                                                           *)
Moved(p, n, b, r, parts) ==
  /\ proc' \in [Procs -> Process]
  /\ \A o \in Procs \ {p} : Stays(o, parts)
  /\ \/ proc'[p] = Idle
     \/ /\ Rest(proc'[p].todo, proc[p].todo, n)
        /\ proc'[p].id = proc[p].id /\ proc'[p].began = proc[p].began
        /\ proc'[p].prepared = r /\ Aged(proc'[p].made, b, parts)

LEMMA UnchangedStays ==
  ASSUME proc \in [Procs -> Process], NEW o \in Procs, proc'[o] = proc[o]
  PROVE  Stays(o, {})
  BY AgedSelf, ProcessFields DEF Stays

LEMMA TailRest ==
  ASSUME NEW t \in Todo, t # <<>>
  PROVE  Rest(Tail(t), t, 2)
<1>1. Tail(t) \in Todo /\ Len(Tail(t)) = Len(t) - 1 /\ \A i \in 1 .. Len(Tail(t)) : Tail(t)[i] = t[i + 1]
  BY HeadTailProperties DEF Todo
<1>2. Len(t) \in Nat \ {0}
  BY EmptySeq DEF Todo
<1> HIDE DEF Todo
<1>3. \A i \in 1 .. Len(Tail(t)) : i + 2 - 1 = i + 1
  BY <1>1, <1>2
<1>4. QED
  BY <1>1, <1>2, <1>3 DEF Rest

LEMMA GoMoves ==
  ASSUME proc \in [Procs -> Process], NEW p \in Procs, NEW x \in Process, NEW n, Go(p, x),
         Rest(x.todo, proc[p].todo, n), x.id = proc[p].id, x.began = proc[p].began
  PROVE  Moved(p, n, x.made, x.prepared, {})
<1>1. /\ proc' \in [Procs -> Process] /\ \A o \in Procs \ {p} : proc'[o] = proc[o]
      /\ proc'[p] = IF x.todo = <<>> THEN Idle ELSE x
  BY IdleProcess DEF Go
<1>2. \A o \in Procs \ {p} : Stays(o, {})
  BY <1>1, UnchangedStays
<1>3. Aged(x.made, x.made, {})
  BY AgedSelf, ProcessFields
<1>4. CASE x.todo = <<>>
  BY <1>1, <1>2, <1>4 DEF Moved
<1>5. CASE x.todo # <<>>
  <2>1. proc'[p] = x
    BY <1>1, <1>5
  <2>2. QED
    BY <1>1, <1>2, <1>3, <2>1 DEF Moved
<1>6. QED
  BY <1>4, <1>5

LEMMA DoneMoves ==
  ASSUME proc \in [Procs -> Process], NEW p \in Procs, proc[p].todo # <<>>,
         NEW b \in Binary, NEW r \in Receipt,
         \/ Done(p) /\ b = proc[p].made /\ r = proc[p].prepared
         \/ Makes(p, b) /\ r = proc[p].prepared
         \/ Prepares(p, r) /\ b = proc[p].made
         \/ Go(p, [proc[p] EXCEPT !.todo = Tail(@), !.made = b, !.prepared = r])
  PROVE  Moved(p, 2, b, r, {})
<1> DEFINE x == [proc[p] EXCEPT !.todo = Tail(@), !.made = b, !.prepared = r]
<1>1. proc[p] \in Process
  OBVIOUS
<1>2. proc[p].todo \in Todo
  BY <1>1, ProcessFields
<1>3. Tail(proc[p].todo) \in Todo /\ Rest(Tail(proc[p].todo), proc[p].todo, 2)
  BY <1>2, TailRest DEF Rest
<1>4. /\ x \in Process /\ x.todo = Tail(proc[p].todo) /\ x.id = proc[p].id /\ x.began = proc[p].began
      /\ x.made = b /\ x.prepared = r
  BY <1>1, <1>3 DEF Process
<1>5. /\ b = proc[p].made /\ r = proc[p].prepared => x = [proc[p] EXCEPT !.todo = Tail(@)]
      /\ r = proc[p].prepared => x = [proc[p] EXCEPT !.todo = Tail(@), !.made = b]
      /\ b = proc[p].made => x = [proc[p] EXCEPT !.todo = Tail(@), !.prepared = r]
  BY <1>1 DEF Process
<1>6. Go(p, x)
  BY <1>5 DEF Done, Makes, Prepares
<1> HIDE DEF x
<1>7. QED
  BY <1>3, <1>4, <1>6, GoMoves

LEMMA OlderMadeStays ==
  ASSUME proc \in [Procs -> Process], NEW parts \in SUBSET Parts, NEW p \in Procs
  PROVE  /\ OlderMade(parts) \in [Procs -> Process]
         /\ OlderMade(parts)[p] = [proc[p] EXCEPT !.made = Older(@, parts)]
         /\ OlderMade(parts)[p] \in Process
         /\ LET x == OlderMade(parts)[p] IN
              /\ x.todo = proc[p].todo /\ x.id = proc[p].id
              /\ x.prepared = proc[p].prepared /\ x.began = proc[p].began
              /\ Aged(x.made, proc[p].made, parts)
<1>1. \A q \in Procs : Aged(Older(proc[q].made, parts), proc[q].made, parts)
  BY OlderAged, ProcessFields
<1>2. \A q \in Procs : Older(proc[q].made, parts) \in Binary
  BY <1>1 DEF Aged
<1>3. \A q \in Procs : [proc[q] EXCEPT !.made = Older(@, parts)] \in Process
  BY <1>2 DEF Process
<1>4. /\ OlderMade(parts) \in [Procs -> Process]
      /\ OlderMade(parts)[p] = [proc[p] EXCEPT !.made = Older(@, parts)]
  BY <1>3 DEF OlderMade
<1> DEFINE x == OlderMade(parts)[p]
<1>5. /\ x.todo = proc[p].todo /\ x.id = proc[p].id
      /\ x.prepared = proc[p].prepared /\ x.began = proc[p].began
      /\ x.made = Older(proc[p].made, parts)
  <2>1. proc[p] \in Process
    OBVIOUS
  <2> HIDE DEF x
  <2>2. x = [proc[p] EXCEPT !.made = Older(@, parts)]
    BY <1>4 DEF x
  <2>3. QED
    BY <2>1, <2>2 DEF Process
<1>6. x \in Process
  BY <1>4
<1> HIDE DEF x
<1>7. QED
  BY <1>1, <1>4, <1>5, <1>6 DEF x

LEMMA DoneWritingMoves ==
  ASSUME proc \in [Procs -> Process], NEW p \in Procs, proc[p].todo # <<>>,
         NEW parts \in SUBSET Parts, DoneWriting(p, parts)
  PROVE  Moved(p, 2, proc[p].made, proc[p].prepared, parts)
<1> DEFINE m == OlderMade(parts)  x == m[p]  y == [x EXCEPT !.todo = Tail(proc[p].todo)]
<1>1. m \in [Procs -> Process] /\ x \in Process
  BY OlderMadeStays
<1>2. /\ x.todo = proc[p].todo /\ x.id = proc[p].id
      /\ x.prepared = proc[p].prepared /\ x.began = proc[p].began
      /\ Aged(x.made, proc[p].made, parts)
  BY OlderMadeStays
<1>3. ASSUME NEW o \in Procs
      PROVE  /\ m[o].todo = proc[o].todo /\ m[o].id = proc[o].id
             /\ m[o].prepared = proc[o].prepared /\ m[o].began = proc[o].began
             /\ Aged(m[o].made, proc[o].made, parts)
  BY OlderMadeStays
<1>4. proc' = [m EXCEPT ![p] = IF Len(m[p].todo) = 1 THEN Idle
                               ELSE [m[p] EXCEPT !.todo = Tail(proc[p].todo)]]
  BY DEF DoneWriting
<1>5. proc[p].todo \in Todo
  BY ProcessFields
<1> HIDE DEF m
<1>6. Tail(proc[p].todo) \in Todo /\ Rest(Tail(proc[p].todo), proc[p].todo, 2)
  BY <1>5, TailRest DEF Rest
<1>7. /\ y \in Process /\ y.todo = Tail(proc[p].todo) /\ y.id = proc[p].id /\ y.began = proc[p].began
      /\ y.made = x.made /\ y.prepared = proc[p].prepared
  BY <1>1, <1>2, <1>6 DEF Process
<1>8. /\ proc' \in [Procs -> Process] /\ \A o \in Procs \ {p} : proc'[o] = m[o]
      /\ proc'[p] = Idle \/ proc'[p] = y
  <2>1. proc' = [m EXCEPT ![p] = IF Len(x.todo) = 1 THEN Idle ELSE y]
    BY <1>4
  <2> HIDE DEF x, y
  <2>2. QED
    BY <1>1, <1>7, <2>1, IdleProcess
<1> HIDE DEF x, y
<1>9. \A o \in Procs \ {p} : Stays(o, parts)
  BY <1>3, <1>8 DEF Stays
<1>10. QED
  BY <1>2, <1>6, <1>7, <1>8, <1>9 DEF Moved

LEMMA NatWellFounded == IsWellFoundedOn({ss \in Nat \X Nat : ss[1] < ss[2]}, Nat)
  BY NatLessThanWellFounded DEF OpToRel

LEMMA Least ==
  ASSUME NEW S \in SUBSET Nat, S # {}
  PROVE  \E i \in S : \A y \in S : i <= y
<1> DEFINE R == {ss \in Nat \X Nat : ss[1] < ss[2]}
<1>1. PICK i \in S : \A y \in S : ~ (<<y, i>> \in R)
  BY NatWellFounded, WFMin, Zenon
<1>2. ASSUME NEW y \in S PROVE i <= y
  <2>1. <<y, i>> \in Nat \X Nat
    OBVIOUS
  <2>2. ~(<<y, i>>[1] < <<y, i>>[2])
    BY <1>1, <2>1
  <2>3. QED
    BY <2>2
<1>3. QED
  BY <1>2

(* The first step of a name.                                               *)
FirstAt(t, x) == CHOOSE i \in DOMAIN t : t[i][1] = x /\ \A k \in 1 .. i - 1 : t[k][1] # x

LEMMA FirstStep ==
  ASSUME NEW t \in Todo, NEW x, NEW j \in 1 .. Len(t), t[j][1] = x
  PROVE  FirstAt(t, x) \in 1 .. j /\ t[FirstAt(t, x)][1] = x
<1> DEFINE S == {i \in 1 .. Len(t) : t[i][1] = x}
<1>1. Len(t) \in Nat /\ DOMAIN t = 1 .. Len(t)
  BY LenProperties DEF Todo
<1>2. S \in SUBSET Nat /\ S # {}
  BY <1>1
<1>3. PICK i \in S : \A y \in S : i <= y
  <2> HIDE DEF S
  <2>1. QED
    BY <1>2, Least
<1>5. i \in DOMAIN t /\ t[i][1] = x /\ \A k \in 1 .. i - 1 : t[k][1] # x
  <2>1. \A k \in 1 .. i - 1 : k \in 1 .. Len(t) /\ ~(i <= k)
    BY <1>1, <1>3
  <2>2. QED
    BY <1>1, <1>3, <2>1
<1> DEFINE n == FirstAt(t, x)
<1>6. n \in DOMAIN t /\ t[n][1] = x /\ \A k \in 1 .. n - 1 : t[k][1] # x
  BY <1>5 DEF FirstAt
<1> HIDE DEF n
<1>7. n \in 1 .. j
  BY <1>1, <1>6
<1>8. QED
  BY <1>6, <1>7 DEF n

LEMMA SkipMoves ==
  ASSUME proc \in [Procs -> Process], NEW p \in Procs, NEW x,
         NEW j \in 1 .. Len(proc[p].todo), proc[p].todo[j][1] = x, SkipTo(p, x)
  PROVE  \E n \in 1 .. j : /\ proc[p].todo[n][1] = x
                           /\ Moved(p, n, proc[p].made, proc[p].prepared, {})
<1> DEFINE t == proc[p].todo
           n == FirstAt(t, x)
           u == SubSeq(t, n, Len(t))
           y == [proc[p] EXCEPT !.todo = u]
<1>1. t \in Todo
  BY ProcessFields
<1>2. Len(t) \in Nat /\ \A i \in 1 .. Len(t) : t[i] \in Names \X (Patches \cup {"none"})
  BY <1>1, TodoLen
<1>3. Go(p, y)
  BY DEF SkipTo, FirstAt
<1>4. n \in 1 .. j /\ t[n][1] = x
  BY <1>1, FirstStep
<1> HIDE DEF t, n
<1>5. n \in 1 .. Len(t) /\ n \in Int /\ Len(t) \in Int /\ \A i \in n .. Len(t) : t[i] \in Names \X (Patches \cup {"none"})
  BY <1>2, <1>4 DEF t
<1>6. /\ u \in Todo /\ Len(u) = (IF n <= Len(t) THEN Len(t) - n + 1 ELSE 0)
      /\ \A i \in 1 .. Len(t) - n + 1 : u[i] = t[n + i - 1]
  BY <1>5, SubSeqProperties DEF Todo
<1> HIDE DEF u
<1>7. Rest(u, t, n)
  <2>1. \A i \in 1 .. Len(t) - n + 1 : n + i - 1 = i + n - 1
    BY <1>2, <1>5
  <2>2. Len(u) = Len(t) - n + 1 /\ n \in 1 .. Len(t) + 1
    BY <1>2, <1>5, <1>6
  <2>3. QED
    BY <1>6, <2>1, <2>2 DEF Rest
<1>8. /\ y \in Process /\ y.todo = u /\ y.id = proc[p].id /\ y.began = proc[p].began
      /\ y.made = proc[p].made /\ y.prepared = proc[p].prepared
  BY <1>6 DEF Process
<1> HIDE DEF y
<1>9. Moved(p, n, proc[p].made, proc[p].prepared, {})
  BY <1>3, <1>7, <1>8, GoMoves DEF t
<1>10. QED
  BY <1>4, <1>9 DEF t

LEMMA EndMoves ==
  ASSUME proc \in [Procs -> Process], NEW p \in Procs,
         proc' = [proc EXCEPT ![p] = Idle] \/ Go(p, [proc[p] EXCEPT !.todo = <<>>])
  PROVE  proc'[p] = Idle /\ \A n, b, r : Moved(p, n, b, r, {})
<1>1. proc[p] \in Process /\ [proc[p] EXCEPT !.todo = <<>>].todo = <<>>
  BY DEF Process
<1>2. /\ proc' \in [Procs -> Process] /\ \A o \in Procs \ {p} : proc'[o] = proc[o]
      /\ proc'[p] = Idle
  BY <1>1, IdleProcess DEF Go
<1>3. \A o \in Procs \ {p} : Stays(o, {})
  BY <1>2, UnchangedStays
<1>4. QED
  BY <1>2, <1>3 DEF Moved

(* A binary in its place, when a source is written.                        *)
LEMMA WrittenPair ==
  ASSUME pair \in [agent : Binary, cowork : Binary, stamp : BOOLEAN],
         server \in [on : SUBSET Patches, touched : BOOLEAN],
         NEW parts \in SUBSET Parts, NEW metal \in BOOLEAN, Written(parts, metal)
  PROVE  /\ pair' \in [agent : Binary, cowork : Binary, stamp : BOOLEAN]
         /\ server' \in [on : SUBSET Patches, touched : BOOLEAN]
         /\ Aged(pair'.agent, pair.agent, parts) /\ Aged(pair'.cowork, pair.cowork, parts)
         /\ pair'.stamp = pair.stamp
<1>1. pair.agent \in Binary /\ pair.cowork \in Binary /\ pair.stamp \in BOOLEAN
  OBVIOUS
<1>2. Aged(Older(pair.agent, parts), pair.agent, parts) /\ Aged(Older(pair.cowork, parts), pair.cowork, parts)
  BY <1>1, OlderAged
<1>3. /\ pair' = [pair EXCEPT !.agent = Older(pair.agent, parts), !.cowork = Older(pair.cowork, parts)]
      /\ server' = [server EXCEPT !.touched = server.touched \/ (metal /\ server # NoServer)]
  BY DEF Written
<1>4. /\ pair'.agent = Older(pair.agent, parts) /\ pair'.cowork = Older(pair.cowork, parts)
      /\ pair'.stamp = pair.stamp
  BY <1>3
<1>5. Older(pair.agent, parts) \in Binary /\ Older(pair.cowork, parts) \in Binary
  BY <1>2 DEF Aged
<1>6. pair' \in [agent : Binary, cowork : Binary, stamp : BOOLEAN]
  BY <1>1, <1>3, <1>5
<1>7. server' \in [on : SUBSET Patches, touched : BOOLEAN]
  BY <1>3, Zenon
<1>8. QED
  BY <1>2, <1>4, <1>6, <1>7
-----------------------------------------------------------------------------
(* What every step does.                                                   *)
Begins(t, x) == Len(t) > 0 /\ t[1][1] = x

LEMMA AtBegins ==
  ASSUME TypeOK, NEW p \in Procs
  PROVE  /\ proc[p] \in Process /\ proc[p].todo \in Todo
         /\ \A x : At(p, x) <=> Begins(proc[p].todo, x)
         /\ \A x : At(p, x) => proc[p].todo # <<>>
<1>1. proc[p] \in Process
  BY DEF TypeOK
<1>2. proc[p].todo \in Todo
  BY <1>1, ProcessFields
<1>3. proc[p].todo # <<>> <=> Len(proc[p].todo) > 0
  BY <1>2, EmptySeq DEF Todo
<1>4. \A x : At(p, x) <=> Begins(proc[p].todo, x)
  BY <1>3 DEF At, Begins
<1>5. QED
  BY <1>1, <1>2, <1>4 DEF At

LEMMA Kept ==
  ASSUME TypeOK, NEW p \in Procs, Done(p), proc[p].todo # <<>>
  PROVE  Moved(p, 2, proc[p].made, proc[p].prepared, {}) /\ proc' \in [Procs -> Process]
<1>1. proc \in [Procs -> Process] /\ proc[p].made \in Binary /\ proc[p].prepared \in Receipt
  BY AtBegins, ProcessFields DEF TypeOK
<1>2. Moved(p, 2, proc[p].made, proc[p].prepared, {})
  BY <1>1, DoneMoves
<1>3. QED
  BY <1>2 DEF Moved

(* These look, or change what no binary of the Agent or of Design is made of. *)
Quiet(p) ==
  \/ Download(p) \/ Clear(p) \/ Place(p) \/ Status(p) \/ Diff(p) \/ Anchors(p)
  \/ Make(p) \/ CheckServer(p) \/ Compare(p) \/ Same(p)
QuietNames == {"download", "clear", "place", "status", "diff", "anchors", "make", "make_server",
               "server_ready", "ready", "compare", "same"}

LEMMA QuietMoves ==
  ASSUME TypeOK, NEW p \in Procs, Quiet(p)
  PROVE  /\ TypeOK' /\ UNCHANGED <<src, pair, design, lock, count>>
         /\ \E x \in QuietNames : Begins(proc[p].todo, x)
         /\ Moved(p, 2, proc[p].made, proc[p].prepared, {})
         /\ Begins(proc[p].todo, "diff") => src.edits = {}
         /\ Begins(proc[p].todo, "compare") => proc[p].made.agent = AgentSource
<1>1. \E x \in QuietNames : At(p, x)
  BY DEF Quiet, Download, Clear, Place, Status, Diff, Anchors, Make, CheckServer, Compare, Same, QuietNames
<1>2. \A x, y : At(p, x) /\ At(p, y) => x = y
  BY DEF At
<1>3. At(p, "diff") => src.edits = {}
  BY <1>2 DEF Quiet, Download, Clear, Place, Status, Diff, Anchors, Make, CheckServer, Compare, Same
<1>4. At(p, "compare") => proc[p].made.agent = AgentSource
  BY <1>2 DEF Quiet, Download, Clear, Place, Status, Diff, Anchors, Make, CheckServer, Compare, Same
<1>5. UNCHANGED <<src, pair, design, lock, count>>
  BY DEF Quiet, Download, Clear, Place, Status, Diff, Anchors, Make, CheckServer, Compare, Same
<1>6. Done(p) \/ Go(p, [proc[p] EXCEPT !.todo = <<>>])
  BY DEF Quiet, Download, Clear, Place, Status, Diff, Anchors, Make, CheckServer, Compare, Same
<1>7. dir' \in {dir, "absent", "archive"}
  BY DEF Quiet, Download, Clear, Place, Status, Diff, Anchors, Make, CheckServer, Compare, Same
<1>8. server' = server \/ Made
  BY DEF Quiet, Download, Clear, Place, Status, Diff, Anchors, Make, CheckServer, Compare, Same
<1>9. proc[p].todo # <<>>
  BY <1>1 DEF At
<1>10. Moved(p, 2, proc[p].made, proc[p].prepared, {})
  BY <1>6, <1>9, Kept, EndMoves DEF TypeOK
<1>11. TypeOK'
  <2>1. proc' \in [Procs -> Process]
    BY <1>10 DEF Moved
  <2>2. server' \in [on : SUBSET Patches, touched : BOOLEAN]
    <3>1. src.on \in SUBSET Patches
      BY DEF TypeOK, Sources
    <3>2. [on |-> src.on, touched |-> FALSE] \in [on : SUBSET Patches, touched : BOOLEAN]
      BY <3>1
    <3>3. server \in [on : SUBSET Patches, touched : BOOLEAN]
      BY DEF TypeOK
    <3>4. QED
      BY <1>8, <3>2, <3>3 DEF Made
  <2>3. dir' \in {"absent", "empty", "foreign", "git", "archive"}
    BY <1>7 DEF TypeOK
  <2>4. QED
    BY <1>5, <2>1, <2>2, <2>3 DEF TypeOK
<1>12. QED
  BY <1>1, <1>3, <1>4, <1>5, <1>10, <1>11, AtBegins

(* These write the sources; a binary that is older than that is no longer fresh. *)
Writing(p) == ApplyStep(p) \/ RestoreStep(p) \/ Pull(p)

LEMMA WritingMoves ==
  ASSUME TypeOK, NEW p \in Procs, Writing(p)
  PROVE  /\ TypeOK' /\ UNCHANGED <<design, lock, count>> /\ src'.edits = src.edits
         /\ \E x \in {"apply", "restore", "pull"} : Begins(proc[p].todo, x)
         /\ \E parts \in SUBSET Parts :
              /\ Moved(p, 2, proc[p].made, proc[p].prepared, parts)
              /\ Aged(pair'.agent, pair.agent, parts) /\ Aged(pair'.cowork, pair.cowork, parts)
              /\ pair'.stamp = pair.stamp
              /\ src'.rev = src.rev \/ "agent" \in parts
         /\ src'.rev # src.rev => Begins(proc[p].todo, "pull")
<1>1. \E x \in {"apply", "restore", "pull"} : At(p, x)
  BY DEF Writing, ApplyStep, RestoreStep, Pull
<1>2. UNCHANGED <<dir, design, lock, count>>
  BY DEF Writing, ApplyStep, RestoreStep, Pull
<1>3. /\ src \in Sources /\ src.rev \in Revs /\ src.on \in SUBSET Patches /\ src.edits \in SUBSET Places
      /\ pair \in [agent : Binary, cowork : Binary, stamp : BOOLEAN]
      /\ server \in [on : SUBSET Patches, touched : BOOLEAN] /\ proc \in [Procs -> Process]
  BY DEF TypeOK, Sources
<1>4. proc[p].todo # <<>>
  BY <1>1 DEF At
<1>5. \/ Unchanged(p)
      \/ /\ \E metal \in BOOLEAN : Written({"core"}, metal)
         /\ DoneWriting(p, {"core"})
         /\ \E s \in SUBSET Patches : src' = [src EXCEPT !.on = s]
      \/ /\ At(p, "pull") /\ Written({"agent", "core"}, TRUE) /\ DoneWriting(p, {"agent", "core"})
         /\ \E r \in Revs : src' = [src EXCEPT !.rev = r]
  <2> DEFINE metal == Arg(p) \in ToSet(Adapters)
  <2>0. metal \in BOOLEAN
    OBVIOUS
  <2>1. CASE ApplyStep(p)
    <3>1. CASE Applied(Arg(p)) /\ Unchanged(p)
      BY <3>1
    <3>2. CASE /\ Applicable(Arg(p)) /\ src' = [src EXCEPT !.on = @ \cup {Arg(p)}]
               /\ Written({"core"}, metal) /\ DoneWriting(p, {"core"})
      <4>1. Accepts[src.rev] \in SUBSET Patches
        BY <1>3, CheckoutAssumption
      <4>2. src.on \cup {Arg(p)} \in SUBSET Patches
        BY <1>3, <3>2, <4>1 DEF Applicable
      <4>3. src' = [src EXCEPT !.on = src.on \cup {Arg(p)}]
        BY <3>2
      <4> HIDE DEF metal
      <4>4. QED
        BY <2>0, <3>2, <4>2, <4>3
    <3>3. QED
      BY <2>1, <3>1, <3>2 DEF ApplyStep
  <2>2. CASE RestoreStep(p)
    <3>1. CASE Applicable(Arg(p)) /\ Unchanged(p)
      BY <3>1
    <3>2. CASE /\ Applied(Arg(p)) /\ src' = [src EXCEPT !.on = @ \ {Arg(p)}]
               /\ Written({"core"}, metal) /\ DoneWriting(p, {"core"})
      <4>1. src.on \ {Arg(p)} \in SUBSET Patches
        BY <1>3
      <4>2. src' = [src EXCEPT !.on = src.on \ {Arg(p)}]
        BY <3>2
      <4> HIDE DEF metal
      <4>3. QED
        BY <2>0, <3>2, <4>1, <4>2
    <3>3. QED
      BY <2>2, <3>1, <3>2 DEF RestoreStep
  <2>3. CASE Pull(p)
    BY <2>3 DEF Pull
  <2>4. QED
    BY <2>1, <2>2, <2>3 DEF Writing
<1>6. CASE Unchanged(p)
  <2>1. Moved(p, 2, proc[p].made, proc[p].prepared, {}) /\ proc' \in [Procs -> Process]
    BY <1>4, <1>6, Kept DEF Unchanged
  <2>2. UNCHANGED <<src, pair, server>>
    BY <1>6 DEF Unchanged
  <2>3. Aged(pair'.agent, pair.agent, {}) /\ Aged(pair'.cowork, pair.cowork, {})
    BY <1>3, <2>2, AgedSelf
  <2>4. TypeOK'
    BY <1>2, <2>1, <2>2 DEF TypeOK
  <2>5. QED
    BY <1>1, <1>2, <2>1, <2>2, <2>3, <2>4, AtBegins
<1>7. ASSUME \E metal \in BOOLEAN : Written({"core"}, metal), DoneWriting(p, {"core"}),
             \E s \in SUBSET Patches : src' = [src EXCEPT !.on = s]
      PROVE  /\ Moved(p, 2, proc[p].made, proc[p].prepared, {"core"})
             /\ Aged(pair'.agent, pair.agent, {"core"}) /\ Aged(pair'.cowork, pair.cowork, {"core"})
             /\ pair'.stamp = pair.stamp
             /\ src'.rev = src.rev /\ src'.edits = src.edits /\ TypeOK'
  <2>1. {"core"} \in SUBSET Parts
    BY DEF Parts
  <2>2. Moved(p, 2, proc[p].made, proc[p].prepared, {"core"})
    BY <1>3, <1>4, <1>7, <2>1, DoneWritingMoves
  <2>3. /\ pair' \in [agent : Binary, cowork : Binary, stamp : BOOLEAN]
        /\ server' \in [on : SUBSET Patches, touched : BOOLEAN]
        /\ Aged(pair'.agent, pair.agent, {"core"}) /\ Aged(pair'.cowork, pair.cowork, {"core"})
        /\ pair'.stamp = pair.stamp
    BY <1>3, <1>7, <2>1, WrittenPair
  <2>4. src'.rev = src.rev /\ src'.edits = src.edits /\ src' \in Sources
    BY <1>3, <1>7 DEF Sources
  <2>5. TypeOK'
    BY <1>2, <2>2, <2>3, <2>4 DEF TypeOK, Moved
  <2>6. QED
    BY <2>2, <2>3, <2>4, <2>5
<1>8. ASSUME Written({"agent", "core"}, TRUE), DoneWriting(p, {"agent", "core"}),
             \E r \in Revs : src' = [src EXCEPT !.rev = r]
      PROVE  /\ Moved(p, 2, proc[p].made, proc[p].prepared, {"agent", "core"})
             /\ Aged(pair'.agent, pair.agent, {"agent", "core"})
             /\ Aged(pair'.cowork, pair.cowork, {"agent", "core"})
             /\ pair'.stamp = pair.stamp
             /\ src'.edits = src.edits /\ TypeOK'
  <2>1. {"agent", "core"} \in SUBSET Parts
    BY DEF Parts
  <2>2. Moved(p, 2, proc[p].made, proc[p].prepared, {"agent", "core"})
    BY <1>3, <1>4, <1>8, <2>1, DoneWritingMoves
  <2>3. /\ pair' \in [agent : Binary, cowork : Binary, stamp : BOOLEAN]
        /\ server' \in [on : SUBSET Patches, touched : BOOLEAN]
        /\ Aged(pair'.agent, pair.agent, {"agent", "core"})
        /\ Aged(pair'.cowork, pair.cowork, {"agent", "core"})
        /\ pair'.stamp = pair.stamp
    BY <1>3, <1>8, <2>1, WrittenPair
  <2>4. src'.edits = src.edits /\ src' \in Sources
    BY <1>3, <1>8 DEF Sources
  <2>5. TypeOK'
    BY <1>2, <2>2, <2>3, <2>4 DEF TypeOK, Moved
  <2>6. QED
    BY <2>2, <2>3, <2>4, <2>5
<1>9. {"core"} \in SUBSET Parts /\ {"agent", "core"} \in SUBSET Parts
  BY DEF Parts
<1>10. QED
  BY <1>1, <1>2, <1>5, <1>6, <1>7, <1>8, <1>9, AtBegins

(* These may leave out what is not needed.                                 *)
Skipping(p) == Inspect(p) \/ LookAtPair(p) \/ LookAtDesign(p)

LEMMA SkippingMoves ==
  ASSUME TypeOK, NEW p \in Procs, Ordered(proc[p].todo, TRUE), Skipping(p)
  PROVE  LET t == proc[p].todo IN
         /\ TypeOK' /\ UNCHANGED <<src, pair, design, lock, count>>
         /\ \E x \in {"inspect", "agent_fresh", "design_fresh"} : Begins(t, x)
         /\ \E n \in 1 .. Len(t) + 1 :
              /\ Moved(p, n, proc[p].made, proc[p].prepared, {})
              /\ \A k \in 1 .. n - 1 : t[k][1] # "lock"
              /\ \/ n = 2
                 \/ n <= Len(t) /\ t[n][1] = "apply" /\ \A k \in 1 .. n - 1 : t[k][1] # "unstamp"
                 \/ n <= Len(t) /\ t[n][1] = "unlock"
<1> DEFINE t == proc[p].todo
<1>1. t \in Todo /\ Len(t) \in Nat
  BY AtBegins, TodoLen
<1>2. /\ UNCHANGED <<dir, src, pair, design, server, lock, count>>
      /\ \E x \in {"inspect", "agent_fresh", "design_fresh"} : At(p, x)
      /\ \/ Done(p)
         \/ At(p, "inspect") /\ SkipTo(p, "apply")
         \/ (At(p, "agent_fresh") \/ At(p, "design_fresh")) /\ SkipTo(p, "unlock")
  BY DEF Skipping, Inspect, LookAtPair, LookAtDesign
<1>3. \E x \in {"inspect", "agent_fresh", "design_fresh"} : Begins(t, x)
  BY <1>2, AtBegins
<1>4. Len(t) > 0 /\ t # <<>> /\ t[1][1] \in {"inspect", "agent_fresh", "design_fresh"} /\ 1 \in 1 .. Len(t)
  BY <1>1, <1>2, <1>3, AtBegins DEF Begins
<1>5. proc \in [Procs -> Process]
  BY DEF TypeOK
<1>6. \E n \in 1 .. Len(t) + 1 :
         /\ Moved(p, n, proc[p].made, proc[p].prepared, {})
         /\ \A k \in 1 .. n - 1 : t[k][1] # "lock"
         /\ \/ n = 2
            \/ n <= Len(t) /\ t[n][1] = "apply" /\ \A k \in 1 .. n - 1 : t[k][1] # "unstamp"
            \/ n <= Len(t) /\ t[n][1] = "unlock"
  <2>1. CASE Done(p)
    <3>1. Moved(p, 2, proc[p].made, proc[p].prepared, {})
      BY <1>4, <2>1, Kept
    <3>2. 2 \in 1 .. Len(t) + 1 /\ \A k \in 1 .. 2 - 1 : t[k][1] # "lock"
      BY <1>1, <1>4
    <3>3. QED
      BY <3>1, <3>2
  <2>2. CASE At(p, "inspect") /\ SkipTo(p, "apply")
    <3>1. t[1][1] = "inspect"
      BY <2>2, AtBegins DEF Begins
    <3>2. Then(t, "inspect", "apply", {"lock", "unstamp"})
      BY DEF Ordered, Linked
    <3>3. PICK j \in 1 .. Len(t) : t[j][1] = "apply" /\ \A k \in 1 .. j - 1 : t[k][1] \notin {"lock", "unstamp"}
      BY <1>4, <3>1, <3>2 DEF Then
    <3>4. PICK n \in 1 .. j : t[n][1] = "apply" /\ Moved(p, n, proc[p].made, proc[p].prepared, {})
      BY <1>5, <2>2, <3>3, SkipMoves
    <3>5. n \in 1 .. Len(t) + 1 /\ n <= Len(t) /\ \A k \in 1 .. n - 1 : k \in 1 .. j - 1
      BY <1>1, <3>3, <3>4
    <3>6. QED
      BY <3>3, <3>4, <3>5
  <2>3. CASE (At(p, "agent_fresh") \/ At(p, "design_fresh")) /\ SkipTo(p, "unlock")
    <3>1. t[1][1] \in {"agent_fresh", "design_fresh"}
      BY <2>3, AtBegins DEF Begins
    <3>2. \A x \in {"agent_fresh", "design_fresh"} : Then(t, x, "unlock", {"lock"})
      BY DEF Ordered, Linked
    <3>3. PICK j \in 1 .. Len(t) : t[j][1] = "unlock" /\ \A k \in 1 .. j - 1 : t[k][1] \notin {"lock"}
      BY <1>4, <3>1, <3>2 DEF Then
    <3>4. PICK n \in 1 .. j : t[n][1] = "unlock" /\ Moved(p, n, proc[p].made, proc[p].prepared, {})
      BY <1>5, <2>3, <3>3, SkipMoves
    <3>5. n \in 1 .. Len(t) + 1 /\ n <= Len(t) /\ \A k \in 1 .. n - 1 : k \in 1 .. j - 1
      BY <1>1, <3>3, <3>4
    <3>6. QED
      BY <3>3, <3>4, <3>5
  <2>4. QED
    BY <1>2, <2>1, <2>2, <2>3
<1>7. proc' \in [Procs -> Process]
  BY <1>6 DEF Moved
<1>8. TypeOK'
  BY <1>2, <1>7 DEF TypeOK
<1>9. QED
  BY <1>2, <1>3, <1>6, <1>8

LEMMA SourceTypes ==
  ASSUME TypeOK
  PROVE  /\ src.rev \in Revs /\ src.on \in SUBSET Patches /\ src.edits \in SUBSET Places
         /\ AgentSource \in AgentSources /\ CoreSource \in CoreSources
<1>1. src.rev \in Revs /\ src.on \in SUBSET Patches /\ src.edits \in SUBSET Places
  BY DEF TypeOK, Sources
<1>2. ("agent" \in src.edits) \in BOOLEAN
  OBVIOUS
<1>3. AgentSource \in AgentSources
  BY <1>1, <1>2, Zenon DEF AgentSource, AgentSources
<1>4. src.edits \ {"agent"} \in SUBSET Places
  BY <1>1
<1>5. CoreSource \in CoreSources
  BY <1>1, <1>4 DEF CoreSource, CoreSources
<1>6. QED
  BY <1>1, <1>3, <1>5

(* These go on with the binaries in the private folder.                    *)
Making(p) == Read(p) \/ Compile(p) \/ Link(p)

LEMMA MakingMoves ==
  ASSUME TypeOK, NEW p \in Procs, Making(p)
  PROVE  /\ TypeOK' /\ UNCHANGED <<src, pair, design, lock, count>>
         /\ \E x \in {"read", "compile", "link"} : Begins(proc[p].todo, x)
         /\ \E b \in Binary : Moved(p, 2, b, proc[p].prepared, {})
<1>1. /\ UNCHANGED <<dir, src, pair, design, server, lock, count>>
      /\ \E x \in {"read", "compile", "link"} : At(p, x)
  BY DEF Making, Read, Compile, Link
<1>2. /\ proc \in [Procs -> Process] /\ proc[p].made \in Binary /\ proc[p].prepared \in Receipt
      /\ proc[p].id \in Nat /\ proc[p].todo # <<>>
  BY <1>1, AtBegins, ProcessFields DEF TypeOK
<1>3. /\ [None EXCEPT !.agent = AgentSource] \in Binary
      /\ [proc[p].made EXCEPT !.core = CoreSource] \in Binary
      /\ [proc[p].made EXCEPT !.job = proc[p].id] \in Binary
  BY <1>2, NoneMade, SourceTypes DEF Binary
<1>4. \E b \in Binary : Makes(p, b)
  BY <1>3 DEF Making, Read, Compile, Link
<1>5. PICK b \in Binary : Moved(p, 2, b, proc[p].prepared, {})
  BY <1>2, <1>4, DoneMoves
<1>6. TypeOK'
  BY <1>1, <1>5 DEF TypeOK, Moved
<1>7. QED
  BY <1>1, <1>5, <1>6, AtBegins

LEMMA SnapshotMoves ==
  ASSUME TypeOK, NEW p \in Procs, Snapshot(p)
  PROVE  /\ TypeOK' /\ UNCHANGED <<src, pair, design, lock, count>>
         /\ Begins(proc[p].todo, "snapshot")
         /\ \E r \in Receipt : r.job = 0 /\ Moved(p, 2, proc[p].made, r, {})
<1>1. UNCHANGED <<dir, src, pair, design, server, lock, count>> /\ At(p, "snapshot")
  BY DEF Snapshot
<1>2. proc \in [Procs -> Process] /\ proc[p].made \in Binary /\ proc[p].todo # <<>>
  BY <1>1, AtBegins, ProcessFields DEF TypeOK
<1> DEFINE r == [source |-> src, job |-> 0]
<1>3. r \in Receipt /\ r.job = 0
  BY DEF TypeOK, Receipt
<1>4. Prepares(p, r)
  BY DEF Snapshot
<1> HIDE DEF r
<1>5. Moved(p, 2, proc[p].made, r, {})
  BY <1>2, <1>3, <1>4, DoneMoves
<1>6. TypeOK'
  BY <1>1, <1>5 DEF TypeOK, Moved
<1>7. QED
  BY <1>1, <1>3, <1>5, <1>6, AtBegins

LEMMA PrivateMoves ==
  ASSUME TypeOK, NEW p \in Procs, Private(p)
  PROVE  /\ TypeOK' /\ UNCHANGED <<src, pair, design, lock, count>>
         /\ Begins(proc[p].todo, "private")
         /\ \E r \in Receipt : r.job = proc[p].id /\ Moved(p, 2, proc[p].made, r, {})
<1>1. UNCHANGED <<dir, src, pair, design, server, lock, count>> /\ At(p, "private")
  BY DEF Private
<1>2. /\ proc \in [Procs -> Process] /\ proc[p].made \in Binary /\ proc[p].todo # <<>>
      /\ proc[p].prepared \in Receipt /\ proc[p].id \in Nat
  BY <1>1, AtBegins, ProcessFields DEF TypeOK
<1> DEFINE r == [proc[p].prepared EXCEPT !.job = proc[p].id]
<1>3. r \in Receipt /\ r.job = proc[p].id
  BY <1>2 DEF Receipt
<1>4. Prepares(p, r)
  BY DEF Private
<1> HIDE DEF r
<1>5. Moved(p, 2, proc[p].made, r, {})
  BY <1>2, <1>3, <1>4, DoneMoves
<1>6. TypeOK'
  BY <1>1, <1>5 DEF TypeOK, Moved
<1>7. QED
  BY <1>1, <1>3, <1>5, <1>6, AtBegins

(* These take and give the lock.                                           *)
LEMMA LockMoves ==
  ASSUME TypeOK, NEW p \in Procs
  PROVE  /\ TakeLock(p) =>
              /\ TypeOK' /\ UNCHANGED <<src, pair, design, count>>
              /\ Begins(proc[p].todo, "lock") /\ lock = Nobody /\ lock' = p
              /\ Moved(p, 2, proc[p].made, proc[p].prepared, {})
         /\ Unlock(p) =>
              /\ TypeOK' /\ UNCHANGED <<src, pair, design, count>>
              /\ Begins(proc[p].todo, "unlock") /\ lock' = Nobody
              /\ Moved(p, 2, None, NoDesign, {})
<1>1. ASSUME TakeLock(p) PROVE /\ TypeOK' /\ UNCHANGED <<src, pair, design, count>>
                              /\ Begins(proc[p].todo, "lock") /\ lock = Nobody /\ lock' = p
                              /\ Moved(p, 2, proc[p].made, proc[p].prepared, {})
  <2>1. /\ UNCHANGED <<dir, src, pair, design, server, count>> /\ At(p, "lock") /\ Done(p)
        /\ lock = Nobody /\ lock' = p
    BY <1>1 DEF TakeLock
  <2>2. proc[p].todo # <<>>
    BY <2>1, AtBegins
  <2>3. Moved(p, 2, proc[p].made, proc[p].prepared, {}) /\ proc' \in [Procs -> Process]
    BY <2>1, <2>2, Kept
  <2>4. TypeOK'
    BY <2>1, <2>3 DEF TypeOK
  <2>5. QED
    BY <2>1, <2>3, <2>4, AtBegins
<1>2. ASSUME Unlock(p) PROVE /\ TypeOK' /\ UNCHANGED <<src, pair, design, count>>
                            /\ Begins(proc[p].todo, "unlock") /\ lock' = Nobody
                            /\ Moved(p, 2, None, NoDesign, {})
  <2>1. /\ UNCHANGED <<dir, src, pair, design, server, count>> /\ At(p, "unlock")
        /\ Go(p, [proc[p] EXCEPT !.todo = Tail(@), !.made = None, !.prepared = NoDesign])
        /\ lock' = Nobody
    BY <1>2 DEF Unlock
  <2>2. proc[p].todo # <<>> /\ proc \in [Procs -> Process]
    BY <2>1, AtBegins DEF TypeOK
  <2>3. Moved(p, 2, None, NoDesign, {})
    BY <2>1, <2>2, NoneMade, DoneMoves
  <2>4. TypeOK'
    BY <2>1, <2>3 DEF TypeOK, Moved
  <2>5. QED
    BY <2>1, <2>3, <2>4, AtBegins
<1>3. QED
  BY <1>1, <1>2

(* These change a binary or a stamp.                                       *)
Publishing(p) == Unstamp(p) \/ Publish(p)

LEMMA PublishingMoves ==
  ASSUME TypeOK, NEW p \in Procs, Publishing(p)
  PROVE  LET t == proc[p].todo IN
         /\ TypeOK' /\ UNCHANGED <<src, design, lock, count>>
         /\ Moved(p, 2, proc[p].made, proc[p].prepared, {})
         /\ \/ Begins(t, "unstamp") /\ pair' = [pair EXCEPT !.stamp = FALSE]
            \/ Begins(t, "agent") /\ pair' = [pair EXCEPT !.agent = proc[p].made]
            \/ Begins(t, "cowork") /\ pair' = [pair EXCEPT !.cowork = proc[p].made]
            \/ Begins(t, "stamp") /\ pair' = [pair EXCEPT !.stamp = TRUE]
<1>1. UNCHANGED <<dir, src, design, server, lock, count>> /\ Done(p)
  BY DEF Publishing, Unstamp, Publish
<1>2. \/ At(p, "unstamp") /\ pair' = [pair EXCEPT !.stamp = FALSE]
      \/ At(p, "agent") /\ pair' = [pair EXCEPT !.agent = proc[p].made]
      \/ At(p, "cowork") /\ pair' = [pair EXCEPT !.cowork = proc[p].made]
      \/ At(p, "stamp") /\ pair' = [pair EXCEPT !.stamp = TRUE]
  BY DEF Publishing, Unstamp, Publish
<1>3. proc[p].todo # <<>> /\ proc[p].made \in Binary
  BY <1>2, AtBegins, ProcessFields
<1>4. Moved(p, 2, proc[p].made, proc[p].prepared, {}) /\ proc' \in [Procs -> Process]
  BY <1>1, <1>3, Kept
<1>5. pair' \in [agent : Binary, cowork : Binary, stamp : BOOLEAN]
  BY <1>2, <1>3 DEF TypeOK
<1>6. TypeOK'
  BY <1>1, <1>4, <1>5 DEF TypeOK
<1>7. QED
  BY <1>1, <1>2, <1>4, <1>6, AtBegins

LEMMA PublishDesignMoves ==
  ASSUME TypeOK, NEW p \in Procs, PublishDesign(p)
  PROVE  LET t == proc[p].todo IN
         /\ TypeOK' /\ UNCHANGED <<src, pair, lock, count>>
         /\ Moved(p, 2, proc[p].made, proc[p].prepared, {})
         /\ \/ Begins(t, "design") /\ design' = [design EXCEPT !.binary = proc[p].prepared]
            \/ Begins(t, "receipt") /\ design' = [design EXCEPT !.stamp = proc[p].prepared]
<1>1. UNCHANGED <<dir, src, pair, server, lock, count>> /\ Done(p)
  BY DEF PublishDesign
<1>2. \/ At(p, "design") /\ design' = [design EXCEPT !.binary = proc[p].prepared]
      \/ At(p, "receipt") /\ design' = [design EXCEPT !.stamp = proc[p].prepared]
  BY DEF PublishDesign
<1>3. proc[p].todo # <<>> /\ proc[p].prepared \in Receipt
  BY <1>2, AtBegins, ProcessFields
<1>4. Moved(p, 2, proc[p].made, proc[p].prepared, {}) /\ proc' \in [Procs -> Process]
  BY <1>1, <1>3, Kept
<1>5. design' \in [binary : Receipt, stamp : Receipt]
  BY <1>2, <1>3 DEF TypeOK
<1>6. TypeOK'
  BY <1>1, <1>4, <1>5 DEF TypeOK
<1>7. QED
  BY <1>1, <1>2, <1>4, <1>6, AtBegins

(* A job that fails, and a process that dies.                              *)
LEMMA EndingMoves ==
  ASSUME TypeOK, NEW p \in Procs, Fail(p) \/ Die(p)
  PROVE  /\ TypeOK' /\ UNCHANGED <<src, pair, design, count>>
         /\ proc'[p] = Idle /\ \A n, b, r : Moved(p, n, b, r, {})
         /\ lock' = lock \/ (lock = p /\ lock' \in {Nobody, Orphan})
<1>1. /\ UNCHANGED <<dir, src, pair, design, server, count>> /\ proc' = [proc EXCEPT ![p] = Idle]
      /\ lock' = lock \/ (lock = p /\ lock' \in {Nobody, Orphan})
  BY DEF Fail, GiveUp, Die
<1>2. proc'[p] = Idle /\ \A n, b, r : Moved(p, n, b, r, {})
  BY <1>1, EndMoves DEF TypeOK
<1>3. TypeOK'
  BY <1>1, IdleProcess DEF TypeOK
<1>4. QED
  BY <1>1, <1>2, <1>3

LEMMA StartMoves ==
  ASSUME TypeOK, NEW p \in Procs, NEW j \in Jobs, Start(p, j)
  PROVE  /\ TypeOK' /\ UNCHANGED <<src, pair, design, lock>>
         /\ \A o \in Procs \ {p} : Stays(o, {})
         /\ proc'[p].todo = Steps(j) /\ proc'[p].prepared = NoDesign
         /\ proc'[p].id = count.jobs + 1 /\ count'.jobs = count.jobs + 1
         /\ proc'[p].began \subseteq src.edits
<1>1. proc \in [Procs -> Process] /\ count \in [jobs : Nat, edits : Nat]
  BY DEF TypeOK
<1> DEFINE b == IF j = "latest" THEN src.edits ELSE {}
           x == [Idle EXCEPT !.job = j, !.id = count'.jobs, !.todo = Steps(j), !.began = b]
<1>2. /\ UNCHANGED <<dir, src, pair, design, server, lock>>
      /\ count' = [count EXCEPT !.jobs = @ + 1] /\ proc' = [proc EXCEPT ![p] = x]
  BY DEF Start
<1>3. count'.jobs = count.jobs + 1 /\ count' \in [jobs : Nat, edits : Nat] /\ count'.jobs \in Nat
  BY <1>1, <1>2
<1>4. Steps(j) \in Todo
  BY JobsOrdered DEF Ordered
<1>5. b \in SUBSET Places /\ b \subseteq src.edits
  BY SourceTypes
<1> HIDE DEF b
<1>6. /\ x \in Process /\ x.todo = Steps(j) /\ x.id = count'.jobs /\ x.began = b
      /\ x.prepared = NoDesign
  BY <1>3, <1>4, <1>5, IdleProcess DEF Process
<1> HIDE DEF x
<1>7. /\ proc' \in [Procs -> Process] /\ proc'[p] = x /\ \A o \in Procs \ {p} : proc'[o] = proc[o]
  BY <1>1, <1>2, <1>6
<1>8. \A o \in Procs \ {p} : Stays(o, {})
  BY <1>1, <1>7, UnchangedStays
<1>9. TypeOK'
  BY <1>2, <1>3, <1>7 DEF TypeOK
<1>10. QED
  BY <1>2, <1>3, <1>5, <1>6, <1>7, <1>8, <1>9

(* What is no step of a process.                                           *)
Elsewhere == OrphanEnds \/ (\E x \in Places : Edit(x)) \/ UserMakes \/ UserFills \/ UNCHANGED vars

LEMMA EditMoves ==
  ASSUME TypeOK, NEW x \in Places, Edit(x)
  PROVE  /\ TypeOK' /\ design' = design /\ count'.jobs = count.jobs /\ src'.rev = src.rev
         /\ pair'.stamp = pair.stamp /\ lock' = lock
         /\ \E parts \in SUBSET Parts :
              /\ \A o \in Procs : Stays(o, parts)
              /\ Aged(pair'.agent, pair.agent, parts) /\ Aged(pair'.cowork, pair.cowork, parts)
              /\ AgentSource' = AgentSource \/ "agent" \in parts
         /\ \A o \in Procs : proc[o].began \subseteq src.edits => proc'[o].began \subseteq src'.edits
<1> DEFINE parts == IF x = "agent" THEN {"agent"} ELSE {"core"}
           made == OlderMade(parts)
<1>1. parts \in SUBSET Parts
  BY DEF Parts
<1>2. /\ Counted /\ Written(parts, FALSE) /\ UNCHANGED <<dir, design, lock>>
      /\ \/ /\ src' = [src EXCEPT !.edits = @ \ {x}]
            /\ proc' = [p \in Procs |-> [made[p] EXCEPT !.began = @ \ {x}]]
         \/ src' = [src EXCEPT !.edits = @ \cup {x}] /\ proc' = made
  BY DEF Edit
<1>3. "agent" \in parts \/ x # "agent"
  OBVIOUS
<1> HIDE DEF parts
<1>4. /\ pair' \in [agent : Binary, cowork : Binary, stamp : BOOLEAN]
      /\ server' \in [on : SUBSET Patches, touched : BOOLEAN]
      /\ Aged(pair'.agent, pair.agent, parts) /\ Aged(pair'.cowork, pair.cowork, parts)
      /\ pair'.stamp = pair.stamp
  BY <1>1, <1>2, WrittenPair DEF TypeOK
<1>5. count' \in [jobs : Nat, edits : Nat] /\ count'.jobs = count.jobs
  BY <1>2 DEF Counted, TypeOK
<1>6. /\ src' \in Sources /\ src'.rev = src.rev
      /\ src'.edits = src.edits \ {x} \/ src'.edits = src.edits \cup {x}
  BY <1>2 DEF TypeOK, Sources
<1>7. AgentSource' = AgentSource \/ "agent" \in parts
  <2>1. ASSUME x # "agent" PROVE AgentSource' = AgentSource
    <3>1. "agent" \in src'.edits <=> "agent" \in src.edits
      BY <1>6, <2>1
    <3>2. QED
      BY <1>6, <3>1 DEF AgentSource
  <2>2. QED
    BY <1>3, <2>1
<1>8. proc \in [Procs -> Process]
  BY DEF TypeOK
<1>9. ASSUME NEW o \in Procs
      PROVE  /\ made[o] \in Process
             /\ made[o].todo = proc[o].todo /\ made[o].id = proc[o].id
             /\ made[o].prepared = proc[o].prepared /\ made[o].began = proc[o].began
             /\ Aged(made[o].made, proc[o].made, parts)
  BY <1>1, <1>8, OlderMadeStays
<1>10. made \in [Procs -> Process]
  BY <1>9 DEF OlderMade
<1> HIDE DEF made
<1>11. CASE src' = [src EXCEPT !.edits = @ \cup {x}] /\ proc' = made
  <2>1. \A o \in Procs : Stays(o, parts)
    BY <1>9, <1>11 DEF Stays
  <2>2. src'.edits = src.edits \cup {x}
    BY <1>11 DEF TypeOK, Sources
  <2>3. \A o \in Procs : proc[o].began \subseteq src.edits => proc'[o].began \subseteq src'.edits
    BY <1>9, <1>11, <2>2
  <2>4. proc' \in [Procs -> Process]
    BY <1>10, <1>11
  <2>5. TypeOK'
    BY <1>2, <1>4, <1>5, <1>6, <2>4 DEF TypeOK
  <2>6. QED
    BY <1>1, <1>2, <1>4, <1>5, <1>6, <1>7, <2>1, <2>3, <2>5
<1>12. CASE /\ src' = [src EXCEPT !.edits = @ \ {x}]
            /\ proc' = [p \in Procs |-> [made[p] EXCEPT !.began = @ \ {x}]]
  <2>1. ASSUME NEW o \in Procs
        PROVE  /\ proc'[o] \in Process /\ proc'[o].began = made[o].began \ {x}
               /\ proc'[o].todo = made[o].todo /\ proc'[o].id = made[o].id
               /\ proc'[o].prepared = made[o].prepared /\ proc'[o].made = made[o].made
    <3>1. made[o] \in Process
      BY <1>9
    <3>2. proc'[o] = [made[o] EXCEPT !.began = made[o].began \ {x}]
      BY <1>12
    <3>3. made[o].began \ {x} \in SUBSET Places
      BY <3>1, ProcessFields
    <3>4. QED
      BY <3>1, <3>2, <3>3 DEF Process
  <2>2. \A o \in Procs : Stays(o, parts)
    BY <1>9, <2>1 DEF Stays
  <2>3. src'.edits = src.edits \ {x}
    BY <1>12 DEF TypeOK, Sources
  <2>4. \A o \in Procs : proc[o].began \subseteq src.edits => proc'[o].began \subseteq src'.edits
    BY <1>9, <2>1, <2>3
  <2>5. proc' \in [Procs -> Process]
    BY <1>12, <2>1
  <2>6. TypeOK'
    BY <1>2, <1>4, <1>5, <1>6, <2>5 DEF TypeOK
  <2>7. QED
    BY <1>1, <1>2, <1>4, <1>5, <1>6, <1>7, <2>2, <2>4, <2>6
<1>13. QED
  BY <1>2, <1>11, <1>12

LEMMA ElsewhereMoves ==
  ASSUME TypeOK, Elsewhere
  PROVE  /\ TypeOK' /\ design' = design /\ count'.jobs = count.jobs /\ src'.rev = src.rev
         /\ pair'.stamp = pair.stamp
         /\ lock' = lock \/ (lock = Orphan /\ lock' = Nobody)
         /\ \E parts \in SUBSET Parts :
              /\ \A o \in Procs : Stays(o, parts)
              /\ Aged(pair'.agent, pair.agent, parts) /\ Aged(pair'.cowork, pair.cowork, parts)
              /\ AgentSource' = AgentSource \/ "agent" \in parts
         /\ \A o \in Procs : proc[o].began \subseteq src.edits => proc'[o].began \subseteq src'.edits
<1>1. ASSUME UNCHANGED <<src, pair, design, proc>>,
             count'.jobs = count.jobs, count' \in [jobs : Nat, edits : Nat],
             dir' \in {dir, "foreign"}, server' = server \/ Made,
             lock' = lock \/ (lock = Orphan /\ lock' = Nobody)
      PROVE  /\ TypeOK'
             /\ \A o \in Procs : Stays(o, {})
             /\ Aged(pair'.agent, pair.agent, {}) /\ Aged(pair'.cowork, pair.cowork, {})
             /\ AgentSource' = AgentSource
  <2>1. proc \in [Procs -> Process] /\ pair \in [agent : Binary, cowork : Binary, stamp : BOOLEAN]
    BY DEF TypeOK
  <2>2. \A o \in Procs : Stays(o, {})
    BY <1>1, <2>1, UnchangedStays
  <2>3. Aged(pair'.agent, pair.agent, {}) /\ Aged(pair'.cowork, pair.cowork, {})
    BY <1>1, <2>1, AgedSelf
  <2>4. AgentSource' = AgentSource
    BY <1>1 DEF AgentSource
  <2>5. [on |-> src.on, touched |-> FALSE] \in [on : SUBSET Patches, touched : BOOLEAN]
    BY SourceTypes
  <2>6. server \in [on : SUBSET Patches, touched : BOOLEAN]
    BY DEF TypeOK
  <2>7. server' \in [on : SUBSET Patches, touched : BOOLEAN]
    BY <1>1, <2>5, <2>6 DEF Made
  <2>8. TypeOK'
    BY <1>1, <2>7 DEF TypeOK
  <2>9. QED
    BY <2>2, <2>3, <2>4, <2>8
<1>2. count \in [jobs : Nat, edits : Nat]
  BY DEF TypeOK
<1>3. Counted => count' \in [jobs : Nat, edits : Nat] /\ count'.jobs = count.jobs
  BY <1>2 DEF Counted
<1>4. {} \in SUBSET Parts
  OBVIOUS
<1>5. ASSUME OrphanEnds \/ UserMakes \/ UserFills \/ UNCHANGED vars
      PROVE  /\ UNCHANGED <<src, pair, design, proc>>
             /\ count'.jobs = count.jobs /\ count' \in [jobs : Nat, edits : Nat]
             /\ dir' \in {dir, "foreign"} /\ (server' = server \/ Made)
             /\ lock' = lock \/ (lock = Orphan /\ lock' = Nobody)
  <2>1. CASE OrphanEnds
    BY <1>2, <2>1 DEF OrphanEnds
  <2>2. CASE UserMakes
    BY <1>3, <2>2 DEF UserMakes
  <2>3. CASE UserFills
    BY <1>3, <2>3 DEF UserFills
  <2>4. CASE UNCHANGED vars
    BY <1>2, <2>4 DEF vars
  <2>5. QED
    BY <1>5, <2>1, <2>2, <2>3, <2>4
<1>6. CASE OrphanEnds \/ UserMakes \/ UserFills \/ UNCHANGED vars
  <2>1. /\ TypeOK'
        /\ \A o \in Procs : Stays(o, {})
        /\ Aged(pair'.agent, pair.agent, {}) /\ Aged(pair'.cowork, pair.cowork, {})
        /\ AgentSource' = AgentSource
    BY <1>1, <1>5, <1>6
  <2>2. UNCHANGED <<src, pair, design, proc>>
    BY <1>5, <1>6
  <2>3. count'.jobs = count.jobs /\ (lock' = lock \/ (lock = Orphan /\ lock' = Nobody))
    BY <1>5, <1>6
  <2>4. QED
    BY <1>4, <2>1, <2>2, <2>3
<1>7. CASE \E x \in Places : Edit(x)
  BY <1>7, EditMoves
<1>8. QED
  BY <1>6, <1>7 DEF Elsewhere

LEMMA StepKinds ==
  ASSUME [Next]_vars
  PROVE  \/ \E p \in Procs :
              \/ Quiet(p) \/ Writing(p) \/ Skipping(p) \/ Making(p) \/ Snapshot(p) \/ Private(p)
              \/ TakeLock(p) \/ Unlock(p) \/ Publishing(p) \/ PublishDesign(p)
              \/ Fail(p) \/ Die(p) \/ \E j \in Jobs : Start(p, j)
         \/ Elsewhere
  BY DEF Next, Step, Quiet, Writing, Skipping, Making, Publishing, Elsewhere
-----------------------------------------------------------------------------
(* What is left of every job is in order.                                  *)
Running == \A p \in Procs : Ordered(proc[p].todo, TRUE) /\ Once(proc[p].todo)

LEMMA EmptyRest ==
  ASSUME NEW t \in Todo
  PROVE  Rest(<<>>, t, Len(t) + 1)
<1>1. <<>> \in Todo /\ Len(<<>>) = 0
  BY EmptySeq DEF Todo
<1>2. Len(t) \in Nat
  BY TodoLen
<1> HIDE DEF Todo
<1>3. QED
  BY <1>1, <1>2 DEF Rest

LEMMA RestBegins ==
  ASSUME NEW t \in Todo, NEW u, NEW n, Rest(u, t, n), NEW x, Begins(u, x)
  PROVE  n \in 1 .. Len(t) /\ t[n][1] = x
<1>1. Len(u) > 0 /\ u[1][1] = x
  BY DEF Begins
<1>2. Len(t) \in Nat /\ Len(u) \in Nat /\ n \in Nat /\ n > 0 /\ Len(u) = Len(t) - n + 1
  BY RestMoves DEF Rest
<1>3. 1 \in 1 .. Len(u) /\ 1 + n - 1 = n
  BY <1>1, <1>2
<1>4. u[1] = t[1 + n - 1] /\ 1 + n - 1 \in 1 .. Len(t)
  BY <1>3, RestMoves
<1>5. QED
  BY <1>1, <1>3, <1>4

(* What a step leaves of its own job, and of another.                      *)
LEMMA MovedTodo ==
  ASSUME TypeOK, NEW p \in Procs, NEW n, NEW b, NEW r, NEW parts, Moved(p, n, b, r, parts)
  PROVE  /\ \E m : Rest(proc'[p].todo, proc[p].todo, m)
         /\ Len(proc'[p].todo) = 0 \/ Rest(proc'[p].todo, proc[p].todo, n)
         /\ \A o \in Procs \ {p} : proc'[o].todo = proc[o].todo
         /\ \A o \in Procs : proc'[o].began \subseteq proc[o].began
         /\ \A x : Begins(proc'[p].todo, x) =>
              /\ Rest(proc'[p].todo, proc[p].todo, n)
              /\ proc'[p].id = proc[p].id /\ proc'[p].began = proc[p].began
              /\ proc'[p].prepared = r /\ Aged(proc'[p].made, b, parts)
              /\ n \in 1 .. Len(proc[p].todo) /\ proc[p].todo[n][1] = x
<1>1. proc[p] \in Process /\ proc[p].todo \in Todo
  BY AtBegins
<1>2. \A o \in Procs \ {p} : Stays(o, parts)
  BY DEF Moved
<1>3. CASE proc'[p] = Idle
  <2>1. proc'[p].todo = <<>> /\ proc'[p].began = {}
    BY <1>3, IdleProcess
  <2>2. Rest(proc'[p].todo, proc[p].todo, Len(proc[p].todo) + 1)
    BY <1>1, <2>1, EmptyRest
  <2>3. \A x : ~Begins(proc'[p].todo, x)
    BY <2>1, EmptySeq DEF Begins
  <2>4. Len(proc'[p].todo) = 0
    BY <2>1, EmptySeq
  <2>5. QED
    BY <1>2, <2>1, <2>2, <2>3, <2>4 DEF Stays
<1>4. CASE /\ Rest(proc'[p].todo, proc[p].todo, n)
           /\ proc'[p].id = proc[p].id /\ proc'[p].began = proc[p].began
           /\ proc'[p].prepared = r /\ Aged(proc'[p].made, b, parts)
  <2>1. \A x : Begins(proc'[p].todo, x) => n \in 1 .. Len(proc[p].todo) /\ proc[p].todo[n][1] = x
    BY <1>1, <1>4, RestBegins
  <2>2. QED
    BY <1>2, <1>4, <2>1 DEF Stays
<1>5. QED
  BY <1>3, <1>4 DEF Moved

LEMMA RunningMoved ==
  ASSUME TypeOK, Running, NEW p \in Procs, NEW n, NEW b, NEW r, NEW parts, Moved(p, n, b, r, parts)
  PROVE  Running'
<1>1. Ordered(proc'[p].todo, TRUE) /\ Once(proc'[p].todo)
  BY MovedTodo, OrderedRest DEF Running
<1>2. ASSUME NEW o \in Procs PROVE Ordered(proc'[o].todo, TRUE) /\ Once(proc'[o].todo)
  BY <1>1, MovedTodo DEF Running
<1>3. QED
  BY <1>2 DEF Running

LEMMA InitTypes == Init => TypeOK /\ Running
<1>1. SUFFICES ASSUME Init PROVE TypeOK /\ Running
  OBVIOUS
<1>2. src \in Sources
  BY <1>1, CheckoutAssumption DEF Init, Sources
<1>3. pair \in [agent : Binary, cowork : Binary, stamp : BOOLEAN] /\ design \in [binary : Receipt, stamp : Receipt]
  BY <1>1, NoneMade DEF Init
<1>4. server \in [on : SUBSET Patches, touched : BOOLEAN]
  BY <1>1 DEF Init, NoServer
<1>5. proc = [p \in Procs |-> Idle] /\ proc \in [Procs -> Process]
  BY <1>1, IdleProcess DEF Init
<1>6. TypeOK
  BY <1>1, <1>2, <1>3, <1>4, <1>5 DEF TypeOK, Init
<1>7. \A p \in Procs : proc[p].todo = <<>>
  BY <1>5, IdleProcess
<1>8. <<>> \in Todo /\ Len(<<>>) = 0
  BY EmptySeq DEF Todo
<1>9. Ordered(<<>>, TRUE) /\ Once(<<>>)
  BY <1>8 DEF Ordered, Linked, After, Then, Paired, Once
<1>10. QED
  BY <1>6, <1>7, <1>9 DEF Running

LEMMA TypesStep == TypeOK /\ Running /\ [Next]_vars => TypeOK' /\ Running'
<1>1. SUFFICES ASSUME TypeOK, Running, [Next]_vars PROVE TypeOK' /\ Running'
  OBVIOUS
<1>2. \A p \in Procs : Ordered(proc[p].todo, TRUE)
  BY <1>1 DEF Running
<1>3. ASSUME NEW p \in Procs, Quiet(p) PROVE TypeOK' /\ Running'
  BY <1>1, <1>3, QuietMoves, RunningMoved
<1>4. ASSUME NEW p \in Procs, Writing(p) PROVE TypeOK' /\ Running'
  BY <1>1, <1>4, WritingMoves, RunningMoved
<1>5. ASSUME NEW p \in Procs, Skipping(p) PROVE TypeOK' /\ Running'
  BY <1>1, <1>2, <1>5, SkippingMoves, RunningMoved
<1>6. ASSUME NEW p \in Procs, Making(p) PROVE TypeOK' /\ Running'
  BY <1>1, <1>6, MakingMoves, RunningMoved
<1>7. ASSUME NEW p \in Procs, Snapshot(p) \/ Private(p) PROVE TypeOK' /\ Running'
  BY <1>1, <1>7, SnapshotMoves, PrivateMoves, RunningMoved
<1>8. ASSUME NEW p \in Procs, TakeLock(p) \/ Unlock(p) PROVE TypeOK' /\ Running'
  BY <1>1, <1>8, LockMoves, RunningMoved
<1>9. ASSUME NEW p \in Procs, Publishing(p) PROVE TypeOK' /\ Running'
  BY <1>1, <1>9, PublishingMoves, RunningMoved
<1>10. ASSUME NEW p \in Procs, PublishDesign(p) PROVE TypeOK' /\ Running'
  BY <1>1, <1>10, PublishDesignMoves, RunningMoved
<1>11. ASSUME NEW p \in Procs, Fail(p) \/ Die(p) PROVE TypeOK' /\ Running'
  <2>1. TypeOK' /\ \A n, b, r : Moved(p, n, b, r, {})
    BY <1>1, <1>11, EndingMoves
  <2>2. QED
    BY <1>1, <2>1, RunningMoved
<1>12. ASSUME NEW p \in Procs, NEW j \in Jobs, Start(p, j) PROVE TypeOK' /\ Running'
  <2>1. TypeOK' /\ proc'[p].todo = Steps(j) /\ \A o \in Procs \ {p} : Stays(o, {})
    BY <1>1, <1>12, StartMoves
  <2>2. Ordered(proc'[p].todo, TRUE) /\ Once(proc'[p].todo)
    BY <2>1, JobsOrdered, OrderedBegun
  <2>3. ASSUME NEW o \in Procs PROVE Ordered(proc'[o].todo, TRUE) /\ Once(proc'[o].todo)
    BY <1>1, <2>1, <2>2 DEF Running, Stays
  <2>4. QED
    BY <2>1, <2>3 DEF Running
<1>13. ASSUME Elsewhere PROVE TypeOK' /\ Running'
  BY <1>1, <1>13, ElsewhereMoves DEF Running, Stays
<1>14. QED
  BY <1>1, <1>3, <1>4, <1>5, <1>6, <1>7, <1>8, <1>9, <1>10, <1>11, <1>12, <1>13, StepKinds

LEMMA TypesAlways == Spec => [](TypeOK /\ Running)
  BY InitTypes, TypesStep, PTL DEF Spec

(* The state has the types that its comments say, whatever is interleaved. *)
THEOREM CheckoutTypeOK == Spec => []TypeOK
  BY TypesAlways, PTL
-----------------------------------------------------------------------------
(* Only a job that still gives the lock back has it, and no other has it.  *)
Open(t, a, b) == \E i \in 1 .. Len(t) : t[i][1] = a /\ \A k \in 1 .. i - 1 : t[k][1] # b
Locked(t) == Open(t, "unlock", "lock")
Builders == \A p \in Procs : Locked(proc[p].todo) => lock = p

LEMMA OpenRest ==
  ASSUME NEW t \in Todo, NEW u, NEW n, NEW a, NEW b, Rest(u, t, n), Open(u, a, b),
         \A k \in 1 .. n - 1 : t[k][1] # b
  PROVE  Open(t, a, b)
<1>1. PICK i \in 1 .. Len(u) : u[i][1] = a /\ \A k \in 1 .. i - 1 : u[k][1] # b
  BY DEF Open
<1> DEFINE m == i + n - 1
<1>2. Len(t) \in Nat /\ Len(u) \in Nat /\ n \in Nat /\ n > 0
  BY RestMoves
<1>3. m \in 1 .. Len(t) /\ u[i] = t[m]
  BY RestMoves
<1>4. ASSUME NEW k \in 1 .. m - 1, ~(k <= n - 1) PROVE t[k][1] # b
  <2>1. k \in n .. Len(t) /\ k - n + 1 \in 1 .. i - 1
    BY <1>2, <1>3, <1>4
  <2>2. u[k - n + 1] = t[k]
    BY <2>1, RestMoves
  <2>3. QED
    BY <1>1, <2>1, <2>2
<1>5. \A k \in 1 .. m - 1 : k <= n - 1 => k \in 1 .. n - 1
  BY <1>2, <1>3
<1>6. QED
  BY <1>1, <1>3, <1>4, <1>5 DEF Open

LEMMA OpenNew ==
  ASSUME NEW t \in Todo, NEW a, NEW b, NEW c, a # b, Paired(t, c, b, a, FALSE)
  PROVE  ~Open(t, a, b)
<1>1. SUFFICES ASSUME Open(t, a, b) PROVE FALSE
  OBVIOUS
<1>2. PICK i \in 1 .. Len(t) : t[i][1] = a /\ \A k \in 1 .. i - 1 : t[k][1] # b
  BY <1>1 DEF Open
<1>3. PICK k \in 1 .. i : t[k][1] = b
  BY <1>2 DEF Paired
<1>4. k = i \/ k \in 1 .. i - 1
  BY TodoLen
<1>5. QED
  BY <1>2, <1>3, <1>4

LEMMA OpenAgain ==
  ASSUME NEW t \in Todo, NEW u, NEW a, NEW b, NEW n, n # 1, Rest(u, t, n), Paired(t, a, b, a, TRUE),
         Len(t) > 0, t[1][1] = a, \A k \in 1 .. n - 1 : t[k][1] # b
  PROVE  ~Open(u, a, b)
<1>1. SUFFICES ASSUME Open(u, a, b) PROVE FALSE
  OBVIOUS
<1>2. PICK i \in 1 .. Len(u) : u[i][1] = a /\ \A k \in 1 .. i - 1 : u[k][1] # b
  BY <1>1 DEF Open
<1> DEFINE m == i + n - 1
<1>3. Len(t) \in Nat /\ Len(u) \in Nat /\ n \in Nat /\ n > 1
  BY RestMoves
<1>4. m \in 1 .. Len(t) /\ u[i] = t[m] /\ 1 \in 1 .. Len(t) /\ 1 < m
  BY <1>3, RestMoves
<1>5. PICK k \in 1 .. m : t[k][1] = b
  <2>1. t[m][1] = a
    BY <1>2, <1>4
  <2> HIDE DEF m
  <2>2. QED
    BY <1>4, <2>1 DEF Paired
<1>6. t[k][1] = b /\ k \notin 1 .. n - 1
  BY <1>5
<1>7. k \in n .. Len(t) /\ k - n + 1 \in 1 .. i
  BY <1>3, <1>4, <1>5, <1>6
<1>8. u[k - n + 1] = t[k]
  BY <1>7, RestMoves
<1>9. k - n + 1 = i => t[k] = t[m]
  <2>1. k \in Int /\ n \in Int /\ i \in Int
    BY <1>3, <1>7
  <2>2. \A x, y, z \in Int : x - y + 1 = z => x = z + y - 1
    OBVIOUS
  <2>3. k - n + 1 = i => k = m
    BY <2>1, <2>2
  <2> HIDE DEF m
  <2> QED
    BY <2>3
<1>10. a # b
  BY <1>3
<1>11. k - n + 1 # i
  BY <1>2, <1>4, <1>6, <1>9, <1>10
<1>12. k - n + 1 \in 1 .. i - 1
  BY <1>3, <1>7, <1>11
<1>13. QED
  BY <1>2, <1>6, <1>8, <1>12

LEMMA NotFirst ==
  ASSUME NEW t, NEW x, NEW y, Begins(t, x), x # y
  PROVE  \A k \in 1 .. 2 - 1 : t[k][1] # y
  BY DEF Begins

LEMMA EmptyOpen ==
  ASSUME NEW t, NEW a, NEW b, Len(t) = 0
  PROVE  ~Open(t, a, b)
  BY DEF Open

LEMMA BuildersMoved ==
  ASSUME TypeOK, Builders, NEW p \in Procs, NEW n, NEW b, NEW r, NEW parts, Moved(p, n, b, r, parts),
         lock' = lock, \A k \in 1 .. n - 1 : proc[p].todo[k][1] # "lock"
  PROVE  Builders'
<1>1. ASSUME NEW o \in Procs, Locked(proc'[o].todo) PROVE lock' = o
  <2>1. CASE o = p
    <3>1. Rest(proc'[p].todo, proc[p].todo, n)
      BY <1>1, <2>1, MovedTodo, EmptyOpen DEF Locked
    <3>2. Locked(proc[p].todo)
      BY <1>1, <2>1, <3>1, OpenRest, AtBegins DEF Locked
    <3>3. QED
      BY <2>1, <3>2 DEF Builders
  <2>2. CASE o # p
    BY <1>1, <2>2, MovedTodo DEF Builders
  <2>3. QED
    BY <2>1, <2>2
<1>2. QED
  BY <1>1 DEF Builders

LEMMA BuildersStep == TypeOK /\ Running /\ Builders /\ [Next]_vars => Builders'
<1>1. SUFFICES ASSUME TypeOK, Running, Builders, [Next]_vars PROVE Builders'
  OBVIOUS
<1>2. Nobody \notin Procs /\ Orphan \notin Procs
  BY CheckoutAssumption
<1>3. ASSUME NEW p \in Procs, NEW x, Begins(proc[p].todo, x), x # "lock",
             NEW b, NEW r, NEW parts, Moved(p, 2, b, r, parts), lock' = lock
      PROVE  Builders'
  <2>1. \A k \in 1 .. 2 - 1 : proc[p].todo[k][1] # "lock"
    BY <1>3, NotFirst
  <2>2. QED
    BY <1>1, <1>3, <2>1, BuildersMoved
<1>4. ASSUME NEW p \in Procs, Quiet(p) PROVE Builders'
  BY <1>1, <1>3, <1>4, QuietMoves DEF QuietNames
<1>5. ASSUME NEW p \in Procs, Writing(p) PROVE Builders'
  BY <1>1, <1>3, <1>5, WritingMoves
<1>6. ASSUME NEW p \in Procs, Skipping(p) PROVE Builders'
  <2>1. Ordered(proc[p].todo, TRUE)
    BY <1>1 DEF Running
  <2>2. PICK n \in 1 .. Len(proc[p].todo) + 1 :
          /\ Moved(p, n, proc[p].made, proc[p].prepared, {})
          /\ \A k \in 1 .. n - 1 : proc[p].todo[k][1] # "lock"
    BY <1>1, <1>6, <2>1, SkippingMoves
  <2>3. lock' = lock
    BY <1>1, <1>6, <2>1, SkippingMoves
  <2>4. QED
    BY <1>1, <2>2, <2>3, BuildersMoved
<1>7. ASSUME NEW p \in Procs, Making(p) PROVE Builders'
  BY <1>1, <1>3, <1>7, MakingMoves
<1>8. ASSUME NEW p \in Procs, Snapshot(p) \/ Private(p) PROVE Builders'
  BY <1>1, <1>3, <1>8, SnapshotMoves, PrivateMoves
<1>9. ASSUME NEW p \in Procs, TakeLock(p) PROVE Builders'
  <2>1. lock = Nobody /\ lock' = p /\ \A o \in Procs \ {p} : proc'[o].todo = proc[o].todo
    BY <1>1, <1>9, LockMoves, MovedTodo
  <2>2. QED
    BY <1>1, <1>2, <2>1 DEF Builders
<1>10. ASSUME NEW p \in Procs, Unlock(p) PROVE Builders'
  <2> DEFINE t == proc[p].todo  u == proc'[p].todo
  <2>1. Begins(t, "unlock") /\ lock' = Nobody /\ Moved(p, 2, None, NoDesign, {})
    BY <1>1, <1>10, LockMoves
  <2>2. /\ Len(u) = 0 \/ Rest(u, t, 2)
        /\ \A o \in Procs \ {p} : proc'[o].todo = proc[o].todo
    BY <1>1, <2>1, MovedTodo, AtBegins
  <2>3. t \in Todo /\ Paired(t, "unlock", "lock", "unlock", TRUE)
    BY <1>1 DEF Running, Ordered
  <2> HIDE DEF t, u
  <2>4. Len(t) > 0 /\ t[1][1] = "unlock" /\ Len(t) \in Nat
    BY <2>1, <2>3, TodoLen DEF Begins
  <2>5. Locked(t)
    <3>1. 1 \in 1 .. Len(t) /\ \A k \in 1 .. 1 - 1 : t[k][1] # "lock"
      BY <2>4
    <3>2. QED
      BY <2>4, <3>1 DEF Locked, Open
  <2>6. lock = p
    BY <1>1, <2>5 DEF Builders, t
  <2>7. ~Locked(u)
    <3> DEFINE n == 2
    <3>0. n # 1
      OBVIOUS
    <3>1. \A k \in 1 .. n - 1 : t[k][1] # "lock"
      BY <2>1, NotFirst
    <3>2. CASE Len(u) = 0
      BY <3>2, EmptyOpen DEF Locked
    <3>3. CASE Rest(u, t, n)
      <4> HIDE DEF n
      <4>1. QED
        BY <2>3, <2>4, <3>0, <3>1, <3>3, OpenAgain DEF Locked
    <3>4. QED
      BY <2>2, <3>2, <3>3
  <2>8. \A o \in Procs : ~Locked(proc'[o].todo)
    BY <1>1, <2>2, <2>6, <2>7 DEF Builders, u
  <2>9. QED
    BY <2>8 DEF Builders
<1>11. ASSUME NEW p \in Procs, Publishing(p) PROVE Builders'
  <2>1. \E x \in {"unstamp", "agent", "cowork", "stamp"} : Begins(proc[p].todo, x)
    BY <1>1, <1>11, PublishingMoves
  <2>2. lock' = lock /\ Moved(p, 2, proc[p].made, proc[p].prepared, {})
    BY <1>1, <1>11, PublishingMoves
  <2>3. QED
    BY <1>3, <2>1, <2>2
<1>12. ASSUME NEW p \in Procs, PublishDesign(p) PROVE Builders'
  <2>1. \E x \in {"design", "receipt"} : Begins(proc[p].todo, x)
    BY <1>1, <1>12, PublishDesignMoves
  <2>2. lock' = lock /\ Moved(p, 2, proc[p].made, proc[p].prepared, {})
    BY <1>1, <1>12, PublishDesignMoves
  <2>3. QED
    BY <1>3, <2>1, <2>2
<1>13. ASSUME NEW p \in Procs, Fail(p) \/ Die(p) PROVE Builders'
  <2>1. /\ proc'[p] = Idle /\ (lock' = lock \/ lock = p)
        /\ \A n, b, r : Moved(p, n, b, r, {})
    BY <1>1, <1>13, EndingMoves
  <2>2. Len(proc'[p].todo) = 0 /\ \A o \in Procs \ {p} : proc'[o].todo = proc[o].todo
    BY <1>1, <2>1, MovedTodo, IdleProcess, EmptySeq
  <2>3. QED
    BY <1>1, <2>1, <2>2, EmptyOpen DEF Builders, Locked
<1>14. ASSUME NEW p \in Procs, NEW j \in Jobs, Start(p, j) PROVE Builders'
  <2>1. /\ proc'[p].todo = Steps(j) /\ \A o \in Procs \ {p} : Stays(o, {})
        /\ lock' = lock
    BY <1>1, <1>14, StartMoves
  <2>2. ~Locked(Steps(j))
    BY JobsOrdered, OpenNew DEF Locked, Ordered
  <2>3. QED
    BY <1>1, <2>1, <2>2 DEF Builders, Stays
<1>15. ASSUME Elsewhere PROVE Builders'
  BY <1>1, <1>2, <1>15, ElsewhereMoves DEF Builders, Stays
<1>16. QED
  BY <1>1, <1>4, <1>5, <1>6, <1>7, <1>8, <1>9, <1>10, <1>11, <1>12, <1>13, <1>14, <1>15, StepKinds
-----------------------------------------------------------------------------
(* A job that is about to pull was looked over right before: nothing is    *)
(* left of the edits that were there when it began.                        *)
Pulls ==
  \A p \in Procs : /\ proc[p].began \subseteq src.edits
                   /\ Begins(proc[p].todo, "pull") => proc[p].began = {}

(* The step before the first of what is left.                              *)
LEMMA Before ==
  ASSUME NEW t \in Todo, NEW a, NEW b, After(t, a, b, TRUE), NEW n \in 1 .. Len(t), t[n][1] = b, n # 1
  PROVE  t[n - 1][1] = a
  BY DEF After

LEMMA PullsOthers ==
  ASSUME Pulls, NEW o \in Procs, NEW parts, Stays(o, parts)
  PROVE  Begins(proc'[o].todo, "pull") => proc'[o].began = {}
  BY DEF Pulls, Stays

LEMMA PullsMoved ==
  ASSUME TypeOK, Running, Pulls, NEW p \in Procs, NEW n, NEW b, NEW r, NEW parts, Moved(p, n, b, r, parts),
         src'.edits = src.edits,
         \/ n = 2 /\ (Begins(proc[p].todo, "diff") => src.edits = {})
         \/ n \in 1 .. Len(proc[p].todo) /\ proc[p].todo[n][1] # "pull"
  PROVE  Pulls'
<1> DEFINE t == proc[p].todo
<1>1. \A o \in Procs \ {p} : Stays(o, parts)
  BY DEF Moved
<1>2. \A o \in Procs : proc'[o].began \subseteq src'.edits
  BY MovedTodo DEF Pulls
<1>3. ASSUME Begins(proc'[p].todo, "pull") PROVE proc'[p].began = {}
  <2>1. n \in 1 .. Len(t) /\ t[n][1] = "pull"
    BY <1>3, MovedTodo
  <2>2. n = 2 /\ (Begins(t, "diff") => src.edits = {})
    BY <2>1
  <2>3. t \in Todo /\ After(t, "diff", "pull", TRUE)
    BY DEF Running, Ordered, Linked
  <2> HIDE DEF t
  <2>4. n # 1 /\ n - 1 = 1
    BY <2>2
  <2>5. t[n - 1][1] = "diff"
    BY <2>1, <2>3, <2>4, Before
  <2>6. t[1][1] = "diff" /\ Len(t) > 0
    BY <2>1, <2>3, <2>4, <2>5, TodoLen
  <2>7. src.edits = {}
    BY <2>2, <2>6 DEF Begins
  <2>8. QED
    BY <1>2, <2>7
<1>4. \A o \in Procs \ {p} : Begins(proc'[o].todo, "pull") => proc'[o].began = {}
  BY <1>1, PullsOthers
<1>5. QED
  BY <1>2, <1>3, <1>4 DEF Pulls

LEMMA PullsStep == TypeOK /\ Running /\ Pulls /\ [Next]_vars => Pulls'
<1>1. SUFFICES ASSUME TypeOK, Running, Pulls, [Next]_vars PROVE Pulls'
  OBVIOUS
<1>2. ASSUME NEW p \in Procs, NEW x, Begins(proc[p].todo, x), x # "diff",
             NEW b, NEW r, NEW parts, Moved(p, 2, b, r, parts), src'.edits = src.edits
      PROVE  Pulls'
  <2>1. ~Begins(proc[p].todo, "diff")
    BY <1>2 DEF Begins
  <2>2. QED
    BY <1>1, <1>2, <2>1, PullsMoved
<1>3. ASSUME NEW p \in Procs, Quiet(p) PROVE Pulls'
  <2>1. /\ Moved(p, 2, proc[p].made, proc[p].prepared, {}) /\ src' = src
        /\ Begins(proc[p].todo, "diff") => src.edits = {}
    BY <1>1, <1>3, QuietMoves
  <2>2. QED
    BY <1>1, <2>1, PullsMoved
<1>4. ASSUME NEW p \in Procs, Writing(p) PROVE Pulls'
  BY <1>1, <1>2, <1>4, WritingMoves
<1>5. ASSUME NEW p \in Procs, Skipping(p) PROVE Pulls'
  <2>1. Ordered(proc[p].todo, TRUE)
    BY <1>1 DEF Running
  <2>2. /\ src' = src /\ \E x \in {"inspect", "agent_fresh", "design_fresh"} : Begins(proc[p].todo, x)
    BY <1>1, <1>5, <2>1, SkippingMoves
  <2>3. PICK n \in 1 .. Len(proc[p].todo) + 1 :
          /\ Moved(p, n, proc[p].made, proc[p].prepared, {})
          /\ \/ n = 2
             \/ n <= Len(proc[p].todo) /\ proc[p].todo[n][1] = "apply"
             \/ n <= Len(proc[p].todo) /\ proc[p].todo[n][1] = "unlock"
    BY <1>1, <1>5, <2>1, SkippingMoves
  <2>4. ~Begins(proc[p].todo, "diff")
    BY <2>2 DEF Begins
  <2>5. \/ n = 2 /\ (Begins(proc[p].todo, "diff") => src.edits = {})
        \/ n \in 1 .. Len(proc[p].todo) /\ proc[p].todo[n][1] # "pull"
    BY <2>3, <2>4, TodoLen, AtBegins, <1>1
  <2>6. QED
    BY <1>1, <2>2, <2>3, <2>5, PullsMoved
<1>6. ASSUME NEW p \in Procs, Making(p) PROVE Pulls'
  BY <1>1, <1>2, <1>6, MakingMoves
<1>7. ASSUME NEW p \in Procs, Snapshot(p) \/ Private(p) PROVE Pulls'
  BY <1>1, <1>2, <1>7, SnapshotMoves, PrivateMoves
<1>8. ASSUME NEW p \in Procs, TakeLock(p) \/ Unlock(p) PROVE Pulls'
  BY <1>1, <1>2, <1>8, LockMoves
<1>9. ASSUME NEW p \in Procs, Publishing(p) PROVE Pulls'
  <2>1. \E x \in {"unstamp", "agent", "cowork", "stamp"} : Begins(proc[p].todo, x)
    BY <1>1, <1>9, PublishingMoves
  <2>2. src' = src /\ Moved(p, 2, proc[p].made, proc[p].prepared, {})
    BY <1>1, <1>9, PublishingMoves
  <2>3. QED
    BY <1>2, <2>1, <2>2
<1>10. ASSUME NEW p \in Procs, PublishDesign(p) PROVE Pulls'
  <2>1. \E x \in {"design", "receipt"} : Begins(proc[p].todo, x)
    BY <1>1, <1>10, PublishDesignMoves
  <2>2. src' = src /\ Moved(p, 2, proc[p].made, proc[p].prepared, {})
    BY <1>1, <1>10, PublishDesignMoves
  <2>3. QED
    BY <1>2, <2>1, <2>2
<1>11. ASSUME NEW p \in Procs, Fail(p) \/ Die(p) PROVE Pulls'
  <2>1. /\ proc'[p] = Idle /\ src' = src
        /\ \A n, b, r : Moved(p, n, b, r, {})
    BY <1>1, <1>11, EndingMoves
  <2>2. proc'[p].began = {} /\ \A o \in Procs \ {p} : Stays(o, {})
    BY <2>1, IdleProcess DEF Moved
  <2>3. \A o \in Procs \ {p} : Begins(proc'[o].todo, "pull") => proc'[o].began = {}
    BY <1>1, <2>2, PullsOthers
  <2>4. \A o \in Procs : proc'[o].began \subseteq src'.edits
    BY <1>1, <2>1, MovedTodo DEF Pulls
  <2>5. QED
    BY <2>2, <2>3, <2>4 DEF Pulls
<1>12. ASSUME NEW p \in Procs, NEW j \in Jobs, Start(p, j) PROVE Pulls'
  <2>1. /\ proc'[p].todo = Steps(j) /\ \A o \in Procs \ {p} : Stays(o, {})
        /\ src' = src /\ proc'[p].began \subseteq src.edits
    BY <1>1, <1>12, StartMoves
  <2>2. ~Begins(Steps(j), "pull")
    <3>1. Steps(j) \in Todo /\ After(Steps(j), "diff", "pull", FALSE)
      BY JobsOrdered DEF Ordered, Linked
    <3>2. QED
      BY <3>1, TodoLen DEF After, Begins
  <2>3. \A o \in Procs \ {p} : Begins(proc'[o].todo, "pull") => proc'[o].began = {}
    BY <1>1, <2>1, PullsOthers
  <2>4. \A o \in Procs \ {p} : proc'[o].began \subseteq src'.edits
    BY <1>1, <2>1 DEF Pulls, Stays
  <2>5. QED
    BY <2>1, <2>2, <2>3, <2>4 DEF Pulls
<1>13. ASSUME Elsewhere PROVE Pulls'
  <2>1. PICK parts \in SUBSET Parts : \A o \in Procs : Stays(o, parts)
    BY <1>1, <1>13, ElsewhereMoves
  <2>2. \A o \in Procs : Begins(proc'[o].todo, "pull") => proc'[o].began = {}
    BY <1>1, <2>1, PullsOthers
  <2>3. \A o \in Procs : proc[o].began \subseteq src.edits => proc'[o].began \subseteq src'.edits
    BY <1>1, <1>13, ElsewhereMoves
  <2>4. QED
    BY <1>1, <2>2, <2>3 DEF Pulls
<1>14. QED
  BY <1>1, <1>3, <1>4, <1>5, <1>6, <1>7, <1>8, <1>9, <1>10, <1>11, <1>12, <1>13, StepKinds

LEMMA PullsAlways == Spec => [](TypeOK /\ Running /\ Pulls)
<1>1. Init => Pulls
  <2>1. SUFFICES ASSUME Init PROVE Pulls
    OBVIOUS
  <2>2. \A p \in Procs : proc[p].todo = <<>> /\ proc[p].began = {}
    BY <2>1, IdleProcess DEF Init
  <2>3. \A x : ~Begins(<<>>, x)
    BY EmptySeq DEF Begins
  <2>4. QED
    BY <2>2, <2>3 DEF Pulls
<1>2. QED
  BY <1>1, InitTypes, TypesStep, PullsStep, PTL DEF Spec

(* An update never pulls over an edit that was there when it began and     *)
(* still is (updates_run_ds4_latest): whoever edits, builds or dies between *)
(* the look at the names, the restored patches and the git diff.           *)
THEOREM PullsOverNothingAlways == Spec => PullsOverNothing
<1>1. TypeOK /\ Pulls /\ [Next]_vars =>
        [src'.rev # src.rev => \A p \in Procs : At(p, "pull") => proc[p].began = {}]_vars
  BY AtBegins DEF Pulls
<1>2. QED
  BY <1>1, PullsAlways, PTL DEF Spec, PullsOverNothing

(* A setup never replaces what the user put at its path                    *)
(* (setup_download_ds4_archive), however late he put it there.             *)
THEOREM UserFilesStayAlways == Spec => UserFilesStay
<1>1. [Next]_vars => [dir = "foreign" => dir' = "foreign"]_vars
  <2>1. SUFFICES ASSUME Next, dir = "foreign" PROVE dir' = "foreign"
    OBVIOUS
  <2>2. ASSUME NEW p \in Procs, Step(p) PROVE dir' = "foreign"
    <3>1. CASE Quiet(p)
      BY <2>1, <3>1 DEF Quiet, Download, Clear, Place, Status, Diff, Anchors, Make, CheckServer, Compare, Same
    <3>2. CASE Writing(p) \/ Skipping(p) \/ Making(p)
      BY <2>1, <3>2 DEF Writing, ApplyStep, RestoreStep, Pull, Skipping, Inspect, LookAtPair,
                        LookAtDesign, Making, Read, Compile, Link
    <3>3. CASE Snapshot(p) \/ Private(p) \/ TakeLock(p) \/ Unlock(p) \/ Publishing(p) \/ PublishDesign(p)
      BY <2>1, <3>3 DEF Snapshot, Private, TakeLock, Unlock, Publishing, Unstamp, Publish, PublishDesign
    <3>4. QED
      BY <2>2, <3>1, <3>2, <3>3 DEF Step, Quiet, Writing, Skipping, Making, Publishing
  <2>3. ASSUME NEW p \in Procs, Fail(p) \/ Die(p) \/ \E j \in Jobs : Start(p, j) PROVE dir' = "foreign"
    BY <2>1, <2>3 DEF Fail, Die, Start
  <2>4. ASSUME Elsewhere PROVE dir' = "foreign"
    BY <2>1, <2>4 DEF Elsewhere, OrphanEnds, Edit, UserMakes, UserFills, vars
  <2>5. QED
    BY <2>1, <2>2, <2>3, <2>4 DEF Next, Elsewhere
<1>2. QED
  BY <1>1, PTL DEF Spec, UserFilesStay
-----------------------------------------------------------------------------
(* A binary that is not older than the Agent's sources is made of them; so *)
(* is one that is about to be published.                                   *)
Current(b) == b.job # 0 /\ "agent" \notin b.touched => b.agent = AgentSource
Builds ==
  /\ Current(pair.agent) /\ Current(pair.cowork)
  /\ \A p \in Procs : Begins(proc[p].todo, "agent") \/ Begins(proc[p].todo, "cowork") =>
       Current(proc[p].made)

LEMMA CurrentAged ==
  ASSUME NEW b, NEW c, NEW parts, Aged(c, b, parts), NEW s, NEW old,
         b.job # 0 /\ "agent" \notin b.touched => b.agent = old,
         s = old \/ "agent" \in parts
  PROVE  c.job # 0 /\ "agent" \notin c.touched => c.agent = s
  BY DEF Aged

(* The pair, and the jobs of the others.                                   *)
LEMMA BuildsOthers ==
  ASSUME Builds, NEW o \in Procs, NEW parts, Stays(o, parts), AgentSource' = AgentSource \/ "agent" \in parts
  PROVE  Begins(proc'[o].todo, "agent") \/ Begins(proc'[o].todo, "cowork") => Current(proc[o].made)'
<1>1. SUFFICES ASSUME Begins(proc'[o].todo, "agent") \/ Begins(proc'[o].todo, "cowork")
      PROVE Current(proc[o].made)'
  OBVIOUS
<1>2. Current(proc[o].made) /\ Aged(proc'[o].made, proc[o].made, parts)
  BY <1>1 DEF Builds, Stays
<1>3. QED
  BY <1>2, CurrentAged DEF Current

LEMMA BuildsMoved ==
  ASSUME TypeOK, Running, Builds, NEW p \in Procs, NEW n, NEW b, NEW r, NEW parts, Moved(p, n, b, r, parts),
         AgentSource' = AgentSource \/ "agent" \in parts,
         Current(pair.agent)' /\ Current(pair.cowork)',
         \/ n = 2 /\ (Begins(proc[p].todo, "compare") \/ Begins(proc[p].todo, "agent") => Current(b))
         \/ n \in 1 .. Len(proc[p].todo) /\ proc[p].todo[n][1] \notin {"agent", "cowork"}
  PROVE  Builds'
<1> DEFINE t == proc[p].todo
<1>1. \A o \in Procs \ {p} : Stays(o, parts)
  BY DEF Moved
<1>2. \A o \in Procs \ {p} :
        Begins(proc'[o].todo, "agent") \/ Begins(proc'[o].todo, "cowork") => Current(proc[o].made)'
  BY <1>1, BuildsOthers
<1>3. ASSUME NEW x \in {"agent", "cowork"}, Begins(proc'[p].todo, x) PROVE Current(proc[p].made)'
  <2>0. \A y : Begins(proc'[p].todo, y) => n \in 1 .. Len(t) /\ t[n][1] = y /\ Aged(proc'[p].made, b, parts)
    BY MovedTodo
  <2>1. n \in 1 .. Len(t) /\ t[n][1] = x /\ Aged(proc'[p].made, b, parts)
    BY <1>3, <2>0
  <2>2. n = 2 /\ (Begins(t, "compare") \/ Begins(t, "agent") => Current(b))
    BY <2>1
  <2>3. t \in Todo /\ After(t, "compare", "agent", TRUE) /\ After(t, "agent", "cowork", TRUE)
    BY DEF Running, Ordered, Linked
  <2> HIDE DEF t
  <2>4. n # 1 /\ n - 1 = 1
    BY <2>2
  <2>5. t[n - 1][1] = "compare" \/ t[n - 1][1] = "agent"
    <3>1. ASSUME t[n][1] = "agent" PROVE t[n - 1][1] = "compare"
      BY <2>1, <2>3, <2>4, <3>1, Before
    <3>2. ASSUME t[n][1] = "cowork" PROVE t[n - 1][1] = "agent"
      BY <2>1, <2>3, <2>4, <3>2, Before
    <3>3. x = "agent" \/ x = "cowork"
      BY <1>3
    <3>4. QED
      BY <2>1, <3>1, <3>2, <3>3
  <2>6. (t[1][1] = "compare" \/ t[1][1] = "agent") /\ Len(t) > 0
    BY <2>1, <2>3, <2>4, <2>5, TodoLen
  <2>7. Current(b)
    BY <2>2, <2>6 DEF Begins
  <2>8. QED
    BY <2>1, <2>7, CurrentAged DEF Current
<1>4. QED
  BY <1>2, <1>3 DEF Builds

LEMMA BuildsStep == TypeOK /\ Running /\ Builds /\ [Next]_vars => Builds'
<1>1. SUFFICES ASSUME TypeOK, Running, Builds, [Next]_vars PROVE Builds'
  OBVIOUS
<1>2. ASSUME UNCHANGED <<src, pair>>
      PROVE  AgentSource' = AgentSource /\ Current(pair.agent)' /\ Current(pair.cowork)'
  <2>1. AgentSource' = AgentSource
    BY <1>2 DEF AgentSource
  <2>2. QED
    BY <1>1, <1>2, <2>1 DEF Builds, Current
<1>3. ASSUME NEW p \in Procs, NEW x, Begins(proc[p].todo, x), x # "compare", x # "agent",
             NEW b, NEW r, NEW parts, Moved(p, 2, b, r, parts), AgentSource' = AgentSource \/ "agent" \in parts,
             Current(pair.agent)' /\ Current(pair.cowork)'
      PROVE  Builds'
  <2>1. ~Begins(proc[p].todo, "compare") /\ ~Begins(proc[p].todo, "agent")
    BY <1>3 DEF Begins
  <2>2. QED
    BY <1>1, <1>3, <2>1, BuildsMoved
<1>4. ASSUME NEW p \in Procs, Quiet(p) PROVE Builds'
  <2>1. /\ Moved(p, 2, proc[p].made, proc[p].prepared, {}) /\ UNCHANGED <<src, pair>>
        /\ Begins(proc[p].todo, "compare") => proc[p].made.agent = AgentSource
        /\ \E x \in QuietNames : Begins(proc[p].todo, x)
    BY <1>1, <1>4, QuietMoves
  <2>2. ~Begins(proc[p].todo, "agent")
    BY <2>1 DEF QuietNames, Begins
  <2>3. Begins(proc[p].todo, "compare") \/ Begins(proc[p].todo, "agent") => Current(proc[p].made)
    BY <2>1, <2>2 DEF Current
  <2>4. QED
    BY <1>1, <1>2, <2>1, <2>3, BuildsMoved
<1>5. ASSUME NEW p \in Procs, Writing(p) PROVE Builds'
  <2>1. PICK x \in {"apply", "restore", "pull"} : Begins(proc[p].todo, x)
    BY <1>1, <1>5, WritingMoves
  <2>2. src'.edits = src.edits
    BY <1>1, <1>5, WritingMoves
  <2>3. PICK parts \in SUBSET Parts :
              /\ Moved(p, 2, proc[p].made, proc[p].prepared, parts)
              /\ Aged(pair'.agent, pair.agent, parts) /\ Aged(pair'.cowork, pair.cowork, parts)
              /\ src'.rev = src.rev \/ "agent" \in parts
    BY <1>1, <1>5, WritingMoves
  <2>4. AgentSource' = AgentSource \/ "agent" \in parts
    BY <2>2, <2>3 DEF AgentSource
  <2>5. Current(pair.agent)' /\ Current(pair.cowork)'
    <3>1. Current(pair.agent) /\ Current(pair.cowork)
      BY <1>1 DEF Builds
    <3>2. Current(pair.agent)'
      BY <3>1, <2>3, <2>4, CurrentAged DEF Current
    <3>3. Current(pair.cowork)'
      BY <3>1, <2>3, <2>4, CurrentAged DEF Current
    <3>4. QED
      BY <3>2, <3>3
  <2>6. x # "compare" /\ x # "agent"
    OBVIOUS
  <2>7. QED
    BY <1>3, <2>1, <2>3, <2>4, <2>5, <2>6
<1>6. ASSUME NEW p \in Procs, Skipping(p) PROVE Builds'
  <2>1. Ordered(proc[p].todo, TRUE)
    BY <1>1 DEF Running
  <2>2. /\ UNCHANGED <<src, pair>>
        /\ \E x \in {"inspect", "agent_fresh", "design_fresh"} : Begins(proc[p].todo, x)
    BY <1>1, <1>6, <2>1, SkippingMoves
  <2>3. PICK n \in 1 .. Len(proc[p].todo) + 1 :
          /\ Moved(p, n, proc[p].made, proc[p].prepared, {})
          /\ \/ n = 2
             \/ n <= Len(proc[p].todo) /\ proc[p].todo[n][1] = "apply"
             \/ n <= Len(proc[p].todo) /\ proc[p].todo[n][1] = "unlock"
    BY <1>1, <1>6, <2>1, SkippingMoves
  <2>4. ~Begins(proc[p].todo, "compare") /\ ~Begins(proc[p].todo, "agent")
    BY <2>2 DEF Begins
  <2>5. \/ n = 2
        \/ n \in 1 .. Len(proc[p].todo) /\ proc[p].todo[n][1] \notin {"agent", "cowork"}
    BY <1>1, <2>3, TodoLen, AtBegins
  <2>6. QED
    BY <1>1, <1>2, <2>2, <2>3, <2>4, <2>5, BuildsMoved
<1>7. ASSUME NEW p \in Procs, Making(p) PROVE Builds'
  <2>1. UNCHANGED <<src, pair>> /\ \E x \in {"read", "compile", "link"} : Begins(proc[p].todo, x)
    BY <1>1, <1>7, MakingMoves
  <2>2. QED
    BY <1>1, <1>2, <1>3, <1>7, <2>1, MakingMoves
<1>8. ASSUME NEW p \in Procs, Snapshot(p) \/ Private(p) PROVE Builds'
  <2>1. /\ UNCHANGED <<src, pair>> /\ \E x \in {"snapshot", "private"} : Begins(proc[p].todo, x)
        /\ \E r : Moved(p, 2, proc[p].made, r, {})
    BY <1>1, <1>8, SnapshotMoves, PrivateMoves
  <2>2. QED
    BY <1>2, <1>3, <2>1
<1>9. ASSUME NEW p \in Procs, TakeLock(p) \/ Unlock(p) PROVE Builds'
  <2>1. /\ UNCHANGED <<src, pair>> /\ \E x \in {"lock", "unlock"} : Begins(proc[p].todo, x)
        /\ \E b, r : Moved(p, 2, b, r, {})
    BY <1>1, <1>9, LockMoves
  <2>2. QED
    BY <1>2, <1>3, <2>1
<1>10. ASSUME NEW p \in Procs, Publishing(p) PROVE Builds'
  <2> DEFINE t == proc[p].todo
  <2>1. /\ src' = src /\ Moved(p, 2, proc[p].made, proc[p].prepared, {})
        /\ \/ Begins(t, "unstamp") /\ pair' = [pair EXCEPT !.stamp = FALSE]
           \/ Begins(t, "agent") /\ pair' = [pair EXCEPT !.agent = proc[p].made]
           \/ Begins(t, "cowork") /\ pair' = [pair EXCEPT !.cowork = proc[p].made]
           \/ Begins(t, "stamp") /\ pair' = [pair EXCEPT !.stamp = TRUE]
    BY <1>1, <1>10, PublishingMoves
  <2>2. AgentSource' = AgentSource
    BY <2>1 DEF AgentSource
  <2>3. pair \in [agent : Binary, cowork : Binary, stamp : BOOLEAN]
    BY <1>1 DEF TypeOK
  <2>4. /\ pair'.agent = pair.agent \/ (Begins(t, "agent") /\ pair'.agent = proc[p].made)
        /\ pair'.cowork = pair.cowork \/ (Begins(t, "cowork") /\ pair'.cowork = proc[p].made)
    BY <2>1, <2>3
  <2>5. Begins(t, "agent") \/ Begins(t, "cowork") => Current(proc[p].made)
    BY <1>1 DEF Builds
  <2>6. Current(pair.agent)' /\ Current(pair.cowork)'
    BY <1>1, <2>2, <2>4, <2>5 DEF Builds, Current
  <2>7. ~Begins(t, "compare")
    BY <2>1 DEF Begins
  <2>8. QED
    BY <1>1, <2>1, <2>2, <2>5, <2>6, <2>7, BuildsMoved
<1>11. ASSUME NEW p \in Procs, PublishDesign(p) PROVE Builds'
  <2>1. \E x \in {"design", "receipt"} : Begins(proc[p].todo, x)
    BY <1>1, <1>11, PublishDesignMoves
  <2>2. UNCHANGED <<src, pair>> /\ Moved(p, 2, proc[p].made, proc[p].prepared, {})
    BY <1>1, <1>11, PublishDesignMoves
  <2>3. QED
    BY <1>2, <1>3, <2>1, <2>2
<1>12. ASSUME NEW p \in Procs, Fail(p) \/ Die(p) PROVE Builds'
  <2>1. /\ proc'[p] = Idle /\ UNCHANGED <<src, pair>>
        /\ \A n, b, r : Moved(p, n, b, r, {})
    BY <1>1, <1>12, EndingMoves
  <2>2. proc'[p].todo = <<>> /\ \A o \in Procs \ {p} : Stays(o, {})
    BY <2>1, IdleProcess DEF Moved
  <2>3. \A x : ~Begins(proc'[p].todo, x)
    BY <2>2, EmptySeq DEF Begins
  <2>4. \A o \in Procs \ {p} :
          Begins(proc'[o].todo, "agent") \/ Begins(proc'[o].todo, "cowork") => Current(proc[o].made)'
    BY <1>1, <1>2, <2>1, <2>2, BuildsOthers
  <2>5. QED
    BY <1>2, <2>1, <2>3, <2>4 DEF Builds
<1>13. ASSUME NEW p \in Procs, NEW j \in Jobs, Start(p, j) PROVE Builds'
  <2>1. /\ proc'[p].todo = Steps(j) /\ \A o \in Procs \ {p} : Stays(o, {})
        /\ UNCHANGED <<src, pair>>
    BY <1>1, <1>13, StartMoves
  <2>2. ~Begins(Steps(j), "agent") /\ ~Begins(Steps(j), "cowork")
    <3>1. Steps(j) \in Todo /\ After(Steps(j), "compare", "agent", FALSE) /\ After(Steps(j), "agent", "cowork", FALSE)
      BY JobsOrdered DEF Ordered, Linked
    <3>2. QED
      BY <3>1, TodoLen DEF After, Begins
  <2>3. \A o \in Procs \ {p} :
          Begins(proc'[o].todo, "agent") \/ Begins(proc'[o].todo, "cowork") => Current(proc[o].made)'
    BY <1>1, <1>2, <2>1, BuildsOthers
  <2>4. QED
    BY <1>2, <2>1, <2>2, <2>3 DEF Builds
<1>14. ASSUME Elsewhere PROVE Builds'
  <2>1. PICK parts \in SUBSET Parts :
              /\ \A o \in Procs : Stays(o, parts)
              /\ Aged(pair'.agent, pair.agent, parts) /\ Aged(pair'.cowork, pair.cowork, parts)
              /\ AgentSource' = AgentSource \/ "agent" \in parts
    BY <1>1, <1>14, ElsewhereMoves
  <2>2. Current(pair.agent)' /\ Current(pair.cowork)'
    <3>1. Current(pair.agent) /\ Current(pair.cowork)
      BY <1>1 DEF Builds
    <3>2. Current(pair.agent)'
      BY <3>1, <2>1, CurrentAged DEF Current
    <3>3. Current(pair.cowork)'
      BY <3>1, <2>1, CurrentAged DEF Current
    <3>4. QED
      BY <3>2, <3>3
  <2>3. \A o \in Procs :
          Begins(proc'[o].todo, "agent") \/ Begins(proc'[o].todo, "cowork") => Current(proc[o].made)'
    BY <1>1, <2>1, BuildsOthers
  <2>4. QED
    BY <2>2, <2>3 DEF Builds
<1>15. QED
  BY <1>1, <1>4, <1>5, <1>6, <1>7, <1>8, <1>9, <1>10, <1>11, <1>12, <1>13, <1>14, StepKinds

LEMMA BuildsAlways == Spec => [](TypeOK /\ Running /\ Builds)
<1>1. Init => Builds
  <2>1. SUFFICES ASSUME Init PROVE Builds
    OBVIOUS
  <2>2. pair.agent.job = 0 /\ pair.cowork.job = 0 /\ \A p \in Procs : proc[p].todo = <<>>
    BY <2>1, IdleProcess, NoneMade DEF Init
  <2>3. \A x : ~Begins(<<>>, x)
    BY EmptySeq DEF Begins
  <2>4. QED
    BY <2>2, <2>3 DEF Builds, Current
<1>2. QED
  BY <1>1, InitTypes, TypesStep, BuildsStep, PTL DEF Spec

(* A pair that is found fresh was built from the Agent's sources as they   *)
(* are, however they changed while it was built (run_build_jsonl_locked    *)
(* compares them again before it publishes, and times afterwards).         *)
THEOREM AgentFreshIsCurrentAlways == Spec => []AgentFreshIsCurrent
<1>1. Builds => AgentFreshIsCurrent
  BY DEF Builds, Current, AgentFreshIsCurrent, AgentFresh
<1>2. QED
  BY <1>1, BuildsAlways, PTL
-----------------------------------------------------------------------------
(* What a job publishes belongs together.  It has the lock while it does,  *)
(* so no other job publishes, and the stamp is gone until the last rename. *)
Stamping(t) == Open(t, "stamp", "unstamp")
Stamps ==
  /\ pair.stamp => pair.agent.job = pair.cowork.job
  /\ \A p \in Procs :
       /\ Stamping(proc[p].todo) => ~pair.stamp
       /\ Begins(proc[p].todo, "cowork") => pair.agent.job = proc[p].made.job
       /\ Begins(proc[p].todo, "stamp") => pair.agent.job = pair.cowork.job

(* No lock is taken between here and the stamp.                            *)
LEMMA StampingNoLock ==
  ASSUME NEW t \in Todo, Paired(t, "lock", "unstamp", "stamp", TRUE),
         NEW i \in 1 .. Len(t), t[i][1] = "stamp", \A k \in 1 .. i - 1 : t[k][1] # "unstamp"
  PROVE  \A k \in 1 .. i : t[k][1] # "lock"
<1>1. SUFFICES ASSUME NEW k \in 1 .. i, t[k][1] = "lock" PROVE FALSE
  OBVIOUS
<1>2. Len(t) \in Nat
  BY TodoLen
<1>3. k # i
  BY <1>1
<1>4. k \in 1 .. Len(t) /\ k < i
  BY <1>2, <1>3
<1>5. PICK m \in k .. i : t[m][1] = "unstamp"
  BY <1>1, <1>4 DEF Paired
<1>6. m # i
  BY <1>5
<1>7. m \in 1 .. i - 1
  BY <1>6
<1>8. QED
  BY <1>5, <1>7

(* A job that still stamps also gives the lock back, and nothing before    *)
(* that takes it.                                                          *)
LEMMA StampingLocked ==
  ASSUME NEW t, Ordered(t, TRUE), Stamping(t)
  PROVE  Locked(t) /\ ~Begins(t, "unlock")
<1>1. /\ t \in Todo /\ Paired(t, "lock", "unstamp", "stamp", TRUE)
      /\ Paired(t, "unlock", "lock", "unlock", TRUE) /\ Then(t, "stamp", "unlock", {"lock"})
  BY DEF Ordered, Linked
<1>2. Len(t) \in Nat
  BY <1>1, TodoLen
<1>3. PICK i \in 1 .. Len(t) : t[i][1] = "stamp" /\ \A k \in 1 .. i - 1 : t[k][1] # "unstamp"
  BY DEF Stamping, Open
<1>4. \A k \in 1 .. i : t[k][1] # "lock"
  BY <1>1, <1>3, StampingNoLock
<1>5. PICK j \in i .. Len(t) : t[j][1] = "unlock" /\ \A k \in i .. j - 1 : t[k][1] \notin {"lock"}
  BY <1>1, <1>3 DEF Then
<1>6. \A k \in 1 .. j - 1 : t[k][1] # "lock"
  BY <1>4, <1>5
<1>7. j \in 1 .. Len(t)
  BY <1>2
<1>8. Locked(t)
  BY <1>5, <1>6, <1>7 DEF Locked, Open
<1>9. ASSUME Begins(t, "unlock") PROVE FALSE
  <2>1. 1 \in 1 .. Len(t) /\ t[1][1] = "unlock"
    BY <1>2, <1>9 DEF Begins
  <2>2. j # i /\ i # 1
    BY <1>3, <1>5, <2>1
  <2>3. 1 < j
    BY <1>7, <2>2
  <2>4. PICK k \in 1 .. j : t[k][1] = "lock"
    BY <1>1, <1>5, <1>7, <2>1, <2>3 DEF Paired
  <2>5. k # j
    BY <1>5, <2>4
  <2>6. k \in 1 .. j - 1
    BY <1>7, <2>5
  <2>7. QED
    BY <1>6, <2>4, <2>6
<1>10. QED
  BY <1>8, <1>9

LEMMA PublishesStamping ==
  ASSUME NEW t, Ordered(t, TRUE), Begins(t, "agent") \/ Begins(t, "cowork") \/ Begins(t, "stamp")
  PROVE  Stamping(t)
<1>1. /\ t \in Todo /\ Then(t, "agent", "stamp", {"unstamp"})
      /\ Then(t, "cowork", "stamp", {"unstamp"})
  BY DEF Ordered, Linked
<1>2. 1 \in 1 .. Len(t) /\ (t[1][1] = "agent" \/ t[1][1] = "cowork" \/ t[1][1] = "stamp")
  BY <1>1, TodoLen DEF Begins
<1>3. CASE t[1][1] = "stamp"
  <2>1. \A k \in 1 .. 1 - 1 : t[k][1] # "unstamp"
    OBVIOUS
  <2>2. QED
    BY <1>2, <1>3, <2>1 DEF Stamping, Open
<1>4. CASE t[1][1] = "agent"
  <2>1. PICK j \in 1 .. Len(t) : t[j][1] = "stamp" /\ \A k \in 1 .. j - 1 : t[k][1] \notin {"unstamp"}
    BY <1>1, <1>2, <1>4 DEF Then
  <2>2. QED
    BY <2>1 DEF Stamping, Open
<1>5. CASE t[1][1] = "cowork"
  <2>1. PICK j \in 1 .. Len(t) : t[j][1] = "stamp" /\ \A k \in 1 .. j - 1 : t[k][1] \notin {"unstamp"}
    BY <1>1, <1>2, <1>5 DEF Then
  <2>2. QED
    BY <2>1 DEF Stamping, Open
<1>6. QED
  BY <1>2, <1>3, <1>4, <1>5

(* Two jobs are never publishing at a time.                                *)
LEMMA OneStamping ==
  ASSUME Running, Builders, NEW p \in Procs, NEW o \in Procs, Stamping(proc[p].todo), Stamping(proc[o].todo)
  PROVE  o = p
  BY StampingLocked DEF Running, Builders

(* What is left of a job begins with the copy of ds4-cowork, or with the   *)
(* stamp, only if the copy before it was the step taken.                   *)
LEMMA PublishesNext ==
  ASSUME NEW t, Ordered(t, TRUE), NEW u, Rest(u, t, 2)
  PROVE  /\ Begins(u, "cowork") => Begins(t, "agent")
         /\ Begins(u, "stamp") => Begins(t, "cowork")
<1> DEFINE n == 2
<1>1. n # 1 /\ n - 1 = 1
  OBVIOUS
<1>2. Rest(u, t, n)
  OBVIOUS
<1> HIDE DEF n
<1>3. t \in Todo /\ After(t, "agent", "cowork", TRUE) /\ After(t, "cowork", "stamp", TRUE) /\ Len(t) \in Nat
  BY TodoLen DEF Ordered, Linked
<1>4. \A x : Begins(u, x) => n \in 1 .. Len(t) /\ t[n][1] = x
  BY <1>2, <1>3, RestBegins
<1>5. n \in 1 .. Len(t) => Len(t) > 0
  BY <1>3
<1>6. ASSUME t[n][1] = "cowork", n \in 1 .. Len(t) PROVE t[n - 1][1] = "agent"
  BY <1>1, <1>3, <1>6, Before
<1>7. ASSUME t[n][1] = "stamp", n \in 1 .. Len(t) PROVE t[n - 1][1] = "cowork"
  BY <1>1, <1>3, <1>7, Before
<1>8. QED
  BY <1>1, <1>4, <1>5, <1>6, <1>7 DEF Begins

(* The jobs that did not move.                                             *)
LEMMA StampsOthers ==
  ASSUME Stamps, NEW o \in Procs, NEW parts, Stays(o, parts),
         pair'.agent.job = pair.agent.job, pair'.cowork.job = pair.cowork.job, pair'.stamp => pair.stamp
  PROVE  /\ Stamping(proc'[o].todo) => ~pair'.stamp
         /\ Begins(proc'[o].todo, "cowork") => pair'.agent.job = proc'[o].made.job
         /\ Begins(proc'[o].todo, "stamp") => pair'.agent.job = pair'.cowork.job
  BY DEF Stamps, Stays, Aged

LEMMA StampsMoved ==
  ASSUME TypeOK, Running, Stamps, NEW p \in Procs, NEW n, NEW b, NEW r, NEW parts, Moved(p, n, b, r, parts),
         pair'.agent.job = pair.agent.job, pair'.cowork.job = pair.cowork.job, pair'.stamp = pair.stamp,
         LET t == proc[p].todo IN
         \/ n = 2 /\ ~Begins(t, "agent") /\ ~Begins(t, "cowork") /\ ~Begins(t, "unstamp")
         \/ n \in 1 .. Len(t) /\ t[n][1] = "apply" /\ \A k \in 1 .. n - 1 : t[k][1] # "unstamp"
         \/ n \in 1 .. Len(t) /\ t[n][1] = "unlock"
  PROVE  Stamps'
<1> DEFINE t == proc[p].todo  u == proc'[p].todo
<1>1. \A o \in Procs \ {p} : Stays(o, parts)
  BY DEF Moved
<1>2. Len(u) = 0 \/ Rest(u, t, n)
  BY MovedTodo
<1>3. t \in Todo /\ Ordered(t, TRUE) /\ Once(t)
  BY DEF Running, Ordered
<1>4. Stamping(t) => ~pair.stamp
  BY DEF Stamps
<1>5. \/ n = 2 /\ ~Begins(t, "agent") /\ ~Begins(t, "cowork") /\ ~Begins(t, "unstamp")
      \/ n \in 1 .. Len(t) /\ t[n][1] = "apply" /\ \A k \in 1 .. n - 1 : t[k][1] # "unstamp"
      \/ n \in 1 .. Len(t) /\ t[n][1] = "unlock"
  OBVIOUS
<1>6. pair'.stamp = pair.stamp
  OBVIOUS
<1> HIDE DEF t, u
<1>7. ASSUME Rest(u, t, n), Stamping(u) PROVE Stamping(t)
  <2>1. CASE \A k \in 1 .. n - 1 : t[k][1] # "unstamp"
    BY <1>3, <1>7, <2>1, OpenRest DEF Stamping
  <2>2. CASE n = 2 /\ ~Begins(t, "unstamp")
    <3>1. 1 \in 1 .. Len(t) => t[1][1] # "unstamp"
      BY <1>3, <2>2, TodoLen DEF Begins
    <3>2. 1 \in 1 .. Len(t)
      BY <1>3, <1>7, <2>2, RestMoves, EmptyOpen DEF Rest, Stamping
    <3>3. \A k \in 1 .. n - 1 : t[k][1] # "unstamp"
      BY <2>2, <3>1, <3>2
    <3>4. QED
      BY <2>1, <3>3
  <2>3. CASE n \in 1 .. Len(t) /\ t[n][1] = "unlock"
    <3>1. Ordered(u, TRUE)
      BY <1>3, <1>7, OrderedRest
    <3>2. Len(u) > 0 /\ u[1] = t[n]
      <4>1. n \in n .. Len(t) /\ n - n + 1 = 1 /\ Len(u) \in Nat
        BY <1>3, <1>7, <2>3, RestMoves
      <4>2. \A k \in n .. Len(t) : k - n + 1 \in 1 .. Len(u) /\ u[k - n + 1] = t[k]
        <5>1. t \in Todo /\ Rest(u, t, n)
          BY <1>3, <1>7
        <5>2. QED
          BY <5>1, RestMoves
      <4>3. 1 \in 1 .. Len(u) /\ u[1] = t[n]
        BY <4>1, <4>2
      <4>4. QED
        BY <4>1, <4>3
    <3>3. Begins(u, "unlock")
      BY <2>3, <3>2 DEF Begins
    <3>4. QED
      BY <1>7, <3>1, <3>3, StampingLocked
  <2>4. QED
    BY <1>5, <2>1, <2>2, <2>3
<1>8. ~Stamping(u) \/ Rest(u, t, n)
  BY <1>2, EmptyOpen DEF Stamping
<1>9. ~Begins(u, "cowork") /\ ~Begins(u, "stamp")
  <2>1. ASSUME NEW x \in {"cowork", "stamp"}, Begins(u, x) PROVE Rest(u, t, n) /\ t[n][1] = x
    <3>1. Rest(u, t, n)
      BY <1>2, <2>1 DEF Begins
    <3>2. QED
      BY <1>3, <2>1, <3>1, RestBegins
  <2>2. CASE n = 2 /\ ~Begins(t, "agent") /\ ~Begins(t, "cowork")
    BY <1>3, <2>1, <2>2, PublishesNext
  <2>3. CASE t[n][1] = "apply" \/ t[n][1] = "unlock"
    BY <2>1, <2>3
  <2>4. QED
    BY <1>5, <2>2, <2>3
<1>10. Stamping(u) => ~pair'.stamp
  BY <1>4, <1>6, <1>7, <1>8
<1>11. \A o \in Procs \ {p} :
         /\ Stamping(proc'[o].todo) => ~pair'.stamp
         /\ Begins(proc'[o].todo, "cowork") => pair'.agent.job = proc'[o].made.job
         /\ Begins(proc'[o].todo, "stamp") => pair'.agent.job = pair'.cowork.job
  BY <1>1, StampsOthers
<1>12. pair'.stamp => pair'.agent.job = pair'.cowork.job
  BY DEF Stamps
<1>13. QED
  BY <1>9, <1>10, <1>11, <1>12 DEF Stamps, u

LEMMA StampsStep == TypeOK /\ Running /\ Builders /\ Stamps /\ [Next]_vars => Stamps'
<1>1. SUFFICES ASSUME TypeOK, Running, Builders, Stamps, [Next]_vars PROVE Stamps'
  OBVIOUS
<1>2. ASSUME NEW p \in Procs, NEW x, Begins(proc[p].todo, x), x \notin {"agent", "cowork", "unstamp"},
             NEW b, NEW r, NEW parts, Moved(p, 2, b, r, parts),
             pair'.agent.job = pair.agent.job, pair'.cowork.job = pair.cowork.job, pair'.stamp = pair.stamp
      PROVE  Stamps'
  <2>1. ~Begins(proc[p].todo, "agent") /\ ~Begins(proc[p].todo, "cowork") /\ ~Begins(proc[p].todo, "unstamp")
    BY <1>2 DEF Begins
  <2>2. QED
    BY <1>1, <1>2, <2>1, StampsMoved
<1>3. ASSUME NEW p \in Procs, Quiet(p) PROVE Stamps'
  <2>1. /\ Moved(p, 2, proc[p].made, proc[p].prepared, {}) /\ pair' = pair
        /\ \E x \in QuietNames : Begins(proc[p].todo, x)
    BY <1>1, <1>3, QuietMoves
  <2>2. PICK x \in QuietNames : Begins(proc[p].todo, x)
    BY <2>1
  <2>3. x \notin {"agent", "cowork", "unstamp"}
    BY DEF QuietNames
  <2>4. QED
    BY <1>2, <2>1, <2>2, <2>3
<1>4. ASSUME NEW p \in Procs, Writing(p) PROVE Stamps'
  <2>1. PICK x \in {"apply", "restore", "pull"} : Begins(proc[p].todo, x)
    BY <1>1, <1>4, WritingMoves
  <2>2. PICK parts \in SUBSET Parts :
              /\ Moved(p, 2, proc[p].made, proc[p].prepared, parts)
              /\ Aged(pair'.agent, pair.agent, parts) /\ Aged(pair'.cowork, pair.cowork, parts)
              /\ pair'.stamp = pair.stamp
    BY <1>1, <1>4, WritingMoves
  <2>3. pair'.agent.job = pair.agent.job /\ pair'.cowork.job = pair.cowork.job
    BY <2>2 DEF Aged
  <2>4. x \notin {"agent", "cowork", "unstamp"}
    OBVIOUS
  <2>5. QED
    BY <1>2, <2>1, <2>2, <2>3, <2>4
<1>5. ASSUME NEW p \in Procs, Skipping(p) PROVE Stamps'
  <2> DEFINE t == proc[p].todo
  <2>1. Ordered(t, TRUE)
    BY <1>1 DEF Running
  <2>2. pair' = pair /\ \E x \in {"inspect", "agent_fresh", "design_fresh"} : Begins(t, x)
    BY <1>1, <1>5, <2>1, SkippingMoves
  <2>3. PICK n \in 1 .. Len(t) + 1 :
          /\ Moved(p, n, proc[p].made, proc[p].prepared, {})
          /\ \/ n = 2
             \/ n <= Len(t) /\ t[n][1] = "apply" /\ \A k \in 1 .. n - 1 : t[k][1] # "unstamp"
             \/ n <= Len(t) /\ t[n][1] = "unlock"
    BY <1>1, <1>5, <2>1, SkippingMoves
  <2>4. ~Begins(t, "agent") /\ ~Begins(t, "cowork") /\ ~Begins(t, "unstamp")
    BY <2>2 DEF Begins
  <2>5. Len(t) \in Nat
    BY <1>1, TodoLen, AtBegins
  <2>6. \/ n = 2 /\ ~Begins(t, "agent") /\ ~Begins(t, "cowork") /\ ~Begins(t, "unstamp")
        \/ n \in 1 .. Len(t) /\ t[n][1] = "apply" /\ \A k \in 1 .. n - 1 : t[k][1] # "unstamp"
        \/ n \in 1 .. Len(t) /\ t[n][1] = "unlock"
    BY <2>3, <2>4, <2>5
  <2>7. QED
    BY <1>1, <2>2, <2>3, <2>6, StampsMoved
<1>6. ASSUME NEW p \in Procs, Making(p) PROVE Stamps'
  <2>1. pair' = pair
    BY <1>1, <1>6, MakingMoves
  <2>2. PICK x \in {"read", "compile", "link"} : Begins(proc[p].todo, x)
    BY <1>1, <1>6, MakingMoves
  <2>3. PICK b \in Binary : Moved(p, 2, b, proc[p].prepared, {})
    BY <1>1, <1>6, MakingMoves
  <2>4. x \notin {"agent", "cowork", "unstamp"}
    OBVIOUS
  <2>5. QED
    BY <1>2, <2>1, <2>2, <2>3, <2>4
<1>7. ASSUME NEW p \in Procs, Snapshot(p) \/ Private(p) PROVE Stamps'
  <2>1. pair' = pair /\ \E r : Moved(p, 2, proc[p].made, r, {})
    BY <1>1, <1>7, SnapshotMoves, PrivateMoves
  <2>2. PICK x \in {"snapshot", "private"} : Begins(proc[p].todo, x)
    BY <1>1, <1>7, SnapshotMoves, PrivateMoves
  <2>3. x \notin {"agent", "cowork", "unstamp"}
    OBVIOUS
  <2>4. QED
    BY <1>2, <2>1, <2>2, <2>3
<1>8. ASSUME NEW p \in Procs, TakeLock(p) \/ Unlock(p) PROVE Stamps'
  <2>1. pair' = pair /\ \E b, r : Moved(p, 2, b, r, {})
    BY <1>1, <1>8, LockMoves
  <2>2. PICK x \in {"lock", "unlock"} : Begins(proc[p].todo, x)
    BY <1>1, <1>8, LockMoves
  <2>3. x \notin {"agent", "cowork", "unstamp"}
    OBVIOUS
  <2>4. QED
    BY <1>2, <2>1, <2>2, <2>3
<1>9. ASSUME NEW p \in Procs, Publishing(p) PROVE Stamps'
  <2> DEFINE t == proc[p].todo  u == proc'[p].todo  m == proc[p].made
  <2>1. /\ Moved(p, 2, m, proc[p].prepared, {})
        /\ \/ Begins(t, "unstamp") /\ pair' = [pair EXCEPT !.stamp = FALSE]
           \/ Begins(t, "agent") /\ pair' = [pair EXCEPT !.agent = m]
           \/ Begins(t, "cowork") /\ pair' = [pair EXCEPT !.cowork = m]
           \/ Begins(t, "stamp") /\ pair' = [pair EXCEPT !.stamp = TRUE]
    BY <1>1, <1>9, PublishingMoves
  <2>2. pair \in [agent : Binary, cowork : Binary, stamp : BOOLEAN]
    BY <1>1 DEF TypeOK
  <2>3. \A o \in Procs \ {p} : Stays(o, {})
    BY <2>1 DEF Moved
  <2>4. Ordered(t, TRUE) /\ t \in Todo
    BY <1>1 DEF Running, Ordered
  <2>5. Len(u) = 0 \/ Rest(u, t, 2)
    BY <1>1, <2>1, MovedTodo
  <2>6. \A x : Begins(u, x) => proc'[p].made.job = m.job
    <3>1. \A x : Begins(u, x) => Aged(proc'[p].made, m, {})
      BY <1>1, <2>1, MovedTodo
    <3>2. QED
      BY <3>1 DEF Aged
  <2>7. /\ Begins(u, "cowork") => Begins(t, "agent")
        /\ Begins(u, "stamp") => Begins(t, "cowork")
    <3>1. CASE Len(u) = 0
      BY <3>1 DEF Begins
    <3>2. CASE Rest(u, t, 2)
      BY <2>4, <3>2, PublishesNext
    <3>3. QED
      BY <2>5, <3>1, <3>2
  <2>8. /\ Stamping(t) => ~pair.stamp
        /\ Begins(t, "cowork") => pair.agent.job = m.job
        /\ Begins(t, "stamp") => pair.agent.job = pair.cowork.job
        /\ pair.stamp => pair.agent.job = pair.cowork.job
    BY <1>1 DEF Stamps
  <2>9. ASSUME Begins(t, "agent") \/ Begins(t, "cowork") \/ Begins(t, "stamp")
        PROVE  \A o \in Procs \ {p} :
                 ~Stamping(proc'[o].todo) /\ ~Begins(proc'[o].todo, "cowork") /\ ~Begins(proc'[o].todo, "stamp")
    <3>1. Stamping(t)
      BY <2>4, <2>9, PublishesStamping
    <3>2. TAKE o \in Procs \ {p}
    <3>3. ~Stamping(proc[o].todo)
      BY <1>1, <3>1, OneStamping
    <3>4. proc'[o].todo = proc[o].todo
      BY <2>3 DEF Stays
    <3>5. Ordered(proc[o].todo, TRUE)
      BY <1>1 DEF Running
    <3>6. QED
      BY <3>3, <3>4, <3>5, PublishesStamping
  <2> HIDE DEF t, u, m
  <2>10. CASE Begins(t, "unstamp") /\ pair' = [pair EXCEPT !.stamp = FALSE]
    <3>1. pair'.agent = pair.agent /\ pair'.cowork = pair.cowork /\ pair'.stamp = FALSE
      BY <2>2, <2>10
    <3>2. ~Begins(u, "cowork") /\ ~Begins(u, "stamp")
      BY <2>7, <2>10 DEF Begins
    <3>3. \A o \in Procs \ {p} :
            /\ Begins(proc'[o].todo, "cowork") => pair'.agent.job = proc'[o].made.job
            /\ Begins(proc'[o].todo, "stamp") => pair'.agent.job = pair'.cowork.job
      BY <1>1, <2>3, <3>1, StampsOthers
    <3>4. QED
      BY <3>1, <3>2, <3>3 DEF Stamps, u
  <2>11. CASE Begins(t, "agent") /\ pair' = [pair EXCEPT !.agent = m]
    <3>1. pair'.agent = m /\ pair'.cowork = pair.cowork /\ pair'.stamp = pair.stamp
      BY <2>2, <2>11
    <3>2. ~pair.stamp
      BY <2>4, <2>8, <2>11, PublishesStamping
    <3>3. ~Begins(u, "stamp")
      BY <2>7, <2>11 DEF Begins
    <3>4. QED
      BY <2>6, <2>9, <2>11, <3>1, <3>2, <3>3 DEF Stamps, u
  <2>12. CASE Begins(t, "cowork") /\ pair' = [pair EXCEPT !.cowork = m]
    <3>1. pair'.agent = pair.agent /\ pair'.cowork = m /\ pair'.stamp = pair.stamp
      BY <2>2, <2>12
    <3>2. ~pair.stamp /\ pair'.agent.job = pair'.cowork.job
      BY <2>4, <2>8, <2>12, <3>1, PublishesStamping
    <3>3. ~Begins(u, "cowork")
      BY <2>7, <2>12 DEF Begins
    <3>4. QED
      BY <2>9, <2>12, <3>1, <3>2, <3>3 DEF Stamps, u
  <2>13. CASE Begins(t, "stamp") /\ pair' = [pair EXCEPT !.stamp = TRUE]
    <3>1. pair'.agent = pair.agent /\ pair'.cowork = pair.cowork /\ pair'.stamp
      BY <2>2, <2>13
    <3>2. pair'.agent.job = pair'.cowork.job
      BY <2>8, <2>13, <3>1
    <3>3. ~Begins(u, "cowork") /\ ~Begins(u, "stamp")
      BY <2>7, <2>13 DEF Begins
    <3>4. ~Stamping(u)
      <4> DEFINE n == 2
      <4>0. n # 1
        OBVIOUS
      <4>1. \A k \in 1 .. n - 1 : t[k][1] # "unstamp"
        BY <2>13, NotFirst
      <4>2. CASE Len(u) = 0
        BY <4>2, EmptyOpen DEF Stamping
      <4>3. Paired(t, "stamp", "unstamp", "stamp", TRUE)
        BY <2>4 DEF Ordered, Linked
      <4>4. CASE Rest(u, t, n)
        <5> HIDE DEF n
        <5>1. Len(t) > 0 /\ t[1][1] = "stamp"
          BY <2>13 DEF Begins
        <5>2. QED
          BY <2>4, <4>0, <4>1, <4>3, <4>4, <5>1, OpenAgain DEF Stamping
      <4>5. QED
        BY <2>5, <4>2, <4>4
    <3>5. QED
      BY <2>9, <2>13, <3>1, <3>2, <3>3, <3>4 DEF Stamps, u
  <2>14. QED
    BY <2>1, <2>10, <2>11, <2>12, <2>13
<1>10. ASSUME NEW p \in Procs, PublishDesign(p) PROVE Stamps'
  <2>1. PICK x \in {"design", "receipt"} : Begins(proc[p].todo, x)
    BY <1>1, <1>10, PublishDesignMoves
  <2>2. pair' = pair /\ Moved(p, 2, proc[p].made, proc[p].prepared, {})
    BY <1>1, <1>10, PublishDesignMoves
  <2>3. x \notin {"agent", "cowork", "unstamp"}
    OBVIOUS
  <2>4. QED
    BY <1>2, <2>1, <2>2, <2>3
<1>11. ASSUME NEW p \in Procs, pair' = pair, \A o \in Procs \ {p} : Stays(o, {}),
              ~Stamping(proc'[p].todo), ~Begins(proc'[p].todo, "cowork"), ~Begins(proc'[p].todo, "stamp")
       PROVE  Stamps'
  <2>1. \A o \in Procs \ {p} :
          /\ Stamping(proc'[o].todo) => ~pair'.stamp
          /\ Begins(proc'[o].todo, "cowork") => pair'.agent.job = proc'[o].made.job
          /\ Begins(proc'[o].todo, "stamp") => pair'.agent.job = pair'.cowork.job
    BY <1>1, <1>11, StampsOthers
  <2>2. QED
    BY <1>1, <1>11, <2>1 DEF Stamps
<1>12. ASSUME NEW p \in Procs, Fail(p) \/ Die(p) PROVE Stamps'
  <2>1. /\ proc'[p] = Idle /\ pair' = pair
        /\ \A n, b, r : Moved(p, n, b, r, {})
    BY <1>1, <1>12, EndingMoves
  <2>2. Len(proc'[p].todo) = 0 /\ \A o \in Procs \ {p} : Stays(o, {})
    BY <2>1, IdleProcess, EmptySeq DEF Moved
  <2>3. QED
    BY <1>11, <2>1, <2>2, EmptyOpen DEF Begins, Stamping
<1>13. ASSUME NEW p \in Procs, NEW j \in Jobs, Start(p, j) PROVE Stamps'
  <2>1. /\ proc'[p].todo = Steps(j) /\ \A o \in Procs \ {p} : Stays(o, {})
        /\ pair' = pair
    BY <1>1, <1>13, StartMoves
  <2>2. /\ Steps(j) \in Todo /\ Paired(Steps(j), "stamp", "unstamp", "stamp", FALSE)
        /\ After(Steps(j), "agent", "cowork", FALSE) /\ After(Steps(j), "cowork", "stamp", FALSE)
    BY JobsOrdered DEF Ordered, Linked
  <2>3. ~Stamping(Steps(j))
    BY <2>2, OpenNew DEF Stamping
  <2>4. ~Begins(Steps(j), "cowork") /\ ~Begins(Steps(j), "stamp")
    <3>1. /\ Steps(j) \in Todo /\ After(Steps(j), "agent", "cowork", FALSE)
          /\ After(Steps(j), "cowork", "stamp", FALSE)
      BY <2>2
    <3>2. QED
      BY <3>1, TodoLen DEF After, Begins
  <2>5. QED
    BY <1>11, <2>1, <2>3, <2>4
<1>14. ASSUME Elsewhere PROVE Stamps'
  <2>1. PICK parts \in SUBSET Parts :
              /\ \A o \in Procs : Stays(o, parts)
              /\ Aged(pair'.agent, pair.agent, parts) /\ Aged(pair'.cowork, pair.cowork, parts)
    BY <1>1, <1>14, ElsewhereMoves
  <2>2. pair'.stamp = pair.stamp
    BY <1>1, <1>14, ElsewhereMoves
  <2>3. pair'.agent.job = pair.agent.job /\ pair'.cowork.job = pair.cowork.job
    BY <2>1 DEF Aged
  <2>4. \A o \in Procs :
          /\ Stamping(proc'[o].todo) => ~pair'.stamp
          /\ Begins(proc'[o].todo, "cowork") => pair'.agent.job = proc'[o].made.job
          /\ Begins(proc'[o].todo, "stamp") => pair'.agent.job = pair'.cowork.job
    BY <1>1, <2>1, <2>2, <2>3, StampsOthers
  <2>5. QED
    BY <1>1, <2>2, <2>3, <2>4 DEF Stamps
<1>15. QED
  BY <1>1, <1>3, <1>4, <1>5, <1>6, <1>7, <1>8, <1>9, <1>10, <1>12, <1>13, <1>14, StepKinds

LEMMA StampsAlways == Spec => [](TypeOK /\ Running /\ Builders /\ Stamps)
<1>1. Init => Builders /\ Stamps
  <2>1. SUFFICES ASSUME Init PROVE Builders /\ Stamps
    OBVIOUS
  <2>2. \A p \in Procs : Len(proc[p].todo) = 0
    BY <2>1, IdleProcess, EmptySeq DEF Init
  <2>3. pair.stamp = FALSE
    BY <2>1 DEF Init
  <2>4. QED
    BY <2>2, <2>3, EmptyOpen DEF Builders, Locked, Stamps, Stamping, Begins
<1>2. QED
  BY <1>1, InitTypes, TypesStep, BuildersStep, StampsStep, PTL DEF Spec

(* The build lock excludes: a job that will still give the lock back before *)
(* it takes it (again) is the one that has it, so two jobs are never        *)
(* between jsonl_build_lock and its release, whatever died or failed.       *)
THEOREM BuildersAlways == Spec => []Builders
  BY StampsAlways, PTL

(* A stamp vouches for a pair: ds4-agent-jsonl and ds4-cowork come from one *)
(* build whenever the stamp is there, whoever died or failed between the   *)
(* renames of run_build_jsonl_locked, and whoever else was building.       *)
THEOREM StampMeansPairAlways == Spec => []StampMeansPair
<1>1. Stamps => StampMeansPair
  BY DEF Stamps, StampMeansPair
<1>2. QED
  BY <1>1, StampsAlways, PTL
-----------------------------------------------------------------------------
(* A Design binary and its stamp carry the number of the job that prepared *)
(* them.  Two jobs have two numbers, and a job prepares its binary once,   *)
(* before it publishes any, so one number never stands for two sources.    *)
Has(t, x) == \E i \in 1 .. Len(t) : t[i][1] = x
SameBuild(x, y) == x.job # 0 /\ x.job = y.job => x.source = y.source
Numbered ==
  /\ \A p \in Procs : proc[p].id <= count.jobs
  /\ \A p, q \in Procs : p # q /\ proc[p].id = proc[q].id => proc[p].id = 0
Prepared(x, d) ==
  /\ x.prepared.job \in {0, x.id}
  /\ SameBuild(x.prepared, d.binary) /\ SameBuild(x.prepared, d.stamp)
  /\ Has(x.todo, "private") =>
       x.id # 0 /\ x.prepared.job = 0 /\ d.binary.job # x.id /\ d.stamp.job # x.id
Designs ==
  /\ design.binary.job <= count.jobs /\ design.stamp.job <= count.jobs
  /\ SameBuild(design.binary, design.stamp)
  /\ \A p \in Procs : Prepared(proc[p], design)

LEMMA HasRest ==
  ASSUME NEW t \in Todo, NEW u, NEW n, Rest(u, t, n), NEW x, Has(u, x)
  PROVE  Has(t, x)
<1>1. \A i \in 1 .. Len(u) : i + n - 1 \in 1 .. Len(t) /\ u[i] = t[i + n - 1]
  BY RestMoves
<1>2. PICK i \in 1 .. Len(u) : u[i][1] = x
  BY DEF Has
<1>3. i + n - 1 \in 1 .. Len(t) /\ t[i + n - 1][1] = x
  BY <1>1, <1>2
<1>4. QED
  BY <1>3 DEF Has

(* After the private build, or what is published of it, there is none.     *)
LEMMA PreparedOnce ==
  ASSUME NEW t \in Todo, Once(t), Len(t) > 0, t[1][1] \in Preparing, NEW u, NEW n, n # 1, Rest(u, t, n)
  PROVE  ~Has(u, "private")
<1>1. ASSUME NEW i \in 1 .. Len(u), u[i][1] = "private" PROVE FALSE
  <2> DEFINE m == i + n - 1
  <2>1. m \in 1 .. Len(t) /\ u[i] = t[m] /\ n \in Nat /\ n > 0 /\ Len(t) \in Nat
    BY RestMoves
  <2>2. 1 < m /\ 1 \in 1 .. Len(t)
    BY <2>1
  <2>3. t[m][1] = "private"
    BY <1>1, <2>1
  <2> HIDE DEF m
  <2>4. QED
    BY <2>1, <2>2, <2>3 DEF Once
<1>2. QED
  BY <1>1 DEF Has

LEMMA EmptyHas ==
  ASSUME NEW t, NEW x, Len(t) = 0
  PROVE  ~Has(t, x)
  BY DEF Has

LEMMA PreparedStays ==
  ASSUME NEW o, NEW parts, Stays(o, parts), NEW d, Prepared(proc[o], d)
  PROVE  Prepared(proc'[o], d)
  BY DEF Stays, Prepared

LEMMA IdlePrepared ==
  ASSUME NEW d
  PROVE  Prepared(Idle, d) /\ Idle.id = 0
<1>1. Idle.prepared.job = 0 /\ Idle.id = 0 /\ Len(Idle.todo) = 0
  BY IdleProcess, NoneMade, EmptySeq
<1>2. QED
  BY <1>1, EmptyHas DEF Prepared, SameBuild

(* The numbers, of any step but the start of a job.                        *)
LEMMA NumberedMoved ==
  ASSUME TypeOK, Numbered, count'.jobs = count.jobs,
         \A o \in Procs : proc'[o].id = proc[o].id \/ proc'[o].id = 0
  PROVE  Numbered'
<1>1. count.jobs \in Nat
  BY DEF TypeOK
<1>2. QED
  BY <1>1 DEF Numbered

LEMMA MovedId ==
  ASSUME TypeOK, NEW p \in Procs, NEW n, NEW b, NEW r, NEW parts, Moved(p, n, b, r, parts)
  PROVE  \A o \in Procs : proc'[o].id = proc[o].id \/ proc'[o].id = 0
  BY IdleProcess DEF Moved, Stays

LEMMA DesignsMoved ==
  ASSUME TypeOK, Numbered, Designs, NEW p \in Procs, NEW n, NEW b, NEW r, NEW parts, Moved(p, n, b, r, parts),
         design' = design, count'.jobs = count.jobs, r = proc[p].prepared \/ r.job = 0
  PROVE  Numbered' /\ Designs'
<1>1. Numbered'
  BY MovedId, NumberedMoved
<1>2. \A o \in Procs \ {p} : Prepared(proc'[o], design)
  BY PreparedStays DEF Moved, Designs
<1>3. Prepared(proc'[p], design)
  <2>1. CASE proc'[p] = Idle
    BY <2>1, IdlePrepared
  <2>2. CASE /\ Rest(proc'[p].todo, proc[p].todo, n) /\ proc'[p].id = proc[p].id /\ proc'[p].prepared = r
    <3>1. Prepared(proc[p], design) /\ proc[p].todo \in Todo
      BY AtBegins DEF Designs
    <3>2. Has(proc'[p].todo, "private") => Has(proc[p].todo, "private")
      BY <2>2, <3>1, HasRest
    <3>3. CASE r = proc[p].prepared
      BY <2>2, <3>1, <3>2, <3>3 DEF Prepared
    <3>4. CASE r.job = 0
      BY <2>2, <3>1, <3>2, <3>4 DEF Prepared, SameBuild
    <3>5. QED
      BY <3>3, <3>4
  <2>3. QED
    BY <2>1, <2>2 DEF Moved
<1>4. QED
  BY <1>1, <1>2, <1>3 DEF Designs

LEMMA DesignsStep == TypeOK /\ Running /\ Numbered /\ Designs /\ [Next]_vars => Numbered' /\ Designs'
<1>1. SUFFICES ASSUME TypeOK, Running, Numbered, Designs, [Next]_vars PROVE Numbered' /\ Designs'
  OBVIOUS
<1>2. /\ count.jobs \in Nat /\ design \in [binary : Receipt, stamp : Receipt]
      /\ \A p \in Procs : proc[p].id \in Nat /\ proc[p].prepared \in Receipt /\ proc[p].todo \in Todo
  BY <1>1, AtBegins, ProcessFields DEF TypeOK
<1>3. ASSUME NEW p \in Procs, NEW n, NEW b, NEW parts, Moved(p, n, b, proc[p].prepared, parts),
             UNCHANGED <<design, count>>
      PROVE  Numbered' /\ Designs'
  BY <1>1, <1>3, DesignsMoved
<1>4. ASSUME NEW p \in Procs, Quiet(p) PROVE Numbered' /\ Designs'
  BY <1>1, <1>3, <1>4, QuietMoves
<1>5. ASSUME NEW p \in Procs, Writing(p) PROVE Numbered' /\ Designs'
  BY <1>1, <1>3, <1>5, WritingMoves
<1>6. ASSUME NEW p \in Procs, Skipping(p) PROVE Numbered' /\ Designs'
  <2>1. Ordered(proc[p].todo, TRUE)
    BY <1>1 DEF Running
  <2>2. UNCHANGED <<design, count>> /\ \E n : Moved(p, n, proc[p].made, proc[p].prepared, {})
    BY <1>1, <1>6, <2>1, SkippingMoves
  <2>3. QED
    BY <1>3, <2>2
<1>7. ASSUME NEW p \in Procs, Making(p) PROVE Numbered' /\ Designs'
  BY <1>1, <1>3, <1>7, MakingMoves
<1>8. ASSUME NEW p \in Procs, Snapshot(p) PROVE Numbered' /\ Designs'
  BY <1>1, <1>8, SnapshotMoves, DesignsMoved
<1>9. ASSUME NEW p \in Procs, TakeLock(p) \/ Unlock(p) PROVE Numbered' /\ Designs'
  <2>1. UNCHANGED <<design, count>>
    BY <1>1, <1>9, LockMoves
  <2>2. \E b, r : Moved(p, 2, b, r, {}) /\ (r = proc[p].prepared \/ r.job = 0)
    BY <1>1, <1>9, LockMoves, NoneMade
  <2>3. QED
    BY <1>1, <2>1, <2>2, DesignsMoved
<1>10. ASSUME NEW p \in Procs, Publishing(p) PROVE Numbered' /\ Designs'
  BY <1>1, <1>3, <1>10, PublishingMoves
<1>11. ASSUME NEW p \in Procs, proc[p].todo \in Todo, Once(proc[p].todo), NEW x \in Preparing, Begins(proc[p].todo, x),
              NEW b, NEW r, NEW parts, Moved(p, 2, b, r, parts)
       PROVE  ~Has(proc'[p].todo, "private")
  <2> DEFINE t == proc[p].todo  u == proc'[p].todo  n == 2
  <2>1. Len(u) = 0 \/ Rest(u, t, n)
    BY <1>1, <1>11, MovedTodo
  <2>2. Len(t) > 0 /\ t[1][1] \in Preparing /\ n # 1 /\ t \in Todo /\ Once(t)
    BY <1>11 DEF Begins
  <2> HIDE DEF t, u, n
  <2>3. ~Has(u, "private")
    BY <2>1, <2>2, PreparedOnce, EmptyHas
  <2>4. QED
    BY <2>3 DEF u
<1>12. ASSUME NEW p \in Procs, Private(p) PROVE Numbered' /\ Designs'
  <2>1. PICK r \in Receipt : r.job = proc[p].id /\ Moved(p, 2, proc[p].made, r, {})
    BY <1>1, <1>12, PrivateMoves
  <2>2. Begins(proc[p].todo, "private") /\ UNCHANGED <<design, count>>
    BY <1>1, <1>12, PrivateMoves
  <2>3. Numbered'
    BY <1>1, <2>1, <2>2, MovedId, NumberedMoved
  <2>4. ~Has(proc'[p].todo, "private")
    BY <1>1, <1>2, <1>11, <2>1, <2>2 DEF Running, Preparing
  <2>5. Prepared(proc[p], design) /\ Has(proc[p].todo, "private")
    <3>1. 1 \in 1 .. Len(proc[p].todo) /\ proc[p].todo[1][1] = "private"
      BY <1>2, <2>2, TodoLen DEF Begins
    <3>2. QED
      BY <1>1, <3>1 DEF Has, Designs
  <2>6. Prepared(proc'[p], design)
    <3>1. CASE proc'[p] = Idle
      BY <3>1, IdlePrepared
    <3>2. CASE proc'[p].id = proc[p].id /\ proc'[p].prepared = r
      BY <2>1, <2>4, <2>5, <3>2 DEF Prepared, SameBuild
    <3>3. QED
      BY <2>1, <3>1, <3>2 DEF Moved
  <2>7. \A o \in Procs \ {p} : Prepared(proc'[o], design)
    BY <1>1, <2>1, PreparedStays DEF Moved, Designs
  <2>8. QED
    BY <1>1, <2>2, <2>3, <2>6, <2>7 DEF Designs
<1>13. ASSUME NEW p \in Procs, PublishDesign(p) PROVE Numbered' /\ Designs'
  <2> DEFINE d == proc[p].prepared
  <2>1. /\ Moved(p, 2, proc[p].made, d, {}) /\ count' = count
        /\ \/ Begins(proc[p].todo, "design") /\ design' = [design EXCEPT !.binary = d]
           \/ Begins(proc[p].todo, "receipt") /\ design' = [design EXCEPT !.stamp = d]
    BY <1>1, <1>13, PublishDesignMoves
  <2>2. Numbered'
    BY <1>1, <2>1, MovedId, NumberedMoved
  <2>3. ~Has(proc'[p].todo, "private")
    BY <1>1, <1>2, <1>11, <2>1 DEF Running, Preparing
  <2>4. /\ design'.binary \in {design.binary, d} /\ design'.stamp \in {design.stamp, d}
        /\ design'.binary = design.binary \/ design'.stamp = design.stamp
    BY <1>2, <2>1
  <2>5. Prepared(proc[p], design) /\ d.job \in {0, proc[p].id} /\ d.job <= count.jobs
    BY <1>1, <1>2 DEF Designs, Prepared, Numbered
  <2>6. SameBuild(design'.binary, design'.stamp)
    BY <1>1, <2>4, <2>5 DEF Designs, Prepared, SameBuild
  <2>7. design'.binary.job <= count'.jobs /\ design'.stamp.job <= count'.jobs
    BY <1>1, <2>1, <2>4, <2>5 DEF Designs
  <2>8. ASSUME NEW o \in Procs \ {p} PROVE Prepared(proc'[o], design')
    <3>1. Prepared(proc[o], design)
      BY <1>1 DEF Designs
    <3>2. d.job = proc[o].id => proc[o].id = 0
      BY <1>1, <2>5 DEF Numbered
    <3>3. proc[o].prepared.job = d.job => d.job = 0
      BY <3>1, <3>2 DEF Prepared
    <3>4. Prepared(proc[o], design')
      BY <2>4, <3>1, <3>2, <3>3 DEF Prepared, SameBuild
    <3>5. QED
      BY <2>1, <3>4, PreparedStays DEF Moved
  <2>9. Prepared(proc'[p], design')
    <3>1. CASE proc'[p] = Idle
      BY <3>1, IdlePrepared
    <3>2. CASE proc'[p].id = proc[p].id /\ proc'[p].prepared = d
      BY <2>3, <2>4, <2>5, <3>2 DEF Prepared, SameBuild
    <3>3. QED
      BY <2>1, <3>1, <3>2 DEF Moved
  <2>10. QED
    BY <2>2, <2>6, <2>7, <2>8, <2>9 DEF Designs
<1>14. ASSUME NEW p \in Procs, Fail(p) \/ Die(p) PROVE Numbered' /\ Designs'
  <2>1. UNCHANGED <<design, count>> /\ Moved(p, 2, proc[p].made, proc[p].prepared, {})
    BY <1>1, <1>14, EndingMoves
  <2>2. QED
    BY <1>3, <2>1
<1>15. ASSUME NEW p \in Procs, NEW j \in Jobs, Start(p, j) PROVE Numbered' /\ Designs'
  <2>1. /\ \A o \in Procs \ {p} : Stays(o, {})
        /\ design' = design /\ proc'[p].prepared = NoDesign
        /\ proc'[p].id = count.jobs + 1 /\ count'.jobs = count.jobs + 1
    BY <1>1, <1>15, StartMoves
  <2>2. \A o \in Procs \ {p} : proc'[o].id = proc[o].id
    BY <2>1 DEF Stays
  <2>3. Numbered'
    <3>1. \A o \in Procs : proc'[o].id <= count'.jobs
      BY <1>1, <1>2, <2>1, <2>2 DEF Numbered
    <3>2. \A o \in Procs \ {p} : proc'[o].id # proc'[p].id
      BY <1>1, <1>2, <2>1, <2>2 DEF Numbered
    <3>3. ASSUME NEW o \in Procs, NEW q \in Procs, o # q, proc'[o].id = proc'[q].id PROVE proc'[o].id = 0
      BY <1>1, <2>2, <3>2, <3>3 DEF Numbered
    <3>4. QED
      BY <3>1, <3>3 DEF Numbered
  <2>4. \A o \in Procs \ {p} : Prepared(proc'[o], design)
    BY <1>1, <2>1, PreparedStays DEF Designs
  <2>5. design.binary.job \in Nat /\ design.stamp.job \in Nat
    BY <1>2, ReceiptFields
  <2>6. Prepared(proc'[p], design)
    BY <1>1, <1>2, <2>1, <2>5, NoneMade DEF Prepared, SameBuild, Designs
  <2>7. QED
    BY <1>1, <1>2, <2>1, <2>3, <2>4, <2>5, <2>6 DEF Designs
<1>16. ASSUME Elsewhere PROVE Numbered' /\ Designs'
  <2>1. PICK parts \in SUBSET Parts : \A o \in Procs : Stays(o, parts)
    BY <1>1, <1>16, ElsewhereMoves
  <2>2. design' = design /\ count'.jobs = count.jobs
    BY <1>1, <1>16, ElsewhereMoves
  <2>3. Numbered'
    BY <1>1, <2>1, <2>2, NumberedMoved DEF Stays
  <2>4. \A o \in Procs : Prepared(proc'[o], design)
    BY <1>1, <2>1, PreparedStays DEF Designs
  <2>5. QED
    BY <1>1, <2>2, <2>3, <2>4 DEF Designs
<1>17. QED
  BY <1>1, <1>4, <1>5, <1>6, <1>7, <1>8, <1>9, <1>10, <1>12, <1>13, <1>14, <1>15, <1>16, StepKinds

LEMMA DesignsAlways == Spec => [](TypeOK /\ Running /\ Numbered /\ Designs)
<1>1. Init => Numbered /\ Designs
  <2>1. SUFFICES ASSUME Init PROVE Numbered /\ Designs
    OBVIOUS
  <2>2. \A p \in Procs : proc[p] = Idle
    BY <2>1 DEF Init
  <2>3. design.binary.job = 0 /\ design.stamp.job = 0 /\ count.jobs = 0
    BY <2>1, NoneMade DEF Init
  <2>4. \A p \in Procs : Prepared(proc[p], design) /\ proc[p].id = 0
    BY <2>2, IdlePrepared
  <2>5. QED
    BY <2>3, <2>4 DEF Numbered, Designs, SameBuild
<1>2. QED
  BY <1>1, InitTypes, TypesStep, DesignsStep, PTL DEF Spec

(* A Design binary that is found fresh was built from the sources as they  *)
(* are: binary_is_fresh (build-design.sh) trusts a stamp whose digest is    *)
(* that of the sources and of the binary, although design_publish_stage     *)
(* renames the two one after the other and the sources may go back to what  *)
(* an older stamp says.                                                    *)
THEOREM DesignFreshIsCurrentAlways == Spec => []DesignFreshIsCurrent
<1>1. TypeOK /\ Designs => DesignFreshIsCurrent
  BY DEF Designs, SameBuild, DesignFreshIsCurrent, DesignFresh
<1>2. QED
  BY <1>1, DesignsAlways, PTL
===================
