--------------------------- MODULE ClassifyProofs ---------------------------
(***************************************************************************)
(* Reports that tell the same problem make one incident, and reports that  *)
(* tell different ones different incidents, for any number of services and *)
(* deaths, any texts and numbers in them, any exit codes, signals and      *)
(* priorities, and in whatever order they are made.                        *)
(*                                                                         *)
(* The incident is a function of what is told, and a one-to-one function;  *)
(* every incident comes from such a report.  What the three reports of a   *)
(* death tell is two problems at most.                                     *)
(***************************************************************************)
EXTENDS Classify, SequenceTheorems, FiniteSetTheorems, TLAPS

Key(u, kind, signature) == [unit |-> u, kind |-> kind, signature |-> signature]
Cut(t) == SubSeq(t, 1, IF Len(t) < Width THEN Len(t) ELSE Width)

\* What is told by a word alone, and the kind that makes.
Words == {"oom", "failed", "died"}
KindOf(w) == IF w = "died" THEN "crash" ELSE w

\* What is reported of a problem is the incident of the problem.
Faithful(r) ==
    \E u \in Units \cup {Nobody} :
        \/ \E s \in Codes \ {0} :
              /\ r.problem = <<u, "exit", s>>
              /\ r.keys = {Key(u, "crash", <<"crash", "exit", s>>)}
        \/ \E s \in Signals \cup {11} :
              /\ r.problem = <<u, "signal", s>>
              /\ r.keys = {Key(u, "crash", <<"crash", "signal", s>>)}
        \/ \E t \in Templates :
              /\ r.problem = <<u, "error", t>>
              /\ r.keys = {Key(u, "error", <<"error">> \o Cut(t))}
        \/ /\ r.problem = <<u, "loop">>
           /\ r.keys = {Key(u, "restart_loop",
                            <<"restart_loop">>
                              \o Normal(<<"restart loop", Hole>>))}
        \/ \E w \in Words :
              /\ r.problem = <<u, w>>
              /\ r.keys = {Key(u, KindOf(w), <<KindOf(w)>>)}

Ours(R) == {r \in R : ~Named(r.problem[1])}
Unnamed(K) == {i \in K : ~Named(i.unit)}

\* The reports that are to come are of a death.
Reporting ==
    /\ cause \in Causes
    /\ pending # {} => dead \in Units
    /\ "exit" \in pending => cause.how # "timeout"

\* What K is made of problems R say.
Told(K, R) ==
    /\ \A r \in Ours(R) : Faithful(r)
    /\ ErrorPriority < 5 => Unnamed(K) = UNION {r.keys : r \in Ours(R)}

Grouped == Reporting /\ Told(incidents, reported)

LEMMA ToldEmpty == Told({}, {})
  BY DEF Told, Ours, Unnamed

LEMMA ToldTogether ==
    ASSUME NEW K, NEW R, NEW L, NEW S, Told(K, R), Told(L, S)
    PROVE  Told(K \cup L, R \cup S)
<1>1. /\ Ours(R \cup S) = Ours(R) \cup Ours(S)
      /\ Unnamed(K \cup L) = Unnamed(K) \cup Unnamed(L)
  BY DEF Ours, Unnamed
<1>2. UNION {r.keys : r \in Ours(R) \cup Ours(S)}
        = (UNION {r.keys : r \in Ours(R)}) \cup UNION {r.keys : r \in Ours(S)}
  OBVIOUS
<1> QED
  BY <1>1, <1>2 DEF Told

\* What makes no incident but of a unit named like the OOM killer.
LEMMA NothingTold ==
    ASSUME NEW K, ErrorPriority < 5 => Unnamed(K) = {}
    PROVE  Told(K, {})
  BY DEF Told, Ours

LEMMA OneTold ==
    ASSUME NEW p, NEW k, k.unit = p[1],
           NEW r, r = [problem |-> p, keys |-> {k}], Faithful(r)
    PROVE  Told({k}, Known(p, {k}))
<1>1. r.problem = p /\ r.keys = {k}
  OBVIOUS
<1>2. Known(p, {k}) = {r}
  BY DEF Known
<1>3. Faithful(r)
  OBVIOUS
<1>4. CASE Named(p[1])
  <2>1. Ours({r}) = {} /\ Unnamed({k}) = {}
    BY <1>1, <1>4 DEF Ours, Unnamed
  <2> QED
    BY <1>2, <2>1 DEF Told
<1>5. CASE ~Named(p[1])
  <2>1. Ours({r}) = {r} /\ Unnamed({k}) = {k}
    BY <1>1, <1>5 DEF Ours, Unnamed
  <2> QED
    BY <1>1, <1>2, <1>3, <2>1 DEF Told
<1> QED
  BY <1>4, <1>5

LEMMA NamedTold ==
    ASSUME NEW K, NEW p, Named(p[1]), \A i \in K : i.unit = p[1]
    PROVE  Told(K, Known(p, K)) /\ Told(K, {})
<1> DEFINE r == [problem |-> p, keys |-> K]
<1>1. r.problem = p
  OBVIOUS
<1>2. Known(p, K) = {r}
  BY DEF Known
<1> HIDE DEF r
<1>3. Ours({r}) = {} /\ Unnamed(K) = {} /\ Ours({}) = {}
  BY <1>1 DEF Ours, Unnamed
<1> QED
  BY <1>2, <1>3 DEF Told

----------------------------------------------------------------------------
(* One problem, one incident. *)

LEMMA Signatures ==
    ASSUME NEW x, NEW s
    PROVE  <<"crash", x, s>> # <<"crash">>
<1>1. Len(<<"crash", x, s>>) = 3 /\ Len(<<"crash">>) = 1
  OBVIOUS
<1> QED
  BY <1>1

LEMMA ErrorSignatures ==
    ASSUME NEW S, NEW k, NEW x \in Seq(S)
    PROVE  \A y \in Seq(S) : <<k>> \o x = <<k>> \o y => x = y
<1>1. ASSUME NEW y \in Seq(S)
      PROVE  /\ (<<k>> \o y)[1] = k
             /\ Len(<<k>> \o y) = 1 + Len(y)
             /\ \A i \in 1..Len(y) : (<<k>> \o y)[i + 1] = y[i]
  OBVIOUS
<1>3. ASSUME NEW y \in Seq(S), <<k>> \o x = <<k>> \o y PROVE x = y
  <2>1. Len(x) = Len(y)
    BY <1>1, <1>3
  <2>2. \A i \in 1..Len(x) : x[i] = y[i]
    BY <1>1, <1>3, <2>1
  <2> QED
    BY <2>1, <2>2, SeqEqual
<1> QED
  BY <1>3

LEMMA Cuts ==
    /\ \A t \in Templates : Cut(t) \in Seq(STRING)
    /\ \A t, v \in Templates : Cut(t) = Cut(v) => t = v
<1>1. \A t \in Templates : t \in Seq(STRING)
  BY TextAssumption
<1>2. ASSUME NEW t \in Templates PROVE Cut(t) \in Seq(STRING)
  <2>1. t \in Seq(STRING) /\ Len(t) \in Nat /\ Width \in Nat
    BY <1>1, TextAssumption
  <2> DEFINE n == IF Len(t) < Width THEN Len(t) ELSE Width
  <2>2. n \in 0..Len(t)
    BY <2>1
  <2>3. Cut(t) = SubSeq(t, 1, n)
    BY DEF Cut
  <2>4. \A i \in 1..n : t[i] \in STRING
    BY <2>1, <2>2
  <2> HIDE DEF n
  <2> QED
    BY <2>1, <2>2, <2>3, <2>4, SubSeqProperties
<1> QED
  BY <1>2, TextAssumption DEF Cut

\* Reports of different problems make different incidents.
LEMMA OneToOne ==
    ASSUME NEW r, NEW q, Faithful(r), Faithful(q)
    PROVE  r.problem = q.problem <=> r.keys = q.keys
<1> DEFINE
        Is(x, p, k) == x.problem = p /\ x.keys = {k}
        Exit(u, s) == Key(u, "crash", <<"crash", "exit", s>>)
        Signal(u, s) == Key(u, "crash", <<"crash", "signal", s>>)
        Error(u, t) == Key(u, "error", <<"error">> \o Cut(t))
        W == <<"restart_loop">> \o Normal(<<"restart loop", Hole>>)
        Looped(u) == Key(u, "restart_loop", W)
        Word(u, w) == Key(u, KindOf(w), <<KindOf(w)>>)
        Form(x) == \/ \E u, s : Is(x, <<u, "exit", s>>, Exit(u, s))
                   \/ \E u, s : Is(x, <<u, "signal", s>>, Signal(u, s))
                   \/ \E u, t : /\ t \in Templates
                                /\ Is(x, <<u, "error", t>>, Error(u, t))
                   \/ \E u : Is(x, <<u, "loop">>, Looped(u))
                   \/ \E u, w : w \in Words /\ Is(x, <<u, w>>, Word(u, w))
<1>1. Form(r) /\ Form(q)
  BY DEF Faithful
<1> HIDE DEF W
<1>2. \A u, v, s, t :
        /\ <<u, "exit", s>> = <<v, "exit", t>> <=> u = v /\ s = t
        /\ <<u, "signal", s>> = <<v, "signal", t>> <=> u = v /\ s = t
        /\ <<u, "error", s>> = <<v, "error", t>> <=> u = v /\ s = t
        /\ <<u, "loop">> = <<v, "loop">> <=> u = v
  OBVIOUS
<1>3. \A u, v, s, t :
        /\ <<u, "exit", s>> # <<v, "signal", t>>
        /\ <<u, "exit", s>> # <<v, "error", t>>
        /\ <<u, "signal", s>> # <<v, "error", t>>
  OBVIOUS
<1>4. ASSUME NEW u, NEW v, NEW s, NEW t
      PROVE  /\ <<u, t, s>> # <<v, "loop">>
             /\ \A w : <<u, t, s>> # <<v, w>>
  <2>1. \A w : Len(<<u, t, s>>) = 3 /\ Len(<<v, w>>) = 2
    OBVIOUS
  <2> QED
    BY <2>1
<1>5. \A u, v, k, l, x, y :
        Key(u, k, x) = Key(v, l, y) <=> u = v /\ k = l /\ x = y
  BY DEF Key
<1>6. ASSUME NEW u, NEW v, NEW s, NEW t
      PROVE  /\ Exit(u, s) = Exit(v, t) <=> u = v /\ s = t
             /\ Signal(u, s) = Signal(v, t) <=> u = v /\ s = t
             /\ Exit(u, s) # Signal(v, t)
             /\ Exit(u, s) # Looped(v) /\ Signal(u, s) # Looped(v)
             /\ Exit(u, s) # Error(v, t) /\ Signal(u, s) # Error(v, t)
             /\ Error(u, s) # Looped(v)
             /\ Looped(u) = Looped(v) <=> u = v
  <2>1. /\ <<"crash", "exit", s>> = <<"crash", "exit", t>> <=> s = t
        /\ <<"crash", "signal", s>> = <<"crash", "signal", t>> <=> s = t
        /\ <<"crash", "exit", s>> # <<"crash", "signal", t>>
    OBVIOUS
  <2>2. Exit(u, s) = Exit(v, t) <=> u = v /\ s = t
    BY <1>5, <2>1
  <2>3. Signal(u, s) = Signal(v, t) <=> u = v /\ s = t
    BY <1>5, <2>1
  <2>4. Exit(u, s) # Signal(v, t)
    BY <1>5, <2>1
  <2>5. Exit(u, s) # Looped(v) /\ Signal(u, s) # Looped(v)
    BY <1>5
  <2>6. Exit(u, s) # Error(v, t) /\ Signal(u, s) # Error(v, t)
    BY <1>5
  <2>7. Error(u, s) # Looped(v)
    BY <1>5
  <2>8. Looped(u) = Looped(v) <=> u = v
    BY <1>5
  <2> QED
    BY <2>2, <2>3, <2>4, <2>5, <2>6, <2>7, <2>8
<1>7. ASSUME NEW u, NEW v, NEW s \in Templates, NEW t \in Templates
      PROVE  Error(u, s) = Error(v, t) <=> u = v /\ s = t
  <2>1. <<"error">> \o Cut(s) = <<"error">> \o Cut(t) => s = t
    BY Cuts, ErrorSignatures
  <2> DEFINE x == <<"error">> \o Cut(s)
             y == <<"error">> \o Cut(t)
  <2>2. s = t => x = y
    OBVIOUS
  <2>3. Error(u, s) = Error(v, t) <=> u = v /\ x = y
    <3> HIDE DEF x, y
    <3>1. Error(u, s) = Key(u, "error", x) /\ Error(v, t) = Key(v, "error", y)
      BY DEF x, y
    <3> HIDE DEF Error
    <3> QED
      BY <1>5, <3>1
  <2> HIDE DEF Error
  <2> QED
    BY <2>1, <2>2, <2>3
<1>13. ASSUME NEW u, NEW v, NEW s, NEW t, NEW w \in Words, NEW z \in Words
       PROVE  /\ Word(u, w) = Word(v, z) <=> u = v /\ w = z
              /\ <<u, w>> = <<v, z>> <=> u = v /\ w = z
              /\ <<u, w>> # <<v, "loop">>
              /\ Word(u, w) # Exit(v, t) /\ Word(u, w) # Signal(v, t)
              /\ Word(u, w) # Looped(v) /\ Word(u, w) # Error(v, t)
  <2>1. /\ KindOf(w) = KindOf(z) <=> w = z
        /\ KindOf(w) # "restart_loop" /\ KindOf(w) # "error"
        /\ KindOf(w) = "crash" => <<KindOf(w)>> = <<"crash">>
    BY DEF KindOf, Words
  <2>2. Word(u, w) = Word(v, z) <=> u = v /\ w = z
    BY <1>5, <2>1
  <2>3. Word(u, w) # Exit(v, t)
    BY <1>5, <2>1, Signatures
  <2>4. Word(u, w) # Signal(v, t)
    BY <1>5, <2>1, Signatures
  <2>5. Word(u, w) # Looped(v)
    BY <1>5, <2>1
  <2>6. Word(u, w) # Error(v, t)
    <3> DEFINE x == <<"error">> \o Cut(t)
    <3> HIDE DEF x
    <3> QED
      BY <1>5, <2>1
  <2>7. /\ <<u, w>> = <<v, z>> <=> u = v /\ w = z
        /\ <<u, w>> # <<v, "loop">>
    BY DEF Words
  <2> QED
    BY <2>2, <2>3, <2>4, <2>5, <2>6, <2>7
<1>8. \A k, l : {k} = {l} <=> k = l
  OBVIOUS
<1>15. ASSUME NEW u, NEW v, NEW s, NEW w \in Words
       PROVE  /\ <<u, w>> # <<v, "exit", s>> /\ {Word(u, w)} # {Exit(v, s)}
              /\ <<u, w>> # <<v, "signal", s>> /\ {Word(u, w)} # {Signal(v, s)}
              /\ <<u, w>> # <<v, "error", s>> /\ {Word(u, w)} # {Error(v, s)}
              /\ <<u, w>> # <<v, "loop">> /\ {Word(u, w)} # {Looped(v)}
  <2>1. /\ Word(u, w) # Exit(v, s) /\ Word(u, w) # Signal(v, s)
        /\ Word(u, w) # Looped(v) /\ Word(u, w) # Error(v, s)
        /\ <<u, w>> # <<v, "loop">>
    BY <1>13
  <2>2. \A t : <<v, t, s>> # <<u, w>>
    BY <1>4
  <2> HIDE DEF Exit, Signal, Error, Looped, Word
  <2> QED
    BY <1>8, <2>1, <2>2
<1> HIDE DEF Exit, Signal, Error, Looped, Word
<1>9. CASE \E u, s : Is(r, <<u, "exit", s>>, Exit(u, s))
  <2>1. PICK u, s : Is(r, <<u, "exit", s>>, Exit(u, s))
    BY <1>9
  <2>2. CASE \E v, w : w \in Words /\ Is(q, <<v, w>>, Word(v, w))
    <3>1. PICK v, w : w \in Words /\ Is(q, <<v, w>>, Word(v, w))
      BY <2>2
    <3>2. r.problem # q.problem /\ r.keys # q.keys
      BY <1>15, <2>1, <3>1
    <3> QED
      BY <3>2
  <2>3. CASE ~\E v, w : w \in Words /\ Is(q, <<v, w>>, Word(v, w))
    BY <1>1, <1>2, <1>3, <1>4, <1>6, <1>8, <2>1, <2>3
  <2> QED
    BY <2>2, <2>3
<1>10. CASE \E u, s : Is(r, <<u, "signal", s>>, Signal(u, s))
  <2>1. PICK u, s : Is(r, <<u, "signal", s>>, Signal(u, s))
    BY <1>10
  <2>2. CASE \E v, w : w \in Words /\ Is(q, <<v, w>>, Word(v, w))
    <3>1. PICK v, w : w \in Words /\ Is(q, <<v, w>>, Word(v, w))
      BY <2>2
    <3>2. r.problem # q.problem /\ r.keys # q.keys
      BY <1>15, <2>1, <3>1
    <3> QED
      BY <3>2
  <2>3. CASE ~\E v, w : w \in Words /\ Is(q, <<v, w>>, Word(v, w))
    BY <1>1, <1>2, <1>3, <1>4, <1>6, <1>8, <2>1, <2>3
  <2> QED
    BY <2>2, <2>3
<1>11. CASE \E u, t : t \in Templates /\ Is(r, <<u, "error", t>>, Error(u, t))
  <2>1. PICK u, t : t \in Templates /\ Is(r, <<u, "error", t>>, Error(u, t))
    BY <1>11
  <2>2. CASE \E v, s : Is(q, <<v, "exit", s>>, Exit(v, s))
    BY <1>3, <1>6, <1>8, <2>1, <2>2
  <2>3. CASE \E v, s : Is(q, <<v, "signal", s>>, Signal(v, s))
    BY <1>3, <1>6, <1>8, <2>1, <2>3
  <2>4. CASE \E v, s : s \in Templates /\ Is(q, <<v, "error", s>>, Error(v, s))
    BY <1>2, <1>7, <1>8, <2>1, <2>4
  <2>5. CASE \E v : Is(q, <<v, "loop">>, Looped(v))
    BY <1>4, <1>6, <1>8, <2>1, <2>5
  <2>6. CASE \E v, w : w \in Words /\ Is(q, <<v, w>>, Word(v, w))
    <3>1. PICK v, w : w \in Words /\ Is(q, <<v, w>>, Word(v, w))
      BY <2>6
    <3>2. r.problem # q.problem /\ r.keys # q.keys
      BY <1>15, <2>1, <3>1
    <3> QED
      BY <3>2
  <2> QED
    BY <1>1, <2>2, <2>3, <2>4, <2>5, <2>6
<1>12. CASE \E u : Is(r, <<u, "loop">>, Looped(u))
  <2>1. PICK u : Is(r, <<u, "loop">>, Looped(u))
    BY <1>12
  <2>2. CASE \E v, w : w \in Words /\ Is(q, <<v, w>>, Word(v, w))
    BY <1>8, <1>13, <2>1, <2>2
  <2>3. CASE ~\E v, w : w \in Words /\ Is(q, <<v, w>>, Word(v, w))
    BY <1>1, <1>2, <1>4, <1>6, <1>8, <2>1, <2>3
  <2> QED
    BY <2>2, <2>3
<1>14. CASE \E u, w : w \in Words /\ Is(r, <<u, w>>, Word(u, w))
  <2>1. PICK u, w : w \in Words /\ Is(r, <<u, w>>, Word(u, w))
    BY <1>14
  <2>2. CASE \E v, s : Is(q, <<v, "exit", s>>, Exit(v, s))
    <3>1. PICK v, s : Is(q, <<v, "exit", s>>, Exit(v, s))
      BY <2>2
    <3>2. r.problem # q.problem /\ r.keys # q.keys
      BY <1>15, <2>1, <3>1
    <3> QED
      BY <3>2
  <2>3. CASE \E v, s : Is(q, <<v, "signal", s>>, Signal(v, s))
    <3>1. PICK v, s : Is(q, <<v, "signal", s>>, Signal(v, s))
      BY <2>3
    <3>2. r.problem # q.problem /\ r.keys # q.keys
      BY <1>15, <2>1, <3>1
    <3> QED
      BY <3>2
  <2>4. CASE \E v, s : s \in Templates /\ Is(q, <<v, "error", s>>, Error(v, s))
    <3>1. PICK v, s : s \in Templates /\ Is(q, <<v, "error", s>>, Error(v, s))
      BY <2>4
    <3>2. r.problem # q.problem /\ r.keys # q.keys
      BY <1>15, <2>1, <3>1
    <3> QED
      BY <3>2
  <2>5. CASE \E v : Is(q, <<v, "loop">>, Looped(v))
    BY <1>8, <1>13, <2>1, <2>5
  <2>6. CASE \E v, z : z \in Words /\ Is(q, <<v, z>>, Word(v, z))
    <3>1. PICK v, z : z \in Words /\ Is(q, <<v, z>>, Word(v, z))
      BY <2>6
    <3>2. /\ r.problem = q.problem <=> u = v /\ w = z
          /\ r.keys = q.keys <=> u = v /\ w = z
      <4>1. /\ Word(u, w) = Word(v, z) <=> u = v /\ w = z
            /\ <<u, w>> = <<v, z>> <=> u = v /\ w = z
        BY <1>13, <2>1, <3>1
      <4> QED
        BY <1>8, <2>1, <3>1, <4>1
    <3> QED
      BY <3>2
  <2> QED
    BY <1>1, <2>2, <2>3, <2>4, <2>5, <2>6
<1> QED
  BY <1>1, <1>9, <1>10, <1>11, <1>12, <1>14

----------------------------------------------------------------------------
(* What each message makes. *)

LEMMA IncidentIs ==
    ASSUME NEW u, NEW v, NEW x
    PROVE  /\ \A i \in Incident(u, v, x) : i.unit = u
           /\ v.kind = "none" => Incident(u, v, x) = {}
           /\ v.kind # "none" =>
                 Incident(u, v, x) = {Key(u, v.kind, Signature(v, x))}
  BY DEF Incident, Key

\* What is told by a word makes the incident of its kind.
LEMMA WordIncident ==
    ASSUME NEW u \in Units \cup {Nobody}, NEW x, NEW w \in Words
    PROVE  LET K == Incident(u, Verdict(KindOf(w), None, None), x)
           IN  Told(K, Known(<<u, w>>, K))
<1> DEFINE v == Verdict(KindOf(w), None, None)
           k == Key(u, KindOf(w), <<KindOf(w)>>)
           p == <<u, w>>
<1>1. v.kind = KindOf(w) /\ v.signal = None /\ v.exit_code = None
  BY DEF Verdict
<1> HIDE DEF v
<1>2. KindOf(w) \in {"oom", "failed", "crash"}
  BY DEF KindOf, Words
<1>3. Signature(v, x) = <<KindOf(w)>>
  BY <1>1, <1>2 DEF Signature
<1>4. Incident(u, v, x) = {k}
  BY <1>1, <1>2, <1>3, IncidentIs
<1>5. k.unit = p[1]
  BY DEF Key
<1>6. Faithful([problem |-> p, keys |-> {k}])
  BY DEF Faithful
<1>7. Told({k}, Known(p, {k}))
  <2> DEFINE r == [problem |-> p, keys |-> {k}]
  <2>1. Faithful(r)
    BY <1>6
  <2>2. r = [problem |-> p, keys |-> {k}]
    OBVIOUS
  <2> HIDE DEF k, p, r
  <2> QED
    BY <1>5, <2>1, <2>2, OneTold
<1> QED
  BY <1>4, <1>7 DEF v

\* A death by an exit code or a signal makes the incident of that problem.
LEMMA ExitIncident ==
    ASSUME NEW u \in Units \cup {Nobody}, NEW x, NEW s \in Codes \ {0}
    PROVE  LET K == Incident(u, Verdict("crash", s, None), x)
           IN  Told(K, Known(<<u, "exit", s>>, K))
<1> DEFINE v == Verdict("crash", s, None)
           k == Key(u, "crash", <<"crash", "exit", s>>)
           p == <<u, "exit", s>>
<1>1. v.kind = "crash" /\ v.signal = None /\ v.exit_code = s
  BY DEF Verdict
<1>2. s # None
  BY ClassifyAssumption DEF None
<1> HIDE DEF v
<1>3. Signature(v, x) = <<"crash", "exit", s>>
  BY <1>1, <1>2 DEF Signature
<1>4. Incident(u, v, x) = {k}
  BY <1>1, <1>3, IncidentIs
<1>5. k.unit = p[1]
  BY DEF Key
<1>7. Faithful([problem |-> p, keys |-> {k}])
  BY DEF Faithful
<1>8. Told({k}, Known(p, {k}))
  <2> DEFINE r == [problem |-> p, keys |-> {k}]
  <2>1. Faithful(r)
    BY <1>7
  <2>2. r = [problem |-> p, keys |-> {k}]
    OBVIOUS
  <2> HIDE DEF k, p, r
  <2> QED
    BY <1>5, <2>1, <2>2, OneTold
<1> QED
  BY <1>4, <1>8 DEF v

LEMMA SignalIncident ==
    ASSUME NEW u \in Units \cup {Nobody}, NEW x, NEW s \in Signals \cup {11}
    PROVE  LET K == Incident(u, Verdict("crash", None, s), x)
           IN  Told(K, Known(<<u, "signal", s>>, K))
<1> DEFINE v == Verdict("crash", None, s)
           k == Key(u, "crash", <<"crash", "signal", s>>)
           p == <<u, "signal", s>>
<1>1. v.kind = "crash" /\ v.signal = s
  BY DEF Verdict
<1>2. s # None
  BY ClassifyAssumption DEF None
<1> HIDE DEF v
<1>3. Signature(v, x) = <<"crash", "signal", s>>
  BY <1>1, <1>2 DEF Signature
<1>4. Incident(u, v, x) = {k}
  BY <1>1, <1>3, IncidentIs
<1>5. k.unit = p[1]
  BY DEF Key
<1>7. Faithful([problem |-> p, keys |-> {k}])
  BY DEF Faithful
<1>8. Told({k}, Known(p, {k}))
  <2> DEFINE r == [problem |-> p, keys |-> {k}]
  <2>1. Faithful(r)
    BY <1>7
  <2>2. r = [problem |-> p, keys |-> {k}]
    OBVIOUS
  <2> HIDE DEF k, p, r
  <2> QED
    BY <1>5, <2>1, <2>2, OneTold
<1> QED
  BY <1>4, <1>8 DEF v

\* A number put into a template leaves the incident as it is.
LEMMA NormalOfFill ==
    ASSUME NEW t \in Templates, NEW n \in Numbers
    PROVE  Normal(Fill(t, n)) = Cut(t)
<1> DEFINE m == IF Len(t) < Width THEN Len(t) ELSE Width
           f == Fill(t, n)
<1>1. /\ t \in Seq(STRING \ Numbers) /\ Len(t) \in Nat /\ Width \in Nat
      /\ DOMAIN t = 1..Len(t) /\ \A i \in 1..Len(t) : t[i] \in STRING \ Numbers
  BY TextAssumption
<1>2. m \in Nat /\ m <= Len(t)
  BY <1>1
<1>3. f = [i \in 1..Len(t) |-> IF t[i] = Hole THEN n ELSE t[i]]
  BY <1>1 DEF Fill
<1>4. /\ DOMAIN f = 1..Len(t)
      /\ \A i \in 1..Len(t) : f[i] = IF t[i] = Hole THEN n ELSE t[i]
  BY <1>3
<1>5. Len(f) = Len(t)
  <2> HIDE DEF f
  <2>1. f \in [1..Len(t) -> STRING \cup Numbers]
    BY <1>1, <1>3
  <2>2. f \in Seq(STRING \cup Numbers)
    BY <1>1, <2>1
  <2> QED
    BY <1>1, <1>4, <2>2
<1> HIDE DEF f
<1>6. Normal(f) = [i \in 1..m |-> IF f[i] \in Numbers THEN Hole ELSE f[i]]
  BY <1>5 DEF Normal
<1>7. \A i \in 1..m : (IF f[i] \in Numbers THEN Hole ELSE f[i]) = t[i]
  BY <1>1, <1>2, <1>4
<1>8. Normal(f) = [i \in 1..m |-> t[i]]
  BY <1>6, <1>7
<1>9. /\ Normal(f) \in Seq(STRING) /\ Len(Normal(f)) = m
      /\ \A i \in 1..m : Normal(f)[i] = t[i]
  <2>1. [i \in 1..m |-> t[i]] \in [1..m -> STRING]
    BY <1>1, <1>2
  <2> HIDE DEF m
  <2>2. Normal(f) \in [1..m -> STRING]
    BY <1>8, <2>1
  <2>3. Normal(f) \in Seq(STRING)
    BY <1>2, <2>2
  <2>4. DOMAIN Normal(f) = 1..m
    BY <2>2
  <2> QED
    BY <1>2, <1>8, <2>3, <2>4
<1>10. /\ Cut(t) \in Seq(STRING) /\ Len(Cut(t)) = m
       /\ \A i \in 1..m : Cut(t)[i] = t[i]
  <2>1. Cut(t) = SubSeq(t, 1, m)
    BY DEF Cut
  <2>2. \A i \in 1..m : t[i] \in STRING
    BY <1>1, <1>2
  <2> HIDE DEF m
  <2> QED
    BY <1>2, <2>1, <2>2, SubSeqProperties
<1> HIDE DEF m
<1>11. Normal(f) = Cut(t)
  BY <1>9, <1>10, SeqEqual
<1> QED
  BY <1>11 DEF f

LEMMA ErrorIncident ==
    ASSUME NEW u \in Units, NEW t \in Templates, NEW n \in Numbers
    PROVE  LET K == Incident(u, Verdict("error", None, None), Fill(t, n))
           IN  Told(K, Known(<<u, "error", t>>, K))
<1> DEFINE v == Verdict("error", None, None)
           x == Fill(t, n)
           c == Cut(t)
           k == Key(u, "error", <<"error">> \o c)
           p == <<u, "error", t>>
<1>1. v.kind = "error"
  BY DEF Verdict
<1>2. Normal(x) = c
  BY NormalOfFill
<1>3. c \in Seq(STRING)
  BY Cuts
<1> HIDE DEF v, x
<1>4. Signature(v, x) = <<"error">> \o Normal(x)
  BY <1>1 DEF Signature
<1>5. Incident(u, v, x) = {k}
  <2> HIDE DEF c
  <2>1. v.kind # "none"
    BY <1>1
  <2>2. Incident(u, v, x) = {Key(u, v.kind, Signature(v, x))}
    BY <2>1, IncidentIs
  <2> QED
    BY <1>1, <1>2, <1>4, <2>2
<1>6. k.unit = p[1]
  BY DEF Key
<1>8. Faithful([problem |-> p, keys |-> {k}])
  BY DEF Faithful
<1>9. Told({k}, Known(p, {k}))
  <2> DEFINE r == [problem |-> p, keys |-> {k}]
  <2>1. Faithful(r)
    BY <1>8
  <2>2. r = [problem |-> p, keys |-> {k}]
    OBVIOUS
  <2>3. k.unit = p[1]
    BY <1>6
  <2> HIDE DEF k, p, r, c
  <2> QED
    BY <2>1, <2>2, <2>3, OneTold
<1> QED
  BY <1>5, <1>9 DEF v, x

LEMMA LoopIncident ==
    ASSUME NEW u \in Units, NEW n \in Numbers
    PROVE  Told(Looping(u, n), Known(<<u, "loop">>, Looping(u, n)))
<1> DEFINE v == Verdict("restart_loop", None, None)
           x == <<"restart loop", n>>
           c == Normal(<<"restart loop", Hole>>)
           k == Key(u, "restart_loop", <<"restart_loop">> \o c)
           p == <<u, "loop">>
<1>1. v.kind = "restart_loop"
  BY DEF Verdict
<1>2. Normal(x) = c /\ c \in Seq({"restart loop", Hole})
  <2> DEFINE y == <<"restart loop", Hole>>
             m == IF 2 < Width THEN 2 ELSE Width
  <2>1. Len(x) = 2 /\ Len(y) = 2 /\ Width \in Nat
    BY TextAssumption
  <2>2. x[1] = "restart loop" /\ x[2] = n
    OBVIOUS
  <2>3. y[1] = "restart loop" /\ y[2] = Hole
    OBVIOUS
  <2>4. m \in Nat /\ \A i \in 1..m : i = 1 \/ i = 2
    BY <2>1
  <2> HIDE DEF x, y
  <2>5. /\ Normal(x) = [i \in 1..m |-> IF x[i] \in Numbers THEN Hole ELSE x[i]]
        /\ Normal(y) = [i \in 1..m |-> IF y[i] \in Numbers THEN Hole ELSE y[i]]
    BY <2>1 DEF Normal
  <2> HIDE DEF m
  <2>6. \A i \in 1..m : /\ (IF x[i] \in Numbers THEN Hole ELSE x[i])
                              = (IF y[i] \in Numbers THEN Hole ELSE y[i])
                        /\ (IF y[i] \in Numbers THEN Hole ELSE y[i])
                              \in {"restart loop", Hole}
    BY <2>2, <2>3, <2>4
  <2>7. Normal(x) = Normal(y)
    BY <2>5, <2>6
  <2>8. Normal(y) \in [1..m -> {"restart loop", Hole}]
    BY <2>5, <2>6
  <2>9. Normal(y) \in Seq({"restart loop", Hole})
    <3> DEFINE z == Normal(y)
               S == {"restart loop", Hole}
    <3>1. m \in Nat /\ z \in [1..m -> S]
      BY <2>4, <2>8
    <3> HIDE DEF z, S
    <3>2. z \in Seq(S)
      BY <3>1
    <3> QED
      BY <3>2 DEF z, S
  <2> QED
    BY <2>7, <2>9 DEF y
<1> HIDE DEF v, x
<1>4. Signature(v, x) = <<"restart_loop">> \o Normal(x)
  BY <1>1 DEF Signature
<1>5. Incident(u, v, x) = {k}
  <2> HIDE DEF c
  <2>1. v.kind # "none"
    BY <1>1
  <2>2. Incident(u, v, x) = {Key(u, v.kind, Signature(v, x))}
    BY <2>1, IncidentIs
  <2> QED
    BY <1>1, <1>2, <1>4, <2>2
<1>6. k.unit = p[1]
  <2> HIDE DEF c
  <2> QED
    BY DEF Key
<1>8. Faithful([problem |-> p, keys |-> {k}])
  <2> HIDE DEF c
  <2>1. /\ [problem |-> p, keys |-> {k}].problem = <<u, "loop">>
        /\ [problem |-> p, keys |-> {k}].keys
             = {Key(u, "restart_loop", <<"restart_loop">> \o c)}
    OBVIOUS
  <2> HIDE DEF k, p
  <2> QED
    BY <2>1 DEF Faithful, c
<1>9. Told({k}, Known(p, {k}))
  <2> DEFINE r == [problem |-> p, keys |-> {k}]
  <2>1. Faithful(r)
    BY <1>8
  <2>2. r = [problem |-> p, keys |-> {k}]
    OBVIOUS
  <2>3. k.unit = p[1]
    BY <1>6
  <2> HIDE DEF k, p, r, c
  <2> QED
    BY <2>1, <2>2, <2>3, OneTold
<1>10. Looping(u, n) = {k}
  BY <1>5 DEF Looping, v, x
<1> QED
  BY <1>9, <1>10

----------------------------------------------------------------------------
(* What each message says. *)

ExitOf(c) ==
    [code |-> IF c.how = "oom" THEN "killed" ELSE c.how, status |-> c.status]

LEMMA ExitFields ==
    ASSUME NEW u, NEW c, NEW m, m = ExitMessage(u, c)
    PROVE  /\ m.ident = "systemd" /\ m.about = u /\ ~m.segfault
           /\ (u \in OomNamed) <=> m.oom
           /\ m.exit = ExitOf(c)
<1> DEFINE b == u \in OomNamed
<1>1. m.oom = b
  BY DEF ExitMessage, Plain, BySystemd
<1>2. (u \in OomNamed) <=> b
  OBVIOUS
<1> HIDE DEF b
<1> QED
  BY <1>1, <1>2 DEF ExitMessage, ExitOf, Plain, BySystemd

LEMMA ResultFields ==
    ASSUME NEW u, NEW c, NEW m, m = ResultMessage(u, c)
    PROVE  /\ m.ident = "systemd" /\ m.about = u /\ ~m.segfault
           /\ (u \in OomNamed) <=> m.oom
           /\ m.exit = NoExit /\ m.result = ResultOf(c)
<1> DEFINE b == u \in OomNamed
<1>1. m.oom = b
  BY DEF ResultMessage, Plain, BySystemd
<1>2. (u \in OomNamed) <=> b
  OBVIOUS
<1> HIDE DEF b
<1> QED
  BY <1>1, <1>2 DEF ResultMessage, Plain, BySystemd

LEMMA EnteredFields ==
    ASSUME NEW u, NEW m, m = EnteredFailed(u)
    PROVE  /\ m.ident = "systemd" /\ m.about = u /\ ~m.segfault
           /\ u \notin OomNamed => ~m.oom
           /\ m.exit = NoExit /\ m.result = "none" /\ m.entered
<1> DEFINE b == u \in OomNamed
<1>1. m.oom = b
  BY DEF EnteredFailed, Plain, BySystemd
<1>2. u \notin OomNamed => ~b
  OBVIOUS
<1> HIDE DEF b
<1> QED
  BY <1>1, <1>2 DEF EnteredFailed, Plain, BySystemd

LEMMA ErrorFields ==
    ASSUME NEW u, NEW prio, NEW t, NEW n, NEW m, m = ErrorText(u, prio, t, n)
    PROVE  /\ m.ident = "app" /\ m.own = u /\ m.text = Fill(t, n)
           /\ m.priority = prio
           /\ ~m.oom /\ ~m.segfault
           /\ m.exit = NoExit /\ m.result = "none" /\ ~m.entered
  BY DEF ErrorText, Plain

LEMMA MarkerFields ==
    ASSUME NEW u, NEW m, m = RecoveryMarker(u)
    PROVE  /\ m.ident = "app" /\ m.own = u /\ m.priority = 5
           /\ u \notin OomNamed => ~m.oom
           /\ ~m.segfault
           /\ m.exit = NoExit /\ m.result = "none" /\ ~m.entered
<1> DEFINE b == u \in OomNamed
<1>1. m.oom = b
  BY DEF RecoveryMarker, Plain
<1>2. u \notin OomNamed => ~b
  OBVIOUS
<1> HIDE DEF b
<1> QED
  BY <1>1, <1>2 DEF RecoveryMarker, Plain

LEMMA KernelFields ==
    /\ KernelOom.ident = "kernel" /\ KernelOom.own = Nobody
    /\ KernelOom.oom
    /\ KernelSegfault.ident = "kernel" /\ KernelSegfault.own = Nobody
    /\ ~KernelSegfault.oom /\ KernelSegfault.segfault
  BY DEF KernelOom, KernelSegfault, Plain

\* A message of systemd is about the unit it names.
LEMMA PickedUnit ==
    ASSUME NEW m
    PROVE  /\ m.ident = "systemd" /\ m.about \in Units => PickUnit(m) = m.about
           /\ m.ident # "systemd" => PickUnit(m) = m.own
  BY ClassifyAssumption DEF PickUnit

LEMMA LoggedUnit ==
    ASSUME NEW m
    PROVE  \A i \in Logged(m) : i.unit = PickUnit(m)
  BY IncidentIs DEF Logged

LEMMA CauseFields ==
    ASSUME NEW c \in Causes
    PROVE  \/ c.how = "exited" /\ c.status \in Codes
              /\ c = [how |-> "exited", status |-> c.status]
           \/ c.how \in {"killed", "dumped"} /\ c.status \in Signals
           \/ c.how = "oom" /\ c.status \in Signals
           \/ c.how = "timeout" /\ c.status = 0
  BY DEF Causes

ProblemsOf(u, c, K) ==
    IF c = [how |-> "exited", status |-> 0] THEN {} ELSE Known(Problem(u, c), K)

LEMMA ProblemUnit == \A u, c : Problem(u, c)[1] = u
  BY DEF Problem

\* "Main process exited" tells what a death is.
LEMMA ExitTold ==
    ASSUME NEW u \in Units, NEW c \in Causes, c.how # "timeout"
    PROVE  LET K == Logged(ExitMessage(u, c)) IN Told(K, ProblemsOf(u, c, K))
<1> DEFINE m == ExitMessage(u, c)
           K == Logged(m)
           x == m.exit
<1>1. /\ m.ident = "systemd" /\ m.about = u /\ ~m.segfault
      /\ u \notin OomNamed => ~m.oom
      /\ x = ExitOf(c)
  <2>1. m = ExitMessage(u, c)
    OBVIOUS
  <2> HIDE DEF m
  <2> QED
    BY <2>1, ExitFields
<1> HIDE DEF m
<1>2. PickUnit(m) = u
  BY <1>1, PickedUnit
<1>3. CASE Named(u)
  <2>1. \A i \in K : i.unit = u
    BY <1>2, LoggedUnit
  <2> DEFINE p == Problem(u, c)
  <2>2. p[1] = u
    BY ProblemUnit
  <2> HIDE DEF p, K
  <2>3. Told(K, Known(p, K)) /\ Told(K, {})
    BY <1>3, <2>1, <2>2, NamedTold
  <2> QED
    BY <2>3 DEF ProblemsOf, p, m, K
<1>4. CASE ~Named(u)
  <2>1. ~m.oom
    BY <1>1, <1>4 DEF Named
  <2>2. /\ x.code = (IF c.how = "oom" THEN "killed" ELSE c.how)
        /\ x.status = c.status
    BY <1>1 DEF ExitOf
  <2>3. x # NoExit
    <3>1. x.code # "none"
      BY <2>2, CauseFields
    <3> HIDE DEF x
    <3> QED
      BY <3>1 DEF NoExit
  <2>4. Detect(m) = DetectExit(x)
    BY <1>1, <2>1, <2>3 DEF Detect
  <2>5. K = Incident(u, DetectExit(x), m.text)
    BY <1>2, <2>4 DEF Logged
  <2> HIDE DEF x, K
  <2>6. CASE c = [how |-> "exited", status |-> 0]
    <3>1. c.how = "exited" /\ c.status = 0
      BY <2>6
    <3>2. DetectExit(x) = Verdict("none", 0, None)
      BY <2>2, <3>1 DEF DetectExit
    <3>3. Verdict("none", 0, None).kind = "none"
      BY DEF Verdict
    <3>4. K = {}
      BY <2>5, <3>2, <3>3, IncidentIs
    <3> QED
      BY <2>6, <3>4, ToldEmpty DEF ProblemsOf, m, K
  <2>7. CASE c.how = "exited" /\ c # [how |-> "exited", status |-> 0]
    <3>1. c.status \in Codes \ {0}
      BY <2>7, CauseFields
    <3>2. DetectExit(x) = Verdict("crash", c.status, None)
      BY <2>2, <2>7, <3>1 DEF DetectExit
    <3>3. Told(K, Known(<<u, "exit", c.status>>, K))
      BY <2>5, <3>1, <3>2, ExitIncident
    <3> QED
      BY <2>7, <3>3 DEF ProblemsOf, Problem, m, K
  <2>8. CASE c.how # "exited"
    <3>1. c.status \in Signals
      BY <2>8, CauseFields
    <3>2. DetectExit(x) = Verdict("crash", None, c.status)
      BY <2>2, <2>8, CauseFields DEF DetectExit
    <3>3. Told(K, Known(<<u, "signal", c.status>>, K))
      BY <2>5, <3>1, <3>2, SignalIncident
    <3>4. c # [how |-> "exited", status |-> 0]
      BY <2>8
    <3> QED
      BY <2>8, <3>3, <3>4 DEF ProblemsOf, Problem, m, K
  <2> QED
    BY <2>6, <2>7, <2>8
<1> QED
  BY <1>3, <1>4

\* "Failed with result" tells the OOM killer, or nothing but the death.
LEMMA ResultTold ==
    ASSUME NEW u \in Units, NEW c \in Causes, ResultOf(c) # "success"
    PROVE  LET K == Logged(ResultMessage(u, c))
           IN  Told(K, Known(ResultProblem(u, c), K))
<1> DEFINE m == ResultMessage(u, c)
           K == Logged(m)
<1>1. /\ m.ident = "systemd" /\ m.about = u /\ ~m.segfault
      /\ u \notin OomNamed => ~m.oom
      /\ m.exit = NoExit /\ m.result = ResultOf(c)
  <2>1. m = ResultMessage(u, c)
    OBVIOUS
  <2> HIDE DEF m
  <2> QED
    BY <2>1, ResultFields
<1> HIDE DEF m
<1>2. PickUnit(m) = u
  BY <1>1, PickedUnit
<1>3. CASE Named(u)
  <2>1. \A i \in K : i.unit = u
    BY <1>2, LoggedUnit
  <2> DEFINE p == ResultProblem(u, c)
  <2>2. p[1] = u
    BY DEF ResultProblem
  <2> HIDE DEF p, K
  <2>3. Told(K, Known(p, K))
    BY <1>3, <2>1, <2>2, NamedTold
  <2> QED
    BY <2>3 DEF m, K, p
<1>4. CASE ~Named(u)
  <2>1. ~m.oom
    BY <1>1, <1>4 DEF Named
  <2>2. m.result # "none"
    BY <1>1 DEF ResultOf
  <2> DEFINE w == IF c.how = "oom" THEN "oom" ELSE "died"
  <2>3. w \in Words /\ ResultProblem(u, c) = <<u, w>>
    BY DEF Words, ResultProblem
  <2>4. c.how = "oom" <=> ResultOf(c) = "oom-kill"
    BY DEF ResultOf
  <2>5. Detect(m) = Verdict(KindOf(w), None, None)
    BY <1>1, <2>1, <2>2, <2>4 DEF Detect, KindOf
  <2>6. K = Incident(u, Verdict(KindOf(w), None, None), m.text)
    BY <1>2, <2>5 DEF Logged
  <2> HIDE DEF w, K
  <2>7. Told(K, Known(<<u, w>>, K))
    BY <2>3, <2>6, WordIncident
  <2> QED
    BY <2>3, <2>7 DEF m, K
<1> QED
  BY <1>3, <1>4

\* The monitor tells a death as one of the lines of systemd does, or that the
\* unit failed.
LEMMA MonitorTold ==
    ASSUME NEW u \in Units, NEW c \in Causes, ResultOf(c) # "success"
    PROVE  LET K == Monitored(u, c)
           IN  Told(K, Known(MonitorProblem(u, c), K))
<1> DEFINE p == Shown(c)
           K == Monitored(u, c)
<1>1. K = Incident(u, FailureEvent(p), <<>>)
  BY DEF Monitored
<1>2. /\ p.result = ResultOf(c) /\ p.status = c.status
      /\ p.code = (CASE c.how = "exited" -> 1
                     [] c.how = "dumped" -> 3
                     [] c.how = "timeout" -> 0
                     [] OTHER -> 2)
  BY DEF Shown
<1>3. \A s \in Signals \cup {11} : s # 0
  BY ClassifyAssumption
<1> HIDE DEF p
<1>4. CASE c.how = "exited"
  <2>1. c.status \in Codes /\ c.status # 0
    BY <1>4, CauseFields DEF ResultOf
  <2>2. p.result # "oom-kill" /\ p.code = 1
    BY <1>2, <1>4, <2>1 DEF ResultOf
  <2>3. FailureEvent(p) = Verdict("crash", c.status, None)
    BY <1>2, <2>1, <2>2 DEF FailureEvent
  <2>4. Told(K, Known(<<u, "exit", c.status>>, K))
    BY <1>1, <2>1, <2>3, ExitIncident
  <2> HIDE DEF K
  <2> QED
    BY <1>4, <2>4 DEF MonitorProblem, Problem, K
<1>5. CASE c.how \in {"killed", "dumped"}
  <2>1. c.status \in Signals /\ c.status # 0
    BY <1>3, <1>5, CauseFields
  <2>2. p.result # "oom-kill" /\ p.code \in {2, 3}
    BY <1>2, <1>5 DEF ResultOf
  <2>3. FailureEvent(p) = Verdict("crash", None, c.status)
    BY <1>2, <2>1, <2>2 DEF FailureEvent
  <2>4. Told(K, Known(<<u, "signal", c.status>>, K))
    BY <1>1, <2>1, <2>3, SignalIncident
  <2> HIDE DEF K
  <2> QED
    BY <1>5, <2>4 DEF MonitorProblem, Problem, K
<1>6. CASE c.how \in {"oom", "timeout"}
  <2> DEFINE w == IF c.how = "oom" THEN "oom" ELSE "failed"
  <2>1. w \in Words /\ MonitorProblem(u, c) = <<u, w>>
    BY <1>6 DEF Words, MonitorProblem
  <2>2. FailureEvent(p) = Verdict(KindOf(w), None, None)
    BY <1>2, <1>6 DEF FailureEvent, ResultOf, KindOf
  <2>3. K = Incident(u, Verdict(KindOf(w), None, None), <<>>)
    BY <1>1, <2>2
  <2> HIDE DEF w, K
  <2>4. Told(K, Known(<<u, w>>, K))
    BY <2>1, <2>3, WordIncident
  <2> QED
    BY <2>1, <2>4 DEF K
<1> QED
  BY <1>4, <1>5, <1>6, CauseFields

----------------------------------------------------------------------------
(* What else is said. *)

\* Of a unit whose name is the OOM killer's, nothing is told.
LEMMA NamedSay ==
    ASSUME NEW K, NEW u, Named(u), \A i \in K : i.unit = u
    PROVE  Told(K, {})
<1> DEFINE p == <<u>>
<1>1. p[1] = u
  OBVIOUS
<1> HIDE DEF p
<1> QED
  BY <1>1, NamedTold

LEMMA ChatterTold ==
    ASSUME NEW u \in Units, NEW prio \in Noise,
           NEW t \in Templates, NEW n \in Numbers
    PROVE  LET K == Logged(ErrorText(u, prio, t, n))
           IN  Told(K, IF prio <= ErrorPriority THEN Known(<<u, "error", t>>, K)
                       ELSE {})
<1> DEFINE m == ErrorText(u, prio, t, n)
           K == Logged(m)
           x == Fill(t, n)
<1>1. /\ m.ident = "app" /\ m.own = u /\ m.text = x /\ m.priority = prio
      /\ ~m.oom /\ ~m.segfault
      /\ m.exit = NoExit /\ m.result = "none" /\ ~m.entered
  <2>1. m = ErrorText(u, prio, t, n)
    OBVIOUS
  <2> HIDE DEF m
  <2> QED
    BY <2>1, ErrorFields
<1> HIDE DEF m, x
<1>2. PickUnit(m) = u
  BY <1>1, PickedUnit
<1>3. CASE prio <= ErrorPriority
  <2>1. Detect(m) = Verdict("error", None, None)
    BY <1>1, <1>3 DEF Detect
  <2>2. K = Incident(u, Verdict("error", None, None), Fill(t, n))
    BY <1>1, <1>2, <2>1 DEF Logged, x
  <2> HIDE DEF K
  <2>3. Told(K, Known(<<u, "error", t>>, K))
    BY <2>2, ErrorIncident
  <2> QED
    BY <1>3, <2>3 DEF K, m
<1>4. CASE ~(prio <= ErrorPriority)
  <2>1. Detect(m).kind = "none"
    BY <1>1, <1>4 DEF Detect, Verdict
  <2>2. K = {}
    BY <2>1, IncidentIs DEF Logged
  <2> QED
    BY <1>4, <2>2, ToldEmpty DEF m
<1> QED
  BY <1>3, <1>4

LEMMA EnteredTold ==
    ASSUME NEW u \in Units
    PROVE  LET K == Logged(EnteredFailed(u))
           IN  Told(K, Known(<<u, "failed">>, K))
<1> DEFINE m == EnteredFailed(u)
           K == Logged(m)
<1>1. /\ m.ident = "systemd" /\ m.about = u /\ ~m.segfault
      /\ u \notin OomNamed => ~m.oom
      /\ m.exit = NoExit /\ m.result = "none" /\ m.entered
  <2>1. m = EnteredFailed(u)
    OBVIOUS
  <2> HIDE DEF m
  <2> QED
    BY <2>1, EnteredFields
<1> HIDE DEF m
<1>2. PickUnit(m) = u
  BY <1>1, PickedUnit
<1>3. CASE Named(u)
  <2>1. \A i \in K : i.unit = u
    BY <1>2, LoggedUnit
  <2> DEFINE p == <<u, "failed">>
  <2>2. p[1] = u
    OBVIOUS
  <2> HIDE DEF p, K
  <2>3. Told(K, Known(p, K))
    BY <1>3, <2>1, <2>2, NamedTold
  <2> QED
    BY <2>3 DEF m, K, p
<1>4. CASE ~Named(u)
  <2>1. ~m.oom
    BY <1>1, <1>4 DEF Named
  <2>2. KindOf("failed") = "failed" /\ "failed" \in Words
    BY DEF KindOf, Words
  <2>3. Detect(m) = Verdict("failed", None, None)
    BY <1>1, <2>1 DEF Detect
  <2>4. K = Incident(u, Verdict(KindOf("failed"), None, None), m.text)
    BY <1>2, <2>2, <2>3 DEF Logged
  <2> HIDE DEF K
  <2>5. Told(K, Known(<<u, "failed">>, K))
    BY <2>2, <2>4, WordIncident
  <2> QED
    BY <2>5 DEF m, K
<1> QED
  BY <1>3, <1>4

\* A notice of recovery is no problem, if errors begin above it.
LEMMA RecoverTold ==
    ASSUME NEW u \in Units
    PROVE  Told(Logged(RecoveryMarker(u)), {})
<1> DEFINE m == RecoveryMarker(u)
           K == Logged(m)
<1>1. /\ m.ident = "app" /\ m.own = u /\ m.priority = 5
      /\ u \notin OomNamed => ~m.oom
      /\ ~m.segfault
      /\ m.exit = NoExit /\ m.result = "none" /\ ~m.entered
  <2>1. m = RecoveryMarker(u)
    OBVIOUS
  <2> HIDE DEF m
  <2> QED
    BY <2>1, MarkerFields
<1> HIDE DEF m
<1>2. PickUnit(m) = u
  BY <1>1, PickedUnit
<1>3. CASE Named(u)
  <2>1. \A i \in K : i.unit = u
    BY <1>2, LoggedUnit
  <2> HIDE DEF K
  <2>2. Told(K, {})
    BY <1>3, <2>1, NamedSay
  <2> QED
    BY <2>2 DEF m, K
<1>4. CASE ~Named(u)
  <2>1. ~m.oom
    BY <1>1, <1>4 DEF Named
  <2>2. ASSUME ErrorPriority < 5 PROVE Unnamed(K) = {}
    <3>1. ~(5 <= ErrorPriority)
      BY <2>2, ClassifyAssumption
    <3>2. Detect(m).kind = "none"
      BY <1>1, <2>1, <3>1 DEF Detect, Verdict
    <3>3. K = {}
      BY <3>2, IncidentIs DEF Logged
    <3> QED
      BY <3>3 DEF Unnamed
  <2> QED
    BY <2>2, NothingTold DEF m
<1> QED
  BY <1>3, <1>4

LEMMA OomTold ==
    LET K == Logged(KernelOom) IN Told(K, Known(<<Nobody, "oom">>, K))
<1> DEFINE K == Logged(KernelOom)
<1>1. PickUnit(KernelOom) = Nobody
  BY KernelFields DEF PickUnit
<1>2. Detect(KernelOom) = Verdict("oom", None, None)
  BY KernelFields DEF Detect
<1>3. KindOf("oom") = "oom" /\ "oom" \in Words
  BY DEF KindOf, Words
<1>4. K = Incident(Nobody, Verdict(KindOf("oom"), None, None), KernelOom.text)
  BY <1>1, <1>2, <1>3 DEF Logged
<1>5. Told(K, Known(<<Nobody, "oom">>, K))
  <2> HIDE DEF K
  <2> QED
    BY <1>3, <1>4, WordIncident
<1> QED
  BY <1>5

LEMMA SegfaultTold ==
    LET K == Logged(KernelSegfault)
    IN  Told(K, Known(<<Nobody, "signal", 11>>, K))
<1> DEFINE K == Logged(KernelSegfault)
<1>1. PickUnit(KernelSegfault) = Nobody
  BY KernelFields DEF PickUnit
<1>2. Detect(KernelSegfault) = Verdict("crash", None, 11)
  BY KernelFields DEF Detect
<1>3. K = Incident(Nobody, Verdict("crash", None, 11), KernelSegfault.text)
  BY <1>1, <1>2 DEF Logged
<1>4. Told(K, Known(<<Nobody, "signal", 11>>, K))
  <2> HIDE DEF K
  <2> QED
    BY <1>3, SignalIncident
<1> QED
  BY <1>4

----------------------------------------------------------------------------
(* The invariant. *)

LEMMA GroupedInit == Init => Grouped
  BY ToldEmpty DEF Init, Grouped, Reporting

LEMMA OneSaid ==
    ASSUME NEW K, NEW p
    PROVE  /\ UNION {Known(q, K) : q \in {p}} = Known(p, K)
           /\ UNION {Known(q, K) : q \in {}} = {}
  OBVIOUS

LEMMA SayKept ==
    ASSUME Grouped, NEW K, NEW P, Say(K, P),
           Told(K, UNION {Known(p, K) : p \in P})
    PROVE  Grouped'
<1>1. /\ incidents' = incidents \cup K
      /\ reported' = reported \cup UNION {Known(p, K) : p \in P}
      /\ UNCHANGED <<dead, cause, pending>>
  BY DEF Say, Tell
<1>2. Told(incidents \cup K, reported \cup UNION {Known(p, K) : p \in P})
  BY ToldTogether DEF Grouped
<1>3. Told(incidents', reported')
  BY <1>1, <1>2
<1> QED
  BY <1>1, <1>3 DEF Grouped, Reporting, Told, Ours, Unnamed, Faithful

LEMMA ReportKept ==
    ASSUME Grouped, NEW what, NEW K, NEW P, Report(what, K, P),
           Told(K, UNION {Known(p, K) : p \in P})
    PROVE  Grouped'
<1>1. /\ incidents' = incidents \cup K
      /\ reported' = reported \cup UNION {Known(p, K) : p \in P}
      /\ pending' = pending \ {what} /\ UNCHANGED <<dead, cause>>
  BY DEF Report, Tell
<1>2. Told(incidents \cup K, reported \cup UNION {Known(p, K) : p \in P})
  BY ToldTogether DEF Grouped
<1>3. Told(incidents', reported')
  BY <1>1, <1>2
<1> QED
  BY <1>1, <1>3 DEF Grouped, Reporting, Told, Ours, Unnamed, Faithful

LEMMA GroupedNext == Grouped /\ [Next]_vars => Grouped'
<1> SUFFICES ASSUME Grouped, [Next]_vars PROVE Grouped'
  OBVIOUS
<1>1. ASSUME NEW u \in Units, Die(u) PROVE Grouped'
  <2>1. /\ UNCHANGED <<incidents, reported>> /\ dead' \in Units
        /\ cause' \in Causes
        /\ "exit" \in pending' => cause'.how # "timeout"
    BY <1>1 DEF Die
  <2> QED
    BY <2>1 DEF Grouped, Reporting, Told, Ours, Unnamed, Faithful
<1>2. ASSUME NEW u \in Units, Chatter(u) PROVE Grouped'
  <2>1. PICK prio \in Noise, t \in Templates, n \in Numbers :
          Say(Logged(ErrorText(u, prio, t, n)),
              IF prio <= ErrorPriority THEN {<<u, "error", t>>} ELSE {})
    BY <1>2 DEF Chatter
  <2> DEFINE K == Logged(ErrorText(u, prio, t, n))
             p == <<u, "error", t>>
             P == IF prio <= ErrorPriority THEN {p} ELSE {}
  <2>2. Told(K, IF prio <= ErrorPriority THEN Known(p, K) ELSE {})
    BY ChatterTold
  <2>3. Say(K, P)
    BY <2>1
  <2> HIDE DEF K, p
  <2>4. Told(K, UNION {Known(q, K) : q \in P})
    BY <2>2, OneSaid
  <2> HIDE DEF P
  <2> QED
    BY <2>3, <2>4, SayKept
<1>3. ASSUME NEW u \in Units, EnterFailed(u) PROVE Grouped'
  <2> DEFINE K == Logged(EnteredFailed(u))
             p == <<u, "failed">>
  <2>1. Say(K, {p}) /\ Told(K, Known(p, K))
    BY <1>3, EnteredTold DEF EnterFailed
  <2> HIDE DEF K, p
  <2>2. Told(K, UNION {Known(q, K) : q \in {p}})
    BY <2>1, OneSaid
  <2> QED
    BY <2>1, <2>2, SayKept
<1>4. ASSUME NEW u \in Units, Loop(u) PROVE Grouped'
  <2>1. PICK n \in Numbers : Say(Looping(u, n), {<<u, "loop">>})
    BY <1>4 DEF Loop
  <2> DEFINE K == Looping(u, n)
             p == <<u, "loop">>
  <2>2. Say(K, {p}) /\ Told(K, Known(p, K))
    BY <2>1, LoopIncident
  <2> HIDE DEF K, p
  <2>3. Told(K, UNION {Known(q, K) : q \in {p}})
    BY <2>2, OneSaid
  <2> QED
    BY <2>2, <2>3, SayKept
<1>5. ASSUME NEW u \in Units, Recover(u) PROVE Grouped'
  <2> DEFINE K == Logged(RecoveryMarker(u))
  <2>1. Say(K, {}) /\ Told(K, {})
    BY <1>5, RecoverTold DEF Recover
  <2> HIDE DEF K
  <2> QED
    BY <2>1, OneSaid, SayKept
<1>6. CASE Kernel
  <2>1. CASE Say(Logged(KernelOom), {<<Nobody, "oom">>})
    <3> DEFINE K == Logged(KernelOom)
               p == <<Nobody, "oom">>
    <3>1. Say(K, {p}) /\ Told(K, Known(p, K))
      BY <2>1, OomTold
    <3> HIDE DEF K, p
    <3>2. Told(K, UNION {Known(q, K) : q \in {p}})
      BY <3>1, OneSaid
    <3> QED
      BY <3>1, <3>2, SayKept
  <2>2. CASE Say(Logged(KernelSegfault), {<<Nobody, "signal", 11>>})
    <3> DEFINE K == Logged(KernelSegfault)
               p == <<Nobody, "signal", 11>>
    <3>1. Say(K, {p}) /\ Told(K, Known(p, K))
      BY <2>2, SegfaultTold
    <3> HIDE DEF K, p
    <3>2. Told(K, UNION {Known(q, K) : q \in {p}})
      BY <3>1, OneSaid
    <3> QED
      BY <3>1, <3>2, SayKept
  <2> QED
    BY <1>6, <2>1, <2>2 DEF Kernel
<1>7. CASE ReportExit
  <2> DEFINE K == Logged(ExitMessage(dead, cause))
             none == cause = [how |-> "exited", status |-> 0]
             p == Problem(dead, cause)
             P == IF none THEN {} ELSE {p}
  <2>1. Report("exit", K, P)
    BY <1>7 DEF ReportExit
  <2>2. "exit" \in pending
    BY <2>1 DEF Report
  <2>3. dead \in Units /\ cause \in Causes /\ cause.how # "timeout"
    BY <2>2 DEF Grouped, Reporting
  <2>4. Told(K, IF none THEN {} ELSE Known(p, K))
    BY <2>3, ExitTold DEF ProblemsOf
  <2> HIDE DEF K, p, none
  <2>5. Told(K, UNION {Known(q, K) : q \in P})
    BY <2>4, OneSaid
  <2> HIDE DEF P
  <2> QED
    BY <2>1, <2>5, ReportKept
<1>8. CASE ReportResult
  <2>1. "result" \in pending
    BY <1>8 DEF ReportResult, Report
  <2>2. dead \in Units /\ cause \in Causes
    BY <2>1 DEF Grouped, Reporting
  <2>3. CASE Report("result", {}, {})
    BY <2>3, ToldEmpty, OneSaid, ReportKept
  <2>4. CASE /\ ResultOf(cause) # "success"
             /\ Report("result", Logged(ResultMessage(dead, cause)),
                       {ResultProblem(dead, cause)})
    <3> DEFINE K == Logged(ResultMessage(dead, cause))
               p == ResultProblem(dead, cause)
    <3>1. Report("result", K, {p}) /\ Told(K, Known(p, K))
      BY <2>2, <2>4, ResultTold
    <3> HIDE DEF K, p
    <3>2. Told(K, UNION {Known(q, K) : q \in {p}})
      BY <3>1, OneSaid
    <3> QED
      BY <3>1, <3>2, ReportKept
  <2> QED
    BY <1>8, <2>3, <2>4 DEF ReportResult
<1>9. CASE ReportMonitor
  <2> DEFINE K == Monitored(dead, cause)
             p == MonitorProblem(dead, cause)
  <2>1. Report("monitor", K, {p}) /\ ResultOf(cause) # "success"
    BY <1>9 DEF ReportMonitor
  <2>2. dead \in Units /\ cause \in Causes
    BY <2>1 DEF Report, Grouped, Reporting
  <2>3. Told(K, Known(p, K))
    BY <2>1, <2>2, MonitorTold
  <2> HIDE DEF K, p
  <2>4. Told(K, UNION {Known(q, K) : q \in {p}})
    BY <2>3, OneSaid
  <2> QED
    BY <2>1, <2>4, ReportKept
<1>10. CASE NotSeen
  <2>1. Report("monitor", {}, {})
    BY <1>10 DEF NotSeen
  <2> QED
    BY <2>1, ToldEmpty, OneSaid, ReportKept
<1>11. CASE UNCHANGED vars
  BY <1>11 DEF vars, Grouped, Reporting, Told, Ours, Unnamed, Faithful
<1> QED
  BY <1>1, <1>2, <1>3, <1>4, <1>5, <1>6, <1>7, <1>8, <1>9, <1>10, <1>11
  DEF Next

LEMMA OneKey == \A r : Faithful(r) => \E k : r.keys = {k}
  BY DEF Faithful

\* Two reports make the same incident exactly if they tell the same problem, by
\* whichever of the texts of systemd, of the kernel, of the service or by the
\* monitor, and in whatever order; what tells none makes none.  A death may be
\* told as two problems: see DeathsMakeTwo (classify, _signature,
\* _failure_event, _pick_unit).
THEOREM ProblemsAreGrouped == Spec => []GroupsAsTold
<1>1. Grouped => GroupsAsTold
  <2> SUFFICES ASSUME Grouped PROVE GroupsAsTold
    OBVIOUS
  <2>1. \A r \in Ours(reported) : Faithful(r)
    BY DEF Grouped, Told
  <2>2. \A r \in Ours(reported) : Cardinality(r.keys) = 1
    BY <2>1, OneKey, FS_Singleton
  <2>3. \A r, q \in Ours(reported) :
          r.problem = q.problem <=> r.keys = q.keys
    BY <2>1, OneToOne
  <2>4. ErrorPriority < 5 =>
          {i \in incidents : ~Named(i.unit)}
            = UNION {r.keys : r \in Ours(reported)}
    BY DEF Grouped, Told, Unnamed
  <2> QED
    BY <2>2, <2>3, <2>4 DEF GroupsAsTold, Ours
<1>2. Init => Grouped
  BY GroupedInit
<1>3. Grouped /\ [Next]_vars => Grouped'
  BY GroupedNext
<1> QED
  BY <1>1, <1>2, <1>3, PTL DEF Spec

----------------------------------------------------------------------------
(* The incidents of a death. *)

\* All its reports can make.
DeathKeys(u, c) ==
    (IF c.how = "timeout" THEN {} ELSE Logged(ExitMessage(u, c)))
    \cup (IF ResultOf(c) = "success" THEN {}
          ELSE Logged(ResultMessage(u, c)) \cup Monitored(u, c))

\* What is told of a unit not named like the OOM killer is one incident, that
\* of the problem.
LEMMA KeyOfProblem ==
    ASSUME NEW p, ~Named(p[1]), NEW K, Told(K, Known(p, K))
    PROVE  /\ Faithful([problem |-> p, keys |-> K])
           /\ \E k : K = {k}
<1> DEFINE r == [problem |-> p, keys |-> K]
<1>1. r.problem = p /\ r.keys = K
  OBVIOUS
<1>2. Known(p, K) = {r}
  BY DEF Known
<1> HIDE DEF r
<1>3. Faithful(r)
  BY <1>1, <1>2 DEF Told, Ours
<1>4. \E k : K = {k}
  BY <1>1, <1>3, OneKey
<1> QED
  BY <1>3, <1>4 DEF r

LEMMA SameKey ==
    ASSUME NEW p, ~Named(p[1]), NEW K, Told(K, Known(p, K)),
           NEW L, Told(L, Known(p, L))
    PROVE  K = L
<1> DEFINE r == [problem |-> p, keys |-> K]
           q == [problem |-> p, keys |-> L]
<1>1. /\ Faithful(r) /\ Faithful(q)
      /\ r.problem = p /\ q.problem = p /\ r.keys = K /\ q.keys = L
  BY KeyOfProblem
<1> HIDE DEF r, q
<1> QED
  BY <1>1, OneToOne

LEMMA CleanExit ==
    ASSUME NEW u \in Units, ~Named(u), NEW c, c = [how |-> "exited", status |-> 0]
    PROVE  Logged(ExitMessage(u, c)) = {}
<1> DEFINE m == ExitMessage(u, c)
<1>1. m = ExitMessage(u, c)
  OBVIOUS
<1> HIDE DEF m
<1>2. ~m.oom /\ ~m.segfault /\ m.exit = ExitOf(c)
  BY <1>1, ExitFields DEF Named
<1>3. m.exit.code = "exited" /\ m.exit.status = 0
  BY <1>2 DEF ExitOf
<1>4. m.exit # NoExit
  BY <1>3 DEF NoExit
<1>5. Detect(m) = Verdict("none", 0, None)
  BY <1>2, <1>3, <1>4 DEF Detect, DetectExit
<1>6. Detect(m).kind = "none"
  BY <1>5 DEF Verdict
<1>7. Logged(m) = {}
  BY <1>6, IncidentIs DEF Logged
<1> QED
  BY <1>1, <1>7

LEMMA TwoKeys ==
    ASSUME NEW u \in Units, NEW c \in Causes
    PROVE  \E a, b : DeathKeys(u, c) \subseteq {a, b}
<1> DEFINE E == Logged(ExitMessage(u, c))
           R == Logged(ResultMessage(u, c))
           M == Monitored(u, c)
<1>1. /\ DeathKeys(u, c) \subseteq E \cup R \cup M
      /\ c.how = "timeout" => DeathKeys(u, c) \subseteq R \cup M
      /\ ResultOf(c) = "success" => DeathKeys(u, c) \subseteq E
  BY DEF DeathKeys
<1>2. CASE Named(u)
  <2>1. \E a : E \subseteq {a} /\ R \subseteq {a}
    <3> DEFINE k == Key(u, "oom", <<"oom">>)
    <3>1. ASSUME NEW m, m.ident = "systemd", m.about = u, m.oom
          PROVE  Logged(m) = {k}
      <4>1. PickUnit(m) = u
        BY <3>1, PickedUnit
      <4>2. Detect(m) = Verdict("oom", None, None)
        BY <3>1 DEF Detect
      <4> DEFINE v == Verdict("oom", None, None)
      <4>3. v.kind = "oom"
        BY DEF Verdict
      <4> HIDE DEF v
      <4>4. Signature(v, m.text) = <<"oom">>
        BY <4>3 DEF Signature
      <4>5. Logged(m) = Incident(u, v, m.text)
        BY <4>1, <4>2 DEF Logged, v
      <4> QED
        BY <4>3, <4>4, <4>5, IncidentIs
    <3> HIDE DEF k
    <3>2. E = {k}
      <4> DEFINE m == ExitMessage(u, c)
      <4>1. m = ExitMessage(u, c)
        OBVIOUS
      <4> HIDE DEF m
      <4>2. m.ident = "systemd" /\ m.about = u /\ m.oom
        BY <1>2, <4>1, ExitFields DEF Named
      <4> QED
        BY <3>1, <4>1, <4>2
    <3>3. R = {k}
      <4> DEFINE m == ResultMessage(u, c)
      <4>1. m = ResultMessage(u, c)
        OBVIOUS
      <4> HIDE DEF m
      <4>2. m.ident = "systemd" /\ m.about = u /\ m.oom
        BY <1>2, <4>1, ResultFields DEF Named
      <4> QED
        BY <3>1, <4>1, <4>2
    <3> HIDE DEF E, R
    <3> QED
      BY <3>2, <3>3
  <2>2. \E b : M \subseteq {b}
    <3> DEFINE v == FailureEvent(Shown(c))
    <3>1. M = Incident(u, v, <<>>)
      BY DEF Monitored
    <3> HIDE DEF v, M
    <3>2. M = {} \/ M = {Key(u, v.kind, Signature(v, <<>>))}
      BY <3>1, IncidentIs
    <3> QED
      BY <3>2
  <2> HIDE DEF E, R, M
  <2>3. PICK a, b : E \subseteq {a} /\ R \subseteq {a} /\ M \subseteq {b}
    BY <2>1, <2>2
  <2>4. DeathKeys(u, c) \subseteq {a, b}
    BY <1>1, <2>3
  <2> QED
    BY <2>4
<1>3. CASE ~Named(u)
  <2> DEFINE p == Problem(u, c)
             q == ResultProblem(u, c)
             z == MonitorProblem(u, c)
  <2>1. p[1] = u /\ q[1] = u /\ z[1] = u
    BY DEF Problem, ResultProblem, MonitorProblem
  <2>2. /\ c.how # "timeout" => z \in {p, q}
    BY DEF MonitorProblem, ResultProblem
  <2>3. c.how # "timeout" => E = {} \/ Told(E, Known(p, E))
    <3>1. ASSUME c.how # "timeout" PROVE E = {} \/ Told(E, Known(p, E))
      <4>1. Told(E, ProblemsOf(u, c, E))
        BY <3>1, ExitTold
      <4>2. CASE c = [how |-> "exited", status |-> 0]
        <5>1. Told(E, {})
          BY <4>1, <4>2 DEF ProblemsOf
        <5>2. E = {}
          BY <4>2, <1>3, CleanExit
        <5> QED
          BY <5>2
      <4>3. CASE c # [how |-> "exited", status |-> 0]
        BY <4>1, <4>3 DEF ProblemsOf
      <4> QED
        BY <4>2, <4>3
    <3> QED
      BY <3>1
  <2>4. ResultOf(c) # "success" => Told(R, Known(q, R)) /\ Told(M, Known(z, M))
    BY ResultTold, MonitorTold
  <2> HIDE DEF E, R, M, p, q, z
  <2>5. c.how # "timeout" => \E a : E \subseteq {a}
    BY <1>3, <2>1, <2>3, KeyOfProblem
  <2>6. CASE ResultOf(c) = "success"
    <3>1. c.how # "timeout"
      BY <2>6 DEF ResultOf
    <3> QED
      BY <1>1, <2>5, <2>6, <3>1
  <2>7. CASE ResultOf(c) # "success" /\ c.how = "timeout"
    <3>1. (\E a : R = {a}) /\ (\E b : M = {b})
      BY <1>3, <2>1, <2>4, <2>7, KeyOfProblem
    <3>2. PICK a, b : R = {a} /\ M = {b}
      BY <3>1
    <3>3. DeathKeys(u, c) \subseteq {a, b}
      BY <1>1, <2>7, <3>2
    <3> QED
      BY <3>3
  <2>8. CASE ResultOf(c) # "success" /\ c.how # "timeout"
    <3>1. E # {} /\ z = p => M = E
      BY <1>3, <2>1, <2>3, <2>4, <2>8, SameKey
    <3>2. z = q => M = R
      BY <1>3, <2>1, <2>4, <2>8, SameKey
    <3>3. (\E b : R = {b}) /\ (\E d : M = {d})
      BY <1>3, <2>1, <2>4, <2>8, KeyOfProblem
    <3>4. PICK a, b, d : E \subseteq {a} /\ R = {b} /\ M = {d}
      BY <2>5, <2>8, <3>3
    <3>5. CASE E = {} \/ M = E
      <4>1. DeathKeys(u, c) \subseteq {b, d}
        BY <1>1, <3>4, <3>5
      <4> QED
        BY <4>1
    <3>6. CASE M = R
      <4>1. DeathKeys(u, c) \subseteq {a, b}
        BY <1>1, <3>4, <3>6
      <4> QED
        BY <4>1
    <3> QED
      BY <2>2, <2>8, <3>1, <3>2, <3>5, <3>6
  <2> QED
    BY <2>6, <2>7, <2>8
<1> QED
  BY <1>2, <1>3

\* The incidents made of a death are of its reports.
OfDeath == Reporting /\ made \subseteq DeathKeys(dead, cause)
           /\ (made # {} => dead \in Units)

LEMMA OfDeathNext == OfDeath /\ [Next]_vars => OfDeath'
<1> SUFFICES ASSUME OfDeath, [Next]_vars PROVE OfDeath'
  OBVIOUS
<1>1. ASSUME NEW u \in Units, Die(u) PROVE OfDeath'
  <2>1. /\ made' = {} /\ dead' \in Units /\ cause' \in Causes
        /\ "exit" \in pending' => cause'.how # "timeout"
    BY <1>1 DEF Die
  <2> QED
    BY <2>1 DEF OfDeath, Reporting
<1>2. ASSUME NEW K, NEW P, Say(K, P) PROVE OfDeath'
  BY <1>2 DEF Say, OfDeath, Reporting, DeathKeys
<1>3. ASSUME NEW what, NEW K, NEW P, Report(what, K, P),
             what \in {"exit", "result", "monitor"},
             K \subseteq DeathKeys(dead, cause)
      PROVE  OfDeath'
  <2>1. /\ made' = made \cup K /\ UNCHANGED <<dead, cause>>
        /\ pending' \subseteq pending /\ pending # {}
    BY <1>3 DEF Report
  <2>2. Reporting' /\ dead \in Units
    BY <2>1 DEF OfDeath, Reporting
  <2>3. made' \subseteq DeathKeys(dead, cause)
    BY <1>3, <2>1 DEF OfDeath
  <2>4. DeathKeys(dead, cause)' = DeathKeys(dead, cause)
    BY <2>1 DEF DeathKeys
  <2> QED
    BY <2>1, <2>2, <2>3, <2>4 DEF OfDeath
<1>4. CASE ReportExit
  <2>1. "exit" \in pending
    BY <1>4 DEF ReportExit, Report
  <2>2. Logged(ExitMessage(dead, cause)) \subseteq DeathKeys(dead, cause)
    BY <2>1 DEF OfDeath, Reporting, DeathKeys
  <2> QED
    BY <1>3, <1>4, <2>2 DEF ReportExit
<1>5. CASE ReportResult
  <2>1. ResultOf(cause) # "success" =>
          Logged(ResultMessage(dead, cause)) \subseteq DeathKeys(dead, cause)
    BY DEF DeathKeys
  <2> QED
    BY <1>3, <1>5, <2>1 DEF ReportResult
<1>6. CASE ReportMonitor
  <2>1. Monitored(dead, cause) \subseteq DeathKeys(dead, cause)
    BY <1>6 DEF ReportMonitor, DeathKeys
  <2> QED
    BY <1>3, <1>6, <2>1 DEF ReportMonitor
<1>7. CASE NotSeen
  BY <1>3, <1>7 DEF NotSeen
<1>8. CASE UNCHANGED vars
  BY <1>8 DEF vars, OfDeath, Reporting, DeathKeys
<1>9. CASE Kernel \/ \E u \in Units : \/ Chatter(u) \/ EnterFailed(u)
                                     \/ Loop(u) \/ Recover(u)
  <2>1. \E K, P : Say(K, P)
    BY <1>9 DEF Kernel, Chatter, EnterFailed, Loop, Recover
  <2> QED
    BY <1>2, <2>1
<1> QED
  BY <1>1, <1>4, <1>5, <1>6, <1>7, <1>8, <1>9 DEF Next

\* The reports of one death, in any order and some missing, make two incidents
\* at most: what the monitor finds is what one of the lines of systemd told
\* (_detect, _failure_event, _signature).
THEOREM DeathsMakeTwo == Spec => []DeathIsAtMostTwo
<1>1. Init => OfDeath
  BY DEF Init, OfDeath, Reporting
<1>2. OfDeath /\ [Next]_vars => OfDeath'
  BY OfDeathNext
<1>3. OfDeath => DeathIsAtMostTwo
  <2> SUFFICES ASSUME OfDeath PROVE DeathIsAtMostTwo
    OBVIOUS
  <2>1. PICK a, b : made \subseteq {a, b}
    <3>1. CASE made = {}
      BY <3>1
    <3>2. CASE made # {}
      BY <3>2, TwoKeys DEF OfDeath, Reporting
    <3> QED
      BY <3>1, <3>2
  <2>2. IsFiniteSet({a, b}) /\ Cardinality({a, b}) <= 2
    <3>1. IsFiniteSet({a}) /\ Cardinality({a}) = 1
      BY FS_Singleton
    <3>2. /\ IsFiniteSet({a} \cup {b})
          /\ Cardinality({a} \cup {b}) \in {1, 2}
      BY <3>1, FS_AddElement
    <3>3. {a, b} = {a} \cup {b}
      OBVIOUS
    <3> QED
      BY <3>2, <3>3
  <2>3. Cardinality(made) <= Cardinality({a, b}) /\ IsFiniteSet(made)
    BY <2>1, <2>2, FS_Subset
  <2>4. Cardinality(made) \in Nat /\ Cardinality({a, b}) \in Nat
    BY <2>2, <2>3, FS_CardinalityType
  <2> DEFINE x == Cardinality(made)
             y == Cardinality({a, b})
  <2>5. x <= y /\ y <= 2 /\ x \in Nat /\ y \in Nat
    BY <2>2, <2>3, <2>4
  <2> HIDE DEF x, y
  <2>6. x <= 2
    BY <2>5
  <2> QED
    BY <2>6 DEF DeathIsAtMostTwo, x
<1> QED
  BY <1>1, <1>2, <1>3, PTL DEF Spec
============================================================================
