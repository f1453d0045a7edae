------------------------ MODULE AccessControlProofs ------------------------
(***************************************************************************)
(* Proofs about the access-control round tripper.  First, what it makes of *)
(* a URL is what the API server makes of it, for any prefix; then, an      *)
(* inductive invariant that says of each request what it has been through  *)
(* by the place it is at, and of the caches that they know nothing that is *)
(* not so; from it the three properties of the run.                        *)
(***************************************************************************)
EXTENDS AccessControl, SequenceTheorems, TLAPS

(***************************************************************************)
(* What the round tripper makes of a URL.                                  *)
(***************************************************************************)
\* The path behind the prefix of the API server.
Rest(c) ==
  IF c.res = "" THEN <<"openapi", "v2">>
  ELSE (IF c.group = "" THEN <<"api", "v1">> ELSE <<"apis", c.group, "v1">>)
       \o (IF c.ns = "" THEN <<>> ELSE <<"namespaces", c.ns>>)
       \o Segment(c.res) \o Segment(c.name) \o Segment(c.sub)

\* The segments it is made of.
Segments(c) ==
  {"openapi", "v2", "api", "apis", "v1", "namespaces", c.group, c.ns, c.res, c.name, c.sub}

\* The parts that it has.
IsCore(c)     == c.group = ""
IsResource(c) == c.res # ""
Namespaced(c) == c.ns # ""
Named(c)      == c.name # ""
HasSub(c)     == c.sub # ""
Placed(c)     == NamespaceOf(c) # ""

\* Where the version ends, and where the resource is.
Stem(c)  == IF IsCore(c) THEN 2 ELSE 3
Place(c) == IF Namespaced(c) THEN Stem(c) + 3 ELSE Stem(c) + 1

\* Short paths.
LEMMA Empties ==
  ASSUME NEW X
  PROVE  <<>> \in Seq(X) /\ Len(<<>>) = 0
  OBVIOUS

LEMMA Singles ==
  ASSUME NEW X, NEW a \in X
  PROVE  <<a>> \in Seq(X) /\ Len(<<a>>) = 1 /\ <<a>>[1] = a
  OBVIOUS

LEMMA Doubles ==
  ASSUME NEW X, NEW a \in X, NEW b \in X
  PROVE  <<a, b>> \in Seq(X) /\ Len(<<a, b>>) = 2 /\ <<a, b>>[1] = a /\ <<a, b>>[2] = b
  OBVIOUS

LEMMA Triples ==
  ASSUME NEW X, NEW a \in X, NEW b \in X, NEW c \in X
  PROVE  /\ <<a, b, c>> \in Seq(X) /\ Len(<<a, b, c>>) = 3
         /\ <<a, b, c>>[1] = a /\ <<a, b, c>>[2] = b /\ <<a, b, c>>[3] = c
  OBVIOUS

\* What two joined paths look like.
LEMMA Joined ==
  ASSUME NEW X, NEW s \in Seq(X), NEW t \in Seq(X)
  PROVE  /\ s \o t \in Seq(X)
         /\ Len(s) \in Nat /\ Len(t) \in Nat /\ Len(s \o t) = Len(s) + Len(t)
         /\ \A i \in 1 .. Len(s) : (s \o t)[i] = s[i]
         /\ \A i \in 1 .. Len(t) : (s \o t)[Len(s) + i] = t[i]
  OBVIOUS

\* A segment that may be missing.
LEMMA SegmentIs ==
  ASSUME NEW X, NEW s \in X
  PROVE  /\ Segment(s) \in Seq(X)
         /\ s = "" => Len(Segment(s)) = 0
         /\ s # "" => Len(Segment(s)) = 1 /\ Segment(s)[1] = s
<1>1. CASE s = ""
  <2>1. Segment(s) = <<>>
    BY <1>1 DEF Segment
  <2>2. Segment(s) \in Seq(X) /\ Len(Segment(s)) = 0
    BY <2>1, Empties, Zenon
  <2> QED
    BY <1>1, <2>2, Zenon
<1>2. CASE s # ""
  <2>1. Segment(s) = <<s>>
    BY <1>2 DEF Segment
  <2> QED
    BY <1>2, <2>1, Singles
<1> QED
  BY <1>1, <1>2

\* The prefix of the API server goes again.
LEMMA Stripped ==
  ASSUME NEW X, NEW t \in Seq(X)
  PROVE  stripAPIPathPrefix(Prefix \o t) = t
<1> DEFINE Y == STRING \cup X
           path == Prefix \o t
<1>1. Prefix \in Seq(Y) /\ t \in Seq(Y)
  BY CallsAssumption, SeqMonotonic
<1> HIDE DEF Y
<1>2. /\ path \in Seq(Y) /\ Len(Prefix) \in Nat /\ Len(t) \in Nat /\ Len(path) = Len(Prefix) + Len(t)
      /\ \A i \in 1 .. Len(Prefix) : path[i] = Prefix[i]
      /\ \A i \in 1 .. Len(t) : path[Len(Prefix) + i] = t[i]
  BY <1>1, Joined
<1> HIDE DEF path
<1>3. SubSeq(path, 1, Len(Prefix)) = Prefix
  <2> DEFINE s == SubSeq(path, 1, Len(Prefix))
  <2>1. s \in Seq(Y) /\ Len(s) = Len(Prefix) /\ \A i \in 1 .. Len(s) : s[i] = Prefix[i]
    BY <1>1, <1>2
  <2> HIDE DEF s
  <2>2. s = Prefix
    BY <2>1, <1>1, SeqEqual
  <2> QED
    BY <2>2 DEF s
<1>4. SubSeq(path, Len(Prefix) + 1, Len(path)) = t
  <2> DEFINE s == SubSeq(path, Len(Prefix) + 1, Len(path))
  <2>1. s \in Seq(Y) /\ Len(s) = Len(t) /\ \A i \in 1 .. Len(s) : s[i] = t[i]
    BY <1>1, <1>2
  <2> HIDE DEF s
  <2>2. s = t
    BY <2>1, <1>1, SeqEqual
  <2> QED
    BY <2>2 DEF s
<1>5. stripAPIPathPrefix(path) = t
  BY <1>2, <1>3, <1>4 DEF stripAPIPathPrefix
<1> QED
  BY <1>5 DEF path

\* Five of them.
LEMMA AllJoined ==
  ASSUME NEW X, NEW A \in Seq(X), NEW N \in Seq(X), NEW R \in Seq(X), NEW M \in Seq(X), NEW S \in Seq(X),
         NEW T, T = A \o N \o R \o M \o S
  PROVE  /\ T \in Seq(X) /\ Len(T) = Len(A) + Len(N) + Len(R) + Len(M) + Len(S)
         /\ \A i \in 1 .. Len(A) : T[i] = A[i]
         /\ \A i \in 1 .. Len(N) : T[Len(A) + i] = N[i]
         /\ \A i \in 1 .. Len(R) : T[Len(A) + Len(N) + i] = R[i]
         /\ \A i \in 1 .. Len(M) : T[Len(A) + Len(N) + Len(R) + i] = M[i]
         /\ \A i \in 1 .. Len(S) : T[Len(A) + Len(N) + Len(R) + Len(M) + i] = S[i]
<1> DEFINE T1 == A \o N
           T2 == T1 \o R
           T3 == T2 \o M
           T4 == T3 \o S
<1>0. /\ Len(A) \in Nat /\ Len(N) \in Nat /\ Len(R) \in Nat /\ Len(M) \in Nat /\ Len(S) \in Nat
  OBVIOUS
<1>1. /\ T1 \in Seq(X) /\ Len(T1) = Len(A) + Len(N)
      /\ \A i \in 1 .. Len(A) : T1[i] = A[i]
      /\ \A i \in 1 .. Len(N) : T1[Len(A) + i] = N[i]
  BY Joined
<1> HIDE DEF T1
<1>2. /\ T2 \in Seq(X) /\ Len(T2) = Len(T1) + Len(R)
      /\ \A i \in 1 .. Len(T1) : T2[i] = T1[i]
      /\ \A i \in 1 .. Len(R) : T2[Len(T1) + i] = R[i]
  <2>1. T1 \in Seq(X)
    BY <1>1
  <2> QED
    BY <2>1, Joined
<1> HIDE DEF T2
<1>3. /\ T3 \in Seq(X) /\ Len(T3) = Len(T2) + Len(M)
      /\ \A i \in 1 .. Len(T2) : T3[i] = T2[i]
      /\ \A i \in 1 .. Len(M) : T3[Len(T2) + i] = M[i]
  <2>1. T2 \in Seq(X)
    BY <1>2
  <2> QED
    BY <2>1, Joined
<1> HIDE DEF T3
<1>4. /\ T4 \in Seq(X) /\ Len(T4) = Len(T3) + Len(S)
      /\ \A i \in 1 .. Len(T3) : T4[i] = T3[i]
      /\ \A i \in 1 .. Len(S) : T4[Len(T3) + i] = S[i]
  <2>1. T3 \in Seq(X)
    BY <1>3
  <2> QED
    BY <2>1, Joined
<1> HIDE DEF T4
<1>5. \A i \in 1 .. Len(T2) : T4[i] = T2[i]
  <2>1. Len(T2) \in Nat /\ Len(T3) = Len(T2) + Len(M)
    BY <1>0, <1>1, <1>2, <1>3
  <2> QED
    BY <1>0, <2>1, <1>3, <1>4
<1>6. \A i \in 1 .. Len(T1) : T4[i] = T1[i]
  BY <1>0, <1>1, <1>2, <1>5
<1>7. /\ \A i \in 1 .. Len(A) : T4[i] = A[i]
      /\ \A i \in 1 .. Len(N) : T4[Len(A) + i] = N[i]
  BY <1>0, <1>1, <1>6
<1>8. \A i \in 1 .. Len(R) : T4[Len(A) + Len(N) + i] = R[i]
  BY <1>0, <1>1, <1>2, <1>5
<1>9. \A i \in 1 .. Len(M) : T4[Len(A) + Len(N) + Len(R) + i] = M[i]
  BY <1>0, <1>1, <1>2, <1>3, <1>4
<1>10. \A i \in 1 .. Len(S) : T4[Len(A) + Len(N) + Len(R) + Len(M) + i] = S[i]
  BY <1>0, <1>1, <1>2, <1>3, <1>4
<1>11. Len(T4) = Len(A) + Len(N) + Len(R) + Len(M) + Len(S)
  BY <1>0, <1>1, <1>2, <1>3, <1>4
<1>12. T4 = T
  BY DEF T4, T3, T2, T1
<1> QED
  BY <1>4, <1>7, <1>8, <1>9, <1>10, <1>11, <1>12

\* The parts of a path, by their places.
LEMMA PathIs ==
  ASSUME NEW c, IsCall(c), IsResource(c)
  PROVE  /\ Rest(c) \in Seq(Segments(c))
         /\ IsCore(c) => Rest(c)[1] = "api" /\ Rest(c)[2] = "v1"
         /\ ~IsCore(c) => Rest(c)[1] = "apis" /\ Rest(c)[2] = c.group /\ Rest(c)[3] = "v1"
         /\ Namespaced(c) => Rest(c)[Stem(c) + 1] = "namespaces" /\ Rest(c)[Stem(c) + 2] = c.ns
         /\ Rest(c)[Place(c)] = c.res
         /\ ~Named(c) => Len(Rest(c)) = Place(c)
         /\ Named(c) => Rest(c)[Place(c) + 1] = c.name
         /\ Named(c) /\ ~HasSub(c) => Len(Rest(c)) = Place(c) + 1
         /\ HasSub(c) => Named(c) /\ Rest(c)[Place(c) + 2] = c.sub /\ Len(Rest(c)) = Place(c) + 2
<1> DEFINE X == Segments(c)
           A == IF c.group = "" THEN <<"api", "v1">> ELSE <<"apis", c.group, "v1">>
           N == IF c.ns = "" THEN <<>> ELSE <<"namespaces", c.ns>>
           R == Segment(c.res)
           M == Segment(c.name)
           S == Segment(c.sub)
           T == A \o N \o R \o M \o S
<1>1. /\ "api" \in X /\ "apis" \in X /\ "v1" \in X /\ "namespaces" \in X
      /\ c.group \in X /\ c.ns \in X /\ c.res \in X /\ c.name \in X /\ c.sub \in X
  BY DEF Segments
<1>2. HasSub(c) => Named(c)
  BY DEF IsCall, HasSub, Named
<1>3. Rest(c) = T
  BY DEF Rest, IsResource
<1> HIDE DEF X
<1>4. /\ A \in Seq(X)
      /\ IsCore(c) => Len(A) = 2 /\ A[1] = "api" /\ A[2] = "v1"
      /\ ~IsCore(c) => Len(A) = 3 /\ A[1] = "apis" /\ A[2] = c.group /\ A[3] = "v1"
  <2>1. CASE IsCore(c)
    <3>1. A = <<"api", "v1">>
      BY <2>1 DEF IsCore
    <3> HIDE DEF A
    <3>2. A \in Seq(X) /\ Len(A) = 2 /\ A[1] = "api" /\ A[2] = "v1"
      BY <3>1, <1>1, Doubles, Zenon
    <3> QED
      BY <2>1, <3>2, Zenon
  <2>2. CASE ~IsCore(c)
    <3>1. A = <<"apis", c.group, "v1">>
      BY <2>2 DEF IsCore
    <3> HIDE DEF A
    <3>2. A \in Seq(X) /\ Len(A) = 3 /\ A[1] = "apis" /\ A[2] = c.group /\ A[3] = "v1"
      BY <3>1, <1>1, Triples, Zenon
    <3> QED
      BY <2>2, <3>2, Zenon
  <2> QED
    BY <2>1, <2>2, Zenon
<1>5. /\ N \in Seq(X)
      /\ ~Namespaced(c) => Len(N) = 0
      /\ Namespaced(c) => Len(N) = 2 /\ N[1] = "namespaces" /\ N[2] = c.ns
  <2>1. CASE ~Namespaced(c)
    <3>1. N = <<>>
      BY <2>1 DEF Namespaced
    <3> HIDE DEF N
    <3>2. N \in Seq(X) /\ Len(N) = 0
      BY <3>1, Empties, Zenon
    <3> QED
      BY <2>1, <3>2, Zenon
  <2>2. CASE Namespaced(c)
    <3>1. N = <<"namespaces", c.ns>>
      BY <2>2 DEF Namespaced
    <3> HIDE DEF N
    <3>2. N \in Seq(X) /\ Len(N) = 2 /\ N[1] = "namespaces" /\ N[2] = c.ns
      BY <3>1, <1>1, Doubles, Zenon
    <3> QED
      BY <2>2, <3>2, Zenon
  <2> QED
    BY <2>1, <2>2, Zenon
<1>6. R \in Seq(X) /\ Len(R) = 1 /\ R[1] = c.res
  BY <1>1, SegmentIs, Zenon DEF IsResource
<1>7. /\ M \in Seq(X)
      /\ ~Named(c) => Len(M) = 0
      /\ Named(c) => Len(M) = 1 /\ M[1] = c.name
  BY <1>1, SegmentIs, Zenon DEF Named
<1>8. /\ S \in Seq(X)
      /\ ~HasSub(c) => Len(S) = 0
      /\ HasSub(c) => Len(S) = 1 /\ S[1] = c.sub
  BY <1>1, SegmentIs, Zenon DEF HasSub
<1> HIDE DEF A, N, R, M, S
<1>9. A \in Seq(X) /\ N \in Seq(X) /\ R \in Seq(X) /\ M \in Seq(X) /\ S \in Seq(X)
  BY <1>4, <1>5, <1>6, <1>7, <1>8, Zenon
<1>10. /\ Len(A) = Stem(c) /\ Stem(c) \in {2, 3}
       /\ \/ Len(N) = 0 /\ Place(c) = Stem(c) + 1
          \/ Len(N) = 2 /\ Place(c) = Stem(c) + 3
       /\ Len(R) = 1
  BY <1>4, <1>5, <1>6, Zenon DEF Stem, Place
<1>11. /\ T \in Seq(X) /\ Len(T) = Len(A) + Len(N) + Len(R) + Len(M) + Len(S)
       /\ \A i \in 1 .. Len(A) : T[i] = A[i]
       /\ \A i \in 1 .. Len(N) : T[Len(A) + i] = N[i]
       /\ \A i \in 1 .. Len(R) : T[Len(A) + Len(N) + i] = R[i]
       /\ \A i \in 1 .. Len(M) : T[Len(A) + Len(N) + Len(R) + i] = M[i]
       /\ \A i \in 1 .. Len(S) : T[Len(A) + Len(N) + Len(R) + Len(M) + i] = S[i]
  <2>1. T = A \o N \o R \o M \o S
    OBVIOUS
  <2> HIDE DEF T
  <2> QED
    BY <1>9, <2>1, AllJoined, SMTT(30)
<1> HIDE DEF T
<1>12. /\ T[1] = A[1] /\ T[2] = A[2]
       /\ Len(A) = 3 => T[3] = A[3]
  <2>1. /\ 1 \in 1 .. Len(A) /\ 2 \in 1 .. Len(A)
        /\ Len(A) = 3 => 3 \in 1 .. Len(A)
    BY <1>10
  <2> QED
    BY <1>11, <2>1
<1>13. Len(N) = 2 => T[Stem(c) + 1] = N[1] /\ T[Stem(c) + 2] = N[2]
  BY <1>9, <1>10, <1>11
<1>14. Len(A) + Len(N) + Len(R) = Place(c) /\ Place(c) \in Nat
  <2>1. CASE Len(N) = 0 /\ Place(c) = Stem(c) + 1
    BY <2>1, <1>10
  <2>2. CASE Len(N) = 2 /\ Place(c) = Stem(c) + 3
    BY <2>2, <1>10
  <2> QED
    BY <2>1, <2>2, <1>10
<1>15. T[Place(c)] = R[1]
  BY <1>9, <1>10, <1>11, <1>14
<1>16. Len(M) = 1 => T[Place(c) + 1] = M[1]
  BY <1>9, <1>11, <1>14
<1>17. Len(T) = Place(c) + Len(M) + Len(S)
  BY <1>11, <1>14
<1>18. Len(M) = 1 /\ Len(S) = 1 => T[Place(c) + 2] = S[1]
  <2>1. Len(M) = 1 /\ Len(S) = 1 => T[Len(A) + Len(N) + Len(R) + Len(M) + 1] = S[1]
    BY <1>9, <1>11
  <2> QED
    BY <1>14, <2>1
<1>19. /\ Len(M) = 0 /\ Len(S) = 0 => Len(T) = Place(c)
       /\ Len(M) = 1 /\ Len(S) = 0 => Len(T) = Place(c) + 1
       /\ Len(M) = 1 /\ Len(S) = 1 => Len(T) = Place(c) + 2
  <2>1. /\ Place(c) + 0 + 0 = Place(c)
        /\ Place(c) + 1 + 0 = Place(c) + 1
        /\ Place(c) + 1 + 1 = Place(c) + 2
    BY <1>14
  <2> QED
    BY <2>1, <1>17, Zenon
<1>20. T \in Seq(Segments(c))
  BY <1>11, Zenon DEF X
<1>21. /\ IsCore(c) => T[1] = "api" /\ T[2] = "v1"
       /\ ~IsCore(c) => T[1] = "apis" /\ T[2] = c.group /\ T[3] = "v1"
  BY <1>4, <1>12, Zenon
<1>22. Namespaced(c) => T[Stem(c) + 1] = "namespaces" /\ T[Stem(c) + 2] = c.ns
  BY <1>5, <1>13, Zenon
<1>23. T[Place(c)] = c.res
  BY <1>6, <1>15, Zenon
<1>24. /\ ~Named(c) => Len(T) = Place(c)
       /\ Named(c) => T[Place(c) + 1] = c.name
       /\ Named(c) /\ ~HasSub(c) => Len(T) = Place(c) + 1
       /\ HasSub(c) => T[Place(c) + 2] = c.sub /\ Len(T) = Place(c) + 2
  BY <1>2, <1>7, <1>8, <1>16, <1>18, <1>19, Zenon
<1> QED
  BY <1>2, <1>3, <1>20, <1>21, <1>22, <1>23, <1>24, Zenon

\* The resource of a path: its place is found, except for Misread.
LEMMA Index ==
  ASSUME NEW c, IsCall(c), IsResource(c), ~Misread(c), NEW p, NEW n \in Nat, Len(p) = n,
         IsCore(c) => p[1] = "api",
         ~IsCore(c) => p[1] = "apis",
         Namespaced(c) => p[Stem(c) + 1] = "namespaces",
         p[Place(c)] = c.res,
         ~Named(c) => n = Place(c),
         Named(c) /\ ~HasSub(c) => n = Place(c) + 1,
         HasSub(c) => n = Place(c) + 2
  PROVE  findResourceTypeIndex(p) = Place(c) /\ Place(c) \in 3 .. 6 /\ Place(c) <= n
<1>1. HasSub(c) => Named(c)
  BY DEF IsCall, HasSub, Named
<1>2. c.res = "namespaces" => ~Namespaced(c) /\ ~HasSub(c)
  BY DEF IsCall, Misread, HasSub, Namespaced
<1>3. CASE IsCore(c)
  <2>1. Stem(c) = 2 /\ p[1] = "api"
    BY <1>3 DEF Stem
  <2>2. CASE Namespaced(c)
    <3>1. Place(c) = 5 /\ p[3] = "namespaces" /\ n >= 5
      BY <2>1, <2>2 DEF Place
    <3> QED
      BY <2>1, <3>1 DEF findResourceTypeIndex
  <2>3. CASE ~Namespaced(c)
    <3>1. Place(c) = 3 /\ p[3] = c.res /\ n >= 3
      BY <2>1, <2>3 DEF Place
    <3>2. c.res = "namespaces" => n <= 4
      BY <3>1, <1>2
    <3> QED
      BY <2>1, <3>1, <3>2 DEF findResourceTypeIndex
  <2> QED
    BY <2>2, <2>3
<1>4. CASE ~IsCore(c)
  <2>1. Stem(c) = 3 /\ p[1] = "apis"
    BY <1>4 DEF Stem
  <2>2. CASE Namespaced(c)
    <3>1. Place(c) = 6 /\ p[4] = "namespaces" /\ n >= 6
      BY <2>1, <2>2 DEF Place
    <3> QED
      BY <2>1, <3>1 DEF findResourceTypeIndex
  <2>3. CASE ~Namespaced(c)
    <3>1. Place(c) = 4 /\ p[4] = c.res /\ n >= 4
      BY <2>1, <2>3 DEF Place
    <3>2. c.res = "namespaces" => n <= 5
      BY <3>1, <1>2
    <3> QED
      BY <2>1, <3>1, <3>2 DEF findResourceTypeIndex
  <2> QED
    BY <2>2, <2>3
<1> QED
  BY <1>3, <1>4

LEMMA Least ==
  ASSUME NEW at, NEW m \in at, at \subseteq Int, \A j \in at : m <= j
  PROVE  (CHOOSE i \in at : \A j \in at : i <= j) = m
<1> DEFINE x == CHOOSE i \in at : \A j \in at : i <= j
<1>1. x \in at /\ \A j \in at : x <= j
  OBVIOUS
<1>2. x \in Int /\ m \in Int /\ x <= m /\ m <= x
  BY <1>1
<1> QED
  BY <1>2

\* The namespace is that of the request.  An object without one may seem to be in
\* one, which makes more rules apply to it, never fewer.
LEMMA NamespaceIs ==
  ASSUME NEW c, IsCall(c), IsResource(c), ~Misread(c), Placed(c)
  PROVE  parseURLToNamespaceAndName(Rest(c)).ns = NamespaceOf(c)
<1> DEFINE p == Rest(c)
           at == {i \in 1 .. Len(p) - 1 : p[i] = "namespaces"}
           m == Stem(c) + 1
<1>1. /\ p \in Seq(Segments(c))
      /\ IsCore(c) => p[1] = "api" /\ p[2] = "v1"
      /\ ~IsCore(c) => p[1] = "apis" /\ p[2] = c.group /\ p[3] = "v1"
      /\ Namespaced(c) => p[Stem(c) + 1] = "namespaces" /\ p[Stem(c) + 2] = c.ns
      /\ p[Place(c)] = c.res
      /\ ~Named(c) => Len(p) = Place(c)
      /\ Named(c) => p[Place(c) + 1] = c.name
      /\ Named(c) /\ ~HasSub(c) => Len(p) = Place(c) + 1
      /\ HasSub(c) => Named(c) /\ p[Place(c) + 2] = c.sub /\ Len(p) = Place(c) + 2
  BY PathIs, Zenon
<1> HIDE DEF p
<1>2. Stem(c) \in {2, 3} /\ Len(p) \in Nat
  <2>1. p \in Seq(Segments(c))
    BY <1>1, Zenon
  <2>2. Len(p) \in Nat
    BY <2>1, LenProperties, Zenon
  <2> QED
    BY <2>2 DEF Stem
<1>3. \A i \in 1 .. Stem(c) : p[i] # "namespaces"
  <2>1. CASE IsCore(c)
    <3>1. Stem(c) = 2 /\ p[1] = "api" /\ p[2] = "v1"
      BY <1>1, <2>1, Zenon DEF Stem
    <3> QED
      BY <3>1
  <2>2. CASE ~IsCore(c)
    <3>1. Stem(c) = 3 /\ p[1] = "apis" /\ p[2] = c.group /\ p[3] = "v1"
      BY <1>1, <2>2, Zenon DEF Stem
    <3>2. c.group # "namespaces"
      BY DEF IsCall
    <3> QED
      BY <3>1, <3>2
  <2> QED
    BY <2>1, <2>2
<1>4. p[m] = "namespaces" /\ p[m + 1] = NamespaceOf(c) /\ m <= Len(p) - 1
  <2>1. CASE Namespaced(c)
    <3>1. p[Stem(c) + 1] = "namespaces" /\ p[Stem(c) + 2] = c.ns
      BY <1>1, <2>1, Zenon
    <3>2. NamespaceOf(c) = c.ns
      BY <2>1 DEF Placed, NamespaceOf, IsCall, Namespaced
    <3>3. Stem(c) + 3 <= Len(p)
      <4>1. Place(c) = Stem(c) + 3
        BY <2>1 DEF Place
      <4>2. Len(p) = Place(c) \/ Len(p) = Place(c) + 1 \/ Len(p) = Place(c) + 2
        BY <1>1, Zenon
      <4> QED
        BY <4>1, <4>2, <1>2
    <3> QED
      BY <1>2, <3>1, <3>2, <3>3
  <2>2. CASE ~Namespaced(c)
    <3>1. c.res = "namespaces" /\ NamespaceOf(c) = c.name /\ Named(c)
      BY <2>2 DEF Placed, NamespaceOf, Namespaced, Named
    <3>2. Place(c) = Stem(c) + 1
      BY <2>2 DEF Place
    <3>3. p[Place(c)] = "namespaces" /\ p[Place(c) + 1] = c.name
      BY <1>1, <3>1, Zenon
    <3>4. Len(p) = Place(c) + 1 \/ Len(p) = Place(c) + 2
      BY <1>1, <3>1, Zenon
    <3> QED
      BY <1>2, <3>1, <3>2, <3>3, <3>4
  <2> QED
    BY <2>1, <2>2
<1>5. m \in at /\ at \subseteq Int /\ \A j \in at : m <= j
  BY <1>2, <1>3, <1>4
<1>6. (CHOOSE i \in at : \A j \in at : i <= j) = m
  <2> HIDE DEF at
  <2> QED
    BY <1>5, Least
<1>7. at # {}
  BY <1>5
<1>8. parseURLToNamespaceAndName(p).ns = p[(CHOOSE i \in at : \A j \in at : i <= j) + 1]
  BY <1>7 DEF parseURLToNamespaceAndName
<1> QED
  BY <1>4, <1>6, <1>8 DEF p

\* What is left is the rest of the path.
LEMMA PathKept ==
  ASSUME NEW c, IsCall(c)
  PROVE  stripAPIPathPrefix(Path(c)) = Rest(c)
<1>1. Path(c) = Prefix \o Rest(c)
  BY DEF Path, Rest
<1>2. Rest(c) \in Seq(Segments(c))
  <2>1. CASE IsResource(c)
    BY <2>1, PathIs, Zenon
  <2>2. CASE ~IsResource(c)
    <3>1. Rest(c) = <<"openapi", "v2">>
      BY <2>2 DEF Rest, IsResource
    <3>2. "openapi" \in Segments(c) /\ "v2" \in Segments(c)
      BY DEF Segments
    <3>3. <<"openapi", "v2">> \in Seq(Segments(c))
      BY <3>2
    <3> QED
      BY <3>1, <3>3, Zenon
  <2> QED
    BY <2>1, <2>2, Zenon
<1> QED
  BY <1>1, <1>2, Stripped, Zenon

\* A request that is for no resource is recognised.
LEMMA ReadsOther ==
  ASSUME NEW c, IsCall(c), ~IsResource(c)
  PROVE  Parsed(c) = [ok |-> FALSE]
<1>1. Rest(c) = <<"openapi", "v2">>
  BY DEF Rest, IsResource
<1>2. findResourceTypeIndex(<<"openapi", "v2">>) = 0
  BY DEF findResourceTypeIndex
<1>3. findResourceTypeIndex(Rest(c)) = 0
  BY <1>1, <1>2, Zenon
<1> QED
  BY <1>3, PathKept, Zenon DEF Parsed

\* Group, resource, name, subresource and verb are those of the request.
LEMMA ReadsResource ==
  ASSUME NEW c, IsCall(c), IsResource(c), ~Misread(c)
  PROVE  /\ Parsed(c).ok = TRUE
         /\ Parsed(c).group = c.group
         /\ Parsed(c).res = c.res
         /\ Parsed(c).name = c.name
         /\ Parsed(c).sub = c.sub
         /\ Parsed(c).verb = VerbOf(c)
         /\ Placed(c) => Parsed(c).ns = NamespaceOf(c)
<1> DEFINE p == Rest(c)
           k == Place(c)
<1>1. /\ p \in Seq(Segments(c))
      /\ IsCore(c) => p[1] = "api" /\ p[2] = "v1"
      /\ ~IsCore(c) => p[1] = "apis" /\ p[2] = c.group /\ p[3] = "v1"
      /\ Namespaced(c) => p[Stem(c) + 1] = "namespaces" /\ p[Stem(c) + 2] = c.ns
      /\ p[k] = c.res
      /\ ~Named(c) => Len(p) = k
      /\ Named(c) => p[k + 1] = c.name
      /\ Named(c) /\ ~HasSub(c) => Len(p) = k + 1
      /\ HasSub(c) => Named(c) /\ p[k + 2] = c.sub /\ Len(p) = k + 2
  BY PathIs, Zenon
<1>2. Placed(c) => parseURLToNamespaceAndName(p).ns = NamespaceOf(c)
  BY NamespaceIs, Zenon
<1>3. stripAPIPathPrefix(Path(c)) = p
  BY PathKept, Zenon
<1> HIDE DEF p
<1>4. Len(p) \in Nat
  <2>1. p \in Seq(Segments(c))
    BY <1>1, Zenon
  <2> QED
    BY <2>1, LenProperties, Zenon
<1>5. findResourceTypeIndex(p) = k /\ k \in 3 .. 6 /\ k <= Len(p)
  BY <1>1, <1>4, Index, Zenon
<1>6. k # 0
  BY <1>5
<1>7. Parsed(c) = [ok |-> TRUE, group |-> parseURLToGVR(p).group, res |-> parseURLToGVR(p).res,
                   ns |-> parseURLToNamespaceAndName(p).ns, name |-> parseURLToNamespaceAndName(p).name,
                   sub |-> parseSubresource(p), verb |-> httpMethodToVerb(c.method, p)]
  BY <1>3, <1>5, <1>6, Zenon DEF Parsed
<1>8. parseURLToGVR(p).group = c.group
  <2>1. CASE IsCore(c)
    <3>1. p[1] = "api" /\ c.group = ""
      BY <1>1, <2>1, Zenon DEF IsCore
    <3> QED
      BY <3>1 DEF parseURLToGVR
  <2>2. CASE ~IsCore(c)
    <3>1. p[1] = "apis" /\ p[2] = c.group
      BY <1>1, <2>2, Zenon
    <3> QED
      BY <3>1 DEF parseURLToGVR
  <2> QED
    BY <2>1, <2>2, Zenon
<1>9. parseURLToGVR(p).res = c.res
  <2>1. p[k] = c.res
    BY <1>1, Zenon
  <2> HIDE DEF k
  <2> QED
    BY <1>5, <2>1 DEF parseURLToGVR
<1>10. At(p, k + 1) = c.name
  <2>1. CASE ~Named(c)
    <3>1. Len(p) = k
      BY <1>1, <2>1, Zenon
    <3>2. ~(k + 1 <= Len(p))
      BY <3>1, <1>5
    <3> QED
      BY <2>1, <3>2, Zenon DEF At, Named
  <2>2. CASE Named(c)
    <3>1. p[k + 1] = c.name /\ (Len(p) = k + 1 \/ Len(p) = k + 2)
      BY <1>1, <2>2, Zenon
    <3>2. k + 1 <= Len(p)
      BY <3>1, <1>5
    <3> QED
      BY <3>1, <3>2, Zenon DEF At
  <2> QED
    BY <2>1, <2>2, Zenon
<1>11. At(p, k + 2) = c.sub
  <2>1. CASE ~HasSub(c)
    <3>1. Len(p) = k \/ Len(p) = k + 1
      BY <1>1, <2>1, Zenon
    <3>2. ~(k + 2 <= Len(p))
      BY <3>1, <1>5
    <3> QED
      BY <2>1, <3>2, Zenon DEF At, HasSub
  <2>2. CASE HasSub(c)
    <3>1. p[k + 2] = c.sub /\ Len(p) = k + 2
      BY <1>1, <2>2, Zenon
    <3>2. k + 2 <= Len(p)
      BY <3>1, <1>5
    <3> QED
      BY <3>1, <3>2, Zenon DEF At
  <2> QED
    BY <2>1, <2>2, Zenon
<1>12. parseURLToNamespaceAndName(p).name = c.name
  BY <1>5, <1>10, Zenon DEF parseURLToNamespaceAndName
<1>13. parseSubresource(p) = c.sub
  BY <1>5, <1>11, Zenon DEF parseSubresource
<1>14. isCollectionPath(p) <=> c.name = ""
  <2>1. CASE ~Named(c)
    <3>1. Len(p) = k /\ c.name = ""
      BY <1>1, <2>1, Zenon DEF Named
    <3> QED
      BY <3>1, <1>5, Zenon DEF isCollectionPath
  <2>2. CASE Named(c)
    <3>1. Len(p) = k + 1 \/ Len(p) = k + 2
      BY <1>1, <2>2, Zenon
    <3>2. k # Len(p)
      BY <3>1, <1>5
    <3> QED
      BY <2>2, <3>2, <1>5, Zenon DEF isCollectionPath, Named
  <2> QED
    BY <2>1, <2>2, Zenon
<1>15. httpMethodToVerb(c.method, p) = VerbOf(c)
  BY <1>14 DEF httpMethodToVerb, VerbOf, IsCall
<1> HIDE DEF k
<1>16. /\ Parsed(c).ok = TRUE
       /\ Parsed(c).group = parseURLToGVR(p).group /\ Parsed(c).res = parseURLToGVR(p).res
       /\ Parsed(c).ns = parseURLToNamespaceAndName(p).ns
       /\ Parsed(c).name = parseURLToNamespaceAndName(p).name
       /\ Parsed(c).sub = parseSubresource(p)
       /\ Parsed(c).verb = httpMethodToVerb(c.method, p)
  BY <1>7
<1> QED
  BY <1>2, <1>8, <1>9, <1>12, <1>13, <1>15, <1>16, Zenon

\* A subresource of a namespace is taken for a resource in it.
LEMMA ReadsMisread ==
  ASSUME NEW c, IsCall(c), IsResource(c), Misread(c)
  PROVE  Parsed(c).ok = TRUE /\ Parsed(c).group = c.group /\ Parsed(c).res = c.sub
<1> DEFINE p == Rest(c)
           k == Place(c)
<1>1. /\ p \in Seq(Segments(c))
      /\ IsCore(c) => p[1] = "api"
      /\ ~IsCore(c) => p[1] = "apis" /\ p[2] = c.group
      /\ p[k] = c.res
      /\ HasSub(c) => Named(c) /\ p[k + 2] = c.sub /\ Len(p) = k + 2
  BY PathIs, Zenon
<1>2. ~Namespaced(c) /\ HasSub(c) /\ c.res = "namespaces"
  BY DEF Misread, Namespaced, HasSub
<1>3. stripAPIPathPrefix(Path(c)) = p
  BY PathKept, Zenon
<1> HIDE DEF p
<1>4. k = Stem(c) + 1
  BY <1>2, Zenon DEF Place
<1>5. p[Stem(c) + 1] = "namespaces" /\ p[Stem(c) + 1 + 2] = c.sub /\ Len(p) = Stem(c) + 1 + 2
  BY <1>1, <1>2, <1>4, Zenon
<1>6. CASE IsCore(c)
  <2>1. Stem(c) = 2 /\ p[1] = "api"
    BY <1>6, <1>1, Zenon DEF Stem
  <2>2. p[3] = "namespaces" /\ p[5] = c.sub /\ Len(p) = 5
    BY <2>1, <1>5
  <2>3. findResourceTypeIndex(p) = 5
    BY <2>1, <2>2 DEF findResourceTypeIndex
  <2>4. parseURLToGVR(p).group = c.group /\ parseURLToGVR(p).res = c.sub
    BY <1>6, <2>1, <2>2, <2>3 DEF parseURLToGVR, IsCore
  <2>5. findResourceTypeIndex(p) # 0
    BY <2>3
  <2> QED
    BY <2>4, <2>5, <1>3 DEF Parsed
<1>7. CASE ~IsCore(c)
  <2>1. Stem(c) = 3 /\ p[1] = "apis" /\ p[2] = c.group
    BY <1>7, <1>1, Zenon DEF Stem
  <2>2. p[4] = "namespaces" /\ p[6] = c.sub /\ Len(p) = 6
    BY <2>1, <1>5
  <2>3. findResourceTypeIndex(p) = 6
    BY <2>1, <2>2 DEF findResourceTypeIndex
  <2>4. parseURLToGVR(p).group = c.group /\ parseURLToGVR(p).res = c.sub
    BY <2>1, <2>2, <2>3 DEF parseURLToGVR
  <2>5. findResourceTypeIndex(p) # 0
    BY <2>3
  <2> QED
    BY <2>4, <2>5, <1>3 DEF Parsed
<1> QED
  BY <1>6, <1>7, Zenon

-----------------------------------------------------------------------------
(***************************************************************************)
(* The invariant.  A request by itself: what it has been through at each   *)
(* place.                                                                  *)
(***************************************************************************)
Fields == {"pc", "call", "url", "outcome", "kind", "known", "todo", "used", "list", "prompted",
           "accepted", "unanswered", "discoveryFailed", "schemaFailed", "stale", "there", "listed"}

Resolving  == {"resolve", "discover", "store"}
Judging    == {"miss", "lead", "wait", "fetch", "judge"}
Validation == {"validate", "review", "asking"} \cup Judging
Checked    == {"validators"} \cup Validation
Underway   == Resolving \cup {"check"} \cup Checked

\* What validatorsFromConfig makes, and what may be left of it.
Todos == {<<"rbac", "schema", "confirm", "eula">>, <<"rbac", "schema", "eula">>,
          <<"schema", "confirm", "eula">>, <<"schema", "eula">>,
          <<"confirm", "eula">>, <<"eula">>, <<>>}

AllDone(todo)  == todo = <<>>
Confirms(todo) ==
  todo \in {<<"rbac", "schema", "confirm", "eula">>, <<"schema", "confirm", "eula">>, <<"confirm", "eula">>}
OnlyAsks(todo) == todo \in {<<"confirm", "eula">>, <<"eula">>, <<>>}
NextIs(todo, vs) == todo # <<>> /\ Head(todo) \in vs

\* It is a request the client can make, and is read as Parsed says; what the
\* mapper told it of the kind is true.
Formed(r) ==
  /\ Fields \subseteq DOMAIN r
  /\ r.pc \in Underway \cup {"ended"}
  /\ IsCall(r.call) /\ r.url = Parsed(r.call)
  /\ r.known => r.kind = KindOf(r.call) /\ r.kind # ""
  /\ r.accepted \subseteq {"confirm", "eula"}
  /\ r.pc \in Underway => r.outcome = "none"
  /\ r.pc \in Underway \ {"resolve"} => r.url.ok

\* It exists, and the configuration it was checked against does not deny it.
Admitted(r) ==
  /\ "cfg" \in DOMAIN r /\ r.cfg \in Configs
  /\ ~Misread(r.call)
  /\ ~IsDeniedResource(r.cfg, r.url.group, r.kind)

\* The user agreed to it, if a rule asks for that, or could not be asked.
Confirmed(r) ==
  (\E rule \in r.cfg.rules :
     Matches(rule, [verb |-> r.url.verb, kind |-> r.kind, group |-> r.url.group,
                    name |-> r.url.name, ns |-> r.url.ns]))
  => "confirm" \in r.accepted \/ (r.unanswered = TRUE /\ r.cfg.fallback = "allow")

Licensed(r) ==
  /\ r.url.verb \in {"create", "update", "patch"} /\ r.kind = "PipelineRun"
  /\ r.url.group = "tekton.dev" /\ r.call.body = "windows"
  => "eula" \in r.accepted

\* How far the validators are.
Validated(r) ==
  /\ "by" \in DOMAIN r /\ r.by = r.cfg
  /\ r.todo \in Todos
  /\ r.pc = "review" => NextIs(r.todo, {"rbac"})
  /\ r.pc \in Judging => NextIs(r.todo, {"schema"})
  /\ r.pc = "asking" => NextIs(r.todo, {"confirm", "eula"})
  /\ ~Confirms(r.todo) => Confirmed(r)
  /\ AllDone(r.todo) => Licensed(r)
  /\ r.prompted => OnlyAsks(r.todo)

\* What it ended with.
Decided(r) ==
  /\ r.outcome = "sent" /\ r.url.ok => Admitted(r)
  /\ r.outcome = "sent" /\ r.url.ok /\ ~IsReview(r.url) => Confirmed(r) /\ Licensed(r)
  /\ r.outcome \in {"forbidden", "invalid"} => ~r.prompted
  /\ r.outcome = "invalid" => r.call.body = "bad" \/ r.schemaFailed
  /\ r.outcome = "forbidden" =>
       /\ r.url.ok /\ ~Misread(r.call)
       /\ <<r.url.verb, r.url.group, r.url.res, "">> \notin Granted

Sound(r) ==
  /\ Formed(r)
  /\ r.pc = "check" => ~Misread(r.call)
  /\ r.pc \in Checked => Admitted(r) /\ ~IsReview(r.url)
  /\ r.pc \in Underway \ Validation => ~r.prompted
  /\ r.pc \in Validation => Validated(r)
  /\ r.pc = "ended" => Decided(r)

IsReviewCall(p, r) == p[2] = "review" => r.call = ReviewCall

Requests ==
  /\ DOMAIN proc = Procs
  /\ \A p \in Procs : proc[p] = Idle \/ (Sound(proc[p]) /\ IsReviewCall(p, proc[p]))

(***************************************************************************)
(* What is known of the cluster is true of it, and a resource that was     *)
(* there when its request came is in every list that could be used for it. *)
(***************************************************************************)
Discovered ==
  /\ served \subseteq Entries /\ mapper \subseteq served
  /\ \A g \in DOMAIN raw : raw[g] \subseteq served /\ raw[g] # {}
  /\ \A p \in Procs : On(p, "store") => proc[p].list \subseteq served /\ proc[p].list # {}

Findable(u, entries, cache, requests) ==
  /\ Lists(entries, u)
  /\ u.group \in DOMAIN cache => Lists(cache[u.group], u)
  /\ \A q \in Procs :
       requests[q].pc = "store" /\ requests[q].url.group = u.group => Lists(requests[q].list, u)

Missing(r) == ~r.there \/ r.discoveryFailed \/ r.listed

NoneLost ==
  \A p \in Procs :
    /\ proc[p].pc \in Resolving /\ proc[p].there /\ ~proc[p].listed =>
         Findable(proc[p].url, served, raw, proc)
    /\ On(p, "ended") /\ proc[p].outcome = "notfound" => Missing(proc[p])

(***************************************************************************)
(* A schema that had expired when a request came is not fresh any more.    *)
(***************************************************************************)
SchemaNewer ==
  /\ schema.id \in Nat /\ schema.expired \in BOOLEAN
  /\ \A p \in Procs : proc[p] # Idle =>
       /\ proc[p].stale \in Nat /\ proc[p].stale <= schema.id
       /\ proc[p].stale # 0 /\ proc[p].stale = schema.id => schema.expired
       /\ proc[p].used \in 0 .. schema.id /\ (proc[p].used # 0 => proc[p].used > proc[p].stale)

Configured == live \in Configs /\ valid \subseteq Configs

Inv == Configured /\ Requests /\ Discovered /\ NoneLost /\ SchemaNewer

-----------------------------------------------------------------------------
(***************************************************************************)
(* Lists of validators.                                                    *)
(***************************************************************************)
\* Longer and longer lists.
LEMMA ToTwo ==
  ASSUME NEW X, NEW a \in X, NEW b \in X
  PROVE  <<a>> \o <<b>> = <<a, b>>
<1> DEFINE s == <<a>> \o <<b>>
           t == <<a, b>>
<1>1. s \in Seq(X) /\ Len(s) = 2 /\ s[1] = a /\ s[2] = b
  OBVIOUS
<1>2. t \in Seq(X) /\ Len(t) = 2 /\ t[1] = a /\ t[2] = b
  OBVIOUS
<1> HIDE DEF s, t
<1>3. \A i \in 1 .. Len(s) : s[i] = t[i]
  BY <1>1, <1>2
<1>4. s = t
  BY <1>1, <1>2, <1>3, SeqEqual
<1> QED
  BY <1>4 DEF s, t

LEMMA ToThree ==
  ASSUME NEW X, NEW a \in X, NEW b \in X, NEW c \in X
  PROVE  <<a, b>> \o <<c>> = <<a, b, c>>
<1> DEFINE s == <<a, b>> \o <<c>>
           t == <<a, b, c>>
<1>1. s \in Seq(X) /\ Len(s) = 3 /\ s[1] = a /\ s[2] = b /\ s[3] = c
  OBVIOUS
<1>2. t \in Seq(X) /\ Len(t) = 3 /\ t[1] = a /\ t[2] = b /\ t[3] = c
  OBVIOUS
<1> HIDE DEF s, t
<1>3. \A i \in 1 .. Len(s) : s[i] = t[i]
  BY <1>1, <1>2
<1>4. s = t
  BY <1>1, <1>2, <1>3, SeqEqual
<1> QED
  BY <1>4 DEF s, t

LEMMA ToFour ==
  ASSUME NEW X, NEW a \in X, NEW b \in X, NEW c \in X, NEW d \in X
  PROVE  <<a, b, c>> \o <<d>> = <<a, b, c, d>>
<1> DEFINE s == <<a, b, c>> \o <<d>>
           t == <<a, b, c, d>>
<1>1. s \in Seq(X) /\ Len(s) = 4 /\ s[1] = a /\ s[2] = b /\ s[3] = c /\ s[4] = d
  OBVIOUS
<1>2. t \in Seq(X) /\ Len(t) = 4 /\ t[1] = a /\ t[2] = b /\ t[3] = c /\ t[4] = d
  OBVIOUS
<1> HIDE DEF s, t
<1>3. \A i \in 1 .. Len(s) : s[i] = t[i]
  BY <1>1, <1>2
<1>4. s = t
  BY <1>1, <1>2, <1>3, SeqEqual
<1> QED
  BY <1>4 DEF s, t

\* The validators of a configuration.
LEMMA TodosAre ==
  ASSUME NEW cfg
  PROVE  LET t == validatorsFromConfig(cfg) IN
         /\ t \in Todos /\ ~AllDone(t)
         /\ cfg.rules # {} => Confirms(t)
<1> DEFINE V == {"rbac", "schema", "confirm", "eula"}
<1>0. "rbac" \in V /\ "schema" \in V /\ "confirm" \in V /\ "eula" \in V
  OBVIOUS
<1> HIDE DEF V
<1>1. CASE cfg.validation
  <2>1. CASE cfg.rules # {}
    <3>1. validatorsFromConfig(cfg) = <<"rbac", "schema">> \o <<"confirm">> \o <<"eula">>
      BY <1>1, <2>1, Zenon DEF validatorsFromConfig
    <3>2. <<"rbac", "schema">> \o <<"confirm">> = <<"rbac", "schema", "confirm">>
      BY <1>0, ToThree, Zenon
    <3>3. <<"rbac", "schema", "confirm">> \o <<"eula">> = <<"rbac", "schema", "confirm", "eula">>
      BY <1>0, ToFour, Zenon
    <3>4. validatorsFromConfig(cfg) = <<"rbac", "schema", "confirm", "eula">>
      BY <3>1, <3>2, <3>3, Zenon
    <3> QED
      BY <3>4 DEF Todos, AllDone, Confirms
  <2>2. CASE cfg.rules = {}
    <3>1. validatorsFromConfig(cfg) = <<"rbac", "schema">> \o <<>> \o <<"eula">>
      BY <1>1, <2>2, Zenon DEF validatorsFromConfig
    <3>2. <<"rbac", "schema">> \o <<>> = <<"rbac", "schema">>
      OBVIOUS
    <3>3. <<"rbac", "schema">> \o <<"eula">> = <<"rbac", "schema", "eula">>
      BY <1>0, ToThree, Zenon
    <3>4. validatorsFromConfig(cfg) = <<"rbac", "schema", "eula">>
      BY <3>1, <3>2, <3>3, Zenon
    <3> QED
      BY <3>4, <2>2 DEF Todos, AllDone
  <2> QED
    BY <2>1, <2>2
<1>2. CASE ~cfg.validation
  <2>1. CASE cfg.rules # {}
    <3>1. validatorsFromConfig(cfg) = <<>> \o <<"confirm">> \o <<"eula">>
      BY <1>2, <2>1, Zenon DEF validatorsFromConfig
    <3>2. <<>> \o <<"confirm">> = <<"confirm">>
      OBVIOUS
    <3>3. <<"confirm">> \o <<"eula">> = <<"confirm", "eula">>
      BY <1>0, ToTwo, Zenon
    <3>4. validatorsFromConfig(cfg) = <<"confirm", "eula">>
      BY <3>1, <3>2, <3>3, Zenon
    <3> QED
      BY <3>4 DEF Todos, AllDone, Confirms
  <2>2. CASE cfg.rules = {}
    <3>1. validatorsFromConfig(cfg) = <<>> \o <<>> \o <<"eula">>
      BY <1>2, <2>2, Zenon DEF validatorsFromConfig
    <3>2. <<>> \o <<>> = <<>> /\ <<>> \o <<"eula">> = <<"eula">>
      OBVIOUS
    <3>3. validatorsFromConfig(cfg) = <<"eula">>
      BY <3>1, <3>2, Zenon
    <3> QED
      BY <3>3, <2>2 DEF Todos, AllDone
  <2> QED
    BY <2>1, <2>2
<1> QED
  BY <1>1, <1>2

\* What is left when the first of them has passed.
LEMMA TodosStep ==
  ASSUME NEW t \in Todos, t # <<>>
  PROVE  /\ Tail(t) \in Todos
         /\ Head(t) \in {"rbac", "schema", "confirm", "eula"}
         /\ Head(t) \in {"rbac", "schema"} => ~OnlyAsks(t) /\ ~AllDone(Tail(t))
                                              /\ (Confirms(t) => Confirms(Tail(t)))
         /\ Head(t) = "confirm" => OnlyAsks(t) /\ OnlyAsks(Tail(t)) /\ ~AllDone(Tail(t))
         /\ Head(t) = "eula" => OnlyAsks(t) /\ OnlyAsks(Tail(t)) /\ ~Confirms(t)
<1>1. CASE t = <<"rbac", "schema", "confirm", "eula">>
  BY <1>1 DEF Todos, OnlyAsks, AllDone, Confirms
<1>2. CASE t = <<"rbac", "schema", "eula">>
  BY <1>2 DEF Todos, OnlyAsks, AllDone, Confirms
<1>3. CASE t = <<"schema", "confirm", "eula">>
  BY <1>3 DEF Todos, OnlyAsks, AllDone, Confirms
<1>4. CASE t = <<"schema", "eula">>
  BY <1>4 DEF Todos, OnlyAsks, AllDone, Confirms
<1>5. CASE t = <<"confirm", "eula">>
  BY <1>5 DEF Todos, OnlyAsks, AllDone, Confirms
<1>6. CASE t = <<"eula">>
  BY <1>6 DEF Todos, OnlyAsks, AllDone, Confirms
<1> QED
  BY <1>1, <1>2, <1>3, <1>4, <1>5, <1>6 DEF Todos

-----------------------------------------------------------------------------
(***************************************************************************)
(* What Parsed is right about.                                             *)
(***************************************************************************)
LEMMA UrlIsRight ==
  ASSUME NEW c, IsCall(c), Parsed(c).ok
  PROVE  /\ IsResource(c) /\ Parsed(c).group = c.group
         /\ ~Misread(c) => /\ Parsed(c).res = c.res /\ Parsed(c).name = c.name
                           /\ Parsed(c).sub = c.sub /\ Parsed(c).verb = VerbOf(c)
                           /\ Placed(c) => Parsed(c).ns = NamespaceOf(c)
         /\ Misread(c) => Parsed(c).res = c.sub
<1>1. IsResource(c)
  <2> SUFFICES ASSUME ~IsResource(c) PROVE FALSE
    OBVIOUS
  <2>1. Parsed(c) = [ok |-> FALSE]
    BY ReadsOther, Zenon
  <2> QED
    BY <2>1
<1>2. CASE Misread(c)
  BY <1>1, <1>2, ReadsMisread, Zenon
<1>3. CASE ~Misread(c)
  BY <1>1, <1>3, ReadsResource, Zenon
<1> QED
  BY <1>2, <1>3, Zenon

\* What discovery lists is not misread.
LEMMA ListedIsRead ==
  ASSUME NEW c, IsCall(c), Parsed(c).ok, NEW e \in Entries,
         e.group = Parsed(c).group, e.res = Parsed(c).res
  PROVE  ~Misread(c)
<1> SUFFICES ASSUME Misread(c) PROVE FALSE
  OBVIOUS
<1>1. Parsed(c).group = c.group /\ Parsed(c).res = c.sub
  BY UrlIsRight, Zenon
<1>2. \A f \in Entries : f.group = c.group => f.res # c.sub
  BY DEF IsCall
<1> QED
  BY <1>1, <1>2, Zenon

\* The kind that the mapper has for it is its kind.
LEMMA KindIsRight ==
  ASSUME NEW c, IsCall(c), Parsed(c).ok, NEW e \in Entries,
         e.group = Parsed(c).group, e.res = Parsed(c).res, e.sub = "", e.kind # ""
  PROVE  ~Misread(c) /\ e.kind = KindOf(c)
<1>1. ~Misread(c)
  BY ListedIsRead, Zenon
<1>2. e.group = c.group /\ e.res = c.res
  BY <1>1, UrlIsRight, Zenon
<1> DEFINE own == {f \in Entries : f.group = c.group /\ f.res = c.res /\ f.sub = "" /\ f.kind # ""}
           k == CHOOSE f \in own : TRUE
<1>3. e \in own
  BY <1>2
<1>4. k \in own
  BY <1>3, Zenon
<1>5. KindOf(c) = k.kind
  BY <1>3 DEF KindOf
<1>6. k \in Entries /\ k.group = e.group /\ k.res = e.res /\ {k.sub, e.sub} = {""} /\ "" \notin {k.kind, e.kind}
  BY <1>2, <1>4
<1> HIDE DEF k, own
<1>7. k.kind = e.kind
  BY <1>6, EntriesAssumption, Zenon
<1> QED
  BY <1>1, <1>5, <1>7, Zenon

\* Only a pipeline run names Windows images, so its licence is asked for.
LEMMA WindowsIsAPipelineRun ==
  ASSUME NEW c, IsCall(c), c.body = "windows", KindOf(c) # ""
  PROVE  /\ KindOf(c) = "PipelineRun" /\ c.group = "tekton.dev"
         /\ VerbOf(c) \in {"create", "update", "patch"}
<1>1. c.group = "tekton.dev" /\ c.res = "pipelineruns" /\ c.method \in {"POST", "PUT", "PATCH"}
  BY DEF IsCall
<1> DEFINE own == {f \in Entries : f.group = c.group /\ f.res = c.res /\ f.sub = "" /\ f.kind # ""}
           k == CHOOSE f \in own : TRUE
<1>2. own # {}
  BY DEF KindOf
<1>3. k \in own
  BY <1>2, Zenon
<1>4. KindOf(c) = k.kind
  BY <1>2 DEF KindOf
<1>5. k.kind = "PipelineRun"
  BY <1>1, <1>3, EntriesAssumption
<1>6. VerbOf(c) \in {"create", "update", "patch"}
  BY <1>1 DEF VerbOf
<1> QED
  BY <1>1, <1>4, <1>5, <1>6, Zenon

-----------------------------------------------------------------------------
(***************************************************************************)
(* Steps of one request.                                                   *)
(***************************************************************************)
\* r2 is r but for some fields.
Keeps(r2, r, changed) ==
  DOMAIN r \subseteq DOMAIN r2 /\ \A x \in DOMAIN r \ changed : r2[x] = r[x]

LEMMA WithKeeps ==
  ASSUME NEW r, NEW f
  PROVE  /\ Keeps(With(r, f), r, DOMAIN f) /\ DOMAIN f \subseteq DOMAIN With(r, f)
         /\ \A x \in DOMAIN f : With(r, f)[x] = f[x]
  BY DEF With, Keeps

\* A request that is none for a resource is sent as it is.
LEMMA EndsUnread ==
  ASSUME NEW r, Sound(r), NEW r2, Keeps(r2, r, {"pc", "outcome"}),
         r.pc = "resolve", ~r.url.ok, r2.pc = "ended", r2.outcome = "sent"
  PROVE  Sound(r2)
<1>1. /\ r2.call = r.call /\ r2.url = r.url /\ r2.kind = r.kind /\ r2.known = r.known
      /\ r2.todo = r.todo /\ r2.prompted = r.prompted /\ r2.accepted = r.accepted
      /\ r2.unanswered = r.unanswered
  BY DEF Keeps, Sound, Formed, Fields
<1>2. Fields \subseteq DOMAIN r2
  BY DEF Keeps, Sound, Formed
<1> QED
  BY <1>1, <1>2 DEF Sound, Formed, Decided, Underway, Checked, Validation, Judging, Resolving

\* Errors and refusals that say nothing more.
LEMMA EndsOther ==
  ASSUME NEW r, Sound(r), NEW r2, Keeps(r2, r, {"pc", "outcome", "discoveryFailed", "cfg"}),
         r.pc \in Underway, r2.pc = "ended",
         r2.outcome \in {"error", "notfound", "denied", "declined"}
  PROVE  Sound(r2)
<1>1. /\ r2.call = r.call /\ r2.url = r.url /\ r2.kind = r.kind /\ r2.known = r.known
      /\ r2.todo = r.todo /\ r2.prompted = r.prompted /\ r2.accepted = r.accepted
      /\ r2.unanswered = r.unanswered
  BY DEF Keeps, Sound, Formed, Fields
<1>2. Fields \subseteq DOMAIN r2
  BY DEF Keeps, Sound, Formed
<1> QED
  BY <1>1, <1>2 DEF Sound, Formed, Decided, Underway, Checked, Validation, Judging, Resolving

\* An access review that is not denied is sent.
LEMMA EndsReview ==
  ASSUME NEW r, Sound(r), NEW r2, Keeps(r2, r, {"pc", "outcome", "cfg"}),
         r.pc = "check", r2.pc = "ended", r2.outcome = "sent", "cfg" \in DOMAIN r2, r2.cfg \in Configs,
         ~IsDeniedResource(r2.cfg, r.url.group, r.kind), IsReview(r.url)
  PROVE  Sound(r2)
<1>1. /\ r2.call = r.call /\ r2.url = r.url /\ r2.kind = r.kind /\ r2.known = r.known
      /\ r2.todo = r.todo /\ r2.prompted = r.prompted /\ r2.accepted = r.accepted
      /\ r2.unanswered = r.unanswered
  BY DEF Keeps, Sound, Formed, Fields
<1>2. Fields \subseteq DOMAIN r2
  BY DEF Keeps, Sound, Formed
<1>3. Admitted(r2)
  BY <1>1 DEF Sound, Admitted
<1> QED
  BY <1>1, <1>2, <1>3 DEF Sound, Formed, Decided, Underway, Checked, Validation, Judging, Resolving

\* A request is sent when its validators are done.
LEMMA EndsSent ==
  ASSUME NEW r, Sound(r), NEW r2, Keeps(r2, r, {"pc", "outcome"}),
         r.pc = "validate", AllDone(r.todo), r2.pc = "ended", r2.outcome = "sent"
  PROVE  Sound(r2)
<1>1. /\ r2.call = r.call /\ r2.url = r.url /\ r2.kind = r.kind /\ r2.known = r.known
      /\ r2.todo = r.todo /\ r2.prompted = r.prompted /\ r2.accepted = r.accepted
      /\ r2.unanswered = r.unanswered
  BY DEF Keeps, Sound, Formed, Fields
<1>2. Fields \subseteq DOMAIN r2
  BY DEF Keeps, Sound, Formed
<1>3. ("cfg" \in DOMAIN r => "cfg" \in DOMAIN r2 /\ r2.cfg = r.cfg)
  BY DEF Keeps
<1>4. Admitted(r) /\ ~IsReview(r.url) /\ Validated(r)
  BY DEF Sound, Checked, Validation
<1>5. Admitted(r2)
  BY <1>1, <1>3, <1>4 DEF Admitted
<1>6. Confirmed(r) /\ Licensed(r)
  <2>1. ~Confirms(r.todo)
    BY DEF AllDone, Confirms
  <2> QED
    BY <2>1, <1>4 DEF Validated
<1>7. Confirmed(r2) /\ Licensed(r2)
  BY <1>1, <1>3, <1>4, <1>6 DEF Confirmed, Licensed, Admitted
<1> QED
  BY <1>1, <1>2, <1>5, <1>7 DEF Sound, Formed, Decided, Underway, Checked, Validation, Judging, Resolving

\* A request that the schema refuses has not been put to the user.
LEMMA EndsInvalid ==
  ASSUME NEW r, Sound(r), NEW r2, Keeps(r2, r, {"pc", "outcome", "schemaFailed"}),
         r.pc \in Judging, r2.pc = "ended", r2.outcome = "invalid",
         r.call.body = "bad" \/ r2.schemaFailed
  PROVE  Sound(r2)
<1>1. /\ r2.call = r.call /\ r2.url = r.url /\ r2.kind = r.kind /\ r2.known = r.known
      /\ r2.todo = r.todo /\ r2.prompted = r.prompted /\ r2.accepted = r.accepted
      /\ r2.unanswered = r.unanswered
  BY DEF Keeps, Sound, Formed, Fields
<1>2. Fields \subseteq DOMAIN r2
  BY DEF Keeps, Sound, Formed
<1>3. Validated(r)
  BY DEF Sound, Validation
<1>4. ~r.prompted
  BY <1>3, TodosStep DEF Validated, NextIs
<1> QED
  BY <1>1, <1>2, <1>4 DEF Sound, Formed, Decided, Underway, Checked, Validation, Judging, Resolving

\* Nor has one that RBAC refuses.
LEMMA EndsForbidden ==
  ASSUME NEW r, Sound(r), NEW r2, Keeps(r2, r, {"pc", "outcome"}),
         r.pc = "review", r2.pc = "ended", r2.outcome = "forbidden",
         <<r.url.verb, r.url.group, r.url.res, "">> \notin Granted
  PROVE  Sound(r2)
<1>1. /\ r2.call = r.call /\ r2.url = r.url /\ r2.kind = r.kind /\ r2.known = r.known
      /\ r2.todo = r.todo /\ r2.prompted = r.prompted /\ r2.accepted = r.accepted
      /\ r2.unanswered = r.unanswered
  BY DEF Keeps, Sound, Formed, Fields
<1>2. Fields \subseteq DOMAIN r2
  BY DEF Keeps, Sound, Formed
<1>3. Validated(r) /\ ~Misread(r.call) /\ r.url.ok
  BY DEF Sound, Formed, Admitted, Underway, Checked, Validation, Judging, Resolving
<1>4. ~r.prompted
  BY <1>3, TodosStep DEF Validated, NextIs
<1> QED
  BY <1>1, <1>2, <1>3, <1>4 DEF Sound, Formed, Decided, Underway, Checked, Validation, Judging, Resolving

\* A request on its way to the check.
LEMMA Resolves ==
  ASSUME NEW r, Sound(r), NEW r2, Keeps(r2, r, {"pc", "list"}),
         r.pc \in Resolving, r2.pc \in Resolving, r.url.ok
  PROVE  Sound(r2)
<1>1. /\ r2.call = r.call /\ r2.url = r.url /\ r2.outcome = r.outcome /\ r2.kind = r.kind
      /\ r2.known = r.known /\ r2.todo = r.todo /\ r2.prompted = r.prompted
      /\ r2.accepted = r.accepted /\ r2.unanswered = r.unanswered
  BY DEF Keeps, Sound, Formed, Fields
<1>2. Fields \subseteq DOMAIN r2
  BY DEF Keeps, Sound, Formed
<1> QED
  BY <1>1, <1>2 DEF Sound, Formed, Underway, Checked, Validation, Judging, Resolving

\* One that is found.
LEMMA IsThere ==
  ASSUME NEW r, Sound(r), NEW r2, Keeps(r2, r, {"pc"}),
         r.pc \in Resolving, r2.pc = "check", r.url.ok, ~Misread(r.call)
  PROVE  Sound(r2)
<1>1. /\ r2.call = r.call /\ r2.url = r.url /\ r2.outcome = r.outcome /\ r2.kind = r.kind
      /\ r2.known = r.known /\ r2.todo = r.todo /\ r2.prompted = r.prompted
      /\ r2.accepted = r.accepted /\ r2.unanswered = r.unanswered
  BY DEF Keeps, Sound, Formed, Fields
<1>2. Fields \subseteq DOMAIN r2
  BY DEF Keeps, Sound, Formed
<1> QED
  BY <1>1, <1>2 DEF Sound, Formed, Underway, Checked, Validation, Judging, Resolving

\* One that the mapper knows.
LEMMA IsKnown ==
  ASSUME NEW r, Sound(r), NEW r2, Keeps(r2, r, {"pc", "known", "kind"}),
         r.pc = "resolve", r2.pc = "check", r.url.ok, ~Misread(r.call),
         r2.kind = KindOf(r.call), r2.kind # ""
  PROVE  Sound(r2)
<1>1. /\ r2.call = r.call /\ r2.url = r.url /\ r2.outcome = r.outcome /\ r2.todo = r.todo
      /\ r2.prompted = r.prompted /\ r2.accepted = r.accepted /\ r2.unanswered = r.unanswered
  BY DEF Keeps, Sound, Formed, Fields
<1>2. Fields \subseteq DOMAIN r2
  BY DEF Keeps, Sound, Formed
<1> QED
  BY <1>1, <1>2 DEF Sound, Formed, Underway, Checked, Validation, Judging, Resolving

\* One that is not denied.
LEMMA IsAdmitted ==
  ASSUME NEW r, Sound(r), NEW r2, Keeps(r2, r, {"pc", "cfg"}),
         r.pc = "check", r2.pc = "validators", "cfg" \in DOMAIN r2, r2.cfg \in Configs,
         ~IsDeniedResource(r2.cfg, r.url.group, r.kind), ~IsReview(r.url)
  PROVE  Sound(r2)
<1>1. /\ r2.call = r.call /\ r2.url = r.url /\ r2.outcome = r.outcome /\ r2.kind = r.kind
      /\ r2.known = r.known /\ r2.todo = r.todo /\ r2.prompted = r.prompted
      /\ r2.accepted = r.accepted /\ r2.unanswered = r.unanswered
  BY DEF Keeps, Sound, Formed, Fields
<1>2. Fields \subseteq DOMAIN r2
  BY DEF Keeps, Sound, Formed
<1>3. Admitted(r2)
  BY <1>1 DEF Sound, Admitted
<1> QED
  BY <1>1, <1>2, <1>3 DEF Sound, Formed, Underway, Checked, Validation, Judging, Resolving

\* One that is about to be validated.
LEMMA HasValidators ==
  ASSUME NEW r, Sound(r), NEW r2, Keeps(r2, r, {"pc", "by", "todo"}),
         r.pc = "validators", r2.pc = "validate", "by" \in DOMAIN r2, r2.by = r.cfg,
         r2.todo = validatorsFromConfig(r.cfg)
  PROVE  Sound(r2)
<1>1. /\ r2.call = r.call /\ r2.url = r.url /\ r2.outcome = r.outcome /\ r2.kind = r.kind
      /\ r2.known = r.known /\ r2.prompted = r.prompted /\ r2.accepted = r.accepted
      /\ r2.unanswered = r.unanswered
  BY DEF Keeps, Sound, Formed, Fields
<1>2. Fields \subseteq DOMAIN r2
  BY DEF Keeps, Sound, Formed
<1>3. ("cfg" \in DOMAIN r => "cfg" \in DOMAIN r2 /\ r2.cfg = r.cfg)
  BY DEF Keeps
<1>4. Admitted(r) /\ ~IsReview(r.url) /\ ~r.prompted
  BY DEF Sound, Underway, Checked, Validation, Judging, Resolving
<1>5. Admitted(r2)
  BY <1>1, <1>3, <1>4 DEF Admitted
<1>6. r2.todo \in Todos /\ ~AllDone(r2.todo) /\ (~Confirms(r2.todo) => r2.cfg.rules = {})
  BY <1>3, <1>4, TodosAre DEF Admitted
<1>7. Validated(r2)
  BY <1>1, <1>3, <1>4, <1>6 DEF Validated, Confirmed, Admitted, Judging
<1> QED
  BY <1>1, <1>2, <1>4, <1>5, <1>7 DEF Sound, Formed, Underway, Checked, Validation, Judging, Resolving

\* One that stays with the same validator.
LEMMA Moves ==
  ASSUME NEW r, Sound(r), NEW r2, Keeps(r2, r, {"pc", "used"}),
         r.pc \in Validation, r2.pc \in Validation,
         r2.pc = "review" => NextIs(r.todo, {"rbac"}),
         r2.pc \in Judging => NextIs(r.todo, {"schema"}),
         r2.pc # "asking"
  PROVE  Sound(r2)
<1>1. /\ r2.call = r.call /\ r2.url = r.url /\ r2.outcome = r.outcome /\ r2.kind = r.kind
      /\ r2.known = r.known /\ r2.todo = r.todo /\ r2.prompted = r.prompted
      /\ r2.accepted = r.accepted /\ r2.unanswered = r.unanswered
  BY DEF Keeps, Sound, Formed, Fields
<1>2. Fields \subseteq DOMAIN r2
  BY DEF Keeps, Sound, Formed
<1>3. ("cfg" \in DOMAIN r => "cfg" \in DOMAIN r2 /\ r2.cfg = r.cfg) /\ ("by" \in DOMAIN r => "by" \in DOMAIN r2 /\ r2.by = r.by)
  BY DEF Keeps
<1>4. Admitted(r) /\ ~IsReview(r.url) /\ Validated(r)
  BY DEF Sound, Checked, Validation, Judging
<1>5. Admitted(r2)
  BY <1>1, <1>3, <1>4 DEF Admitted
<1>6. (Confirmed(r) => Confirmed(r2)) /\ (Licensed(r) => Licensed(r2))
  BY <1>1, <1>3, <1>4 DEF Confirmed, Licensed, Admitted
<1>7. Validated(r2)
  BY <1>1, <1>3, <1>4, <1>6 DEF Validated, Admitted
<1> QED
  BY <1>1, <1>2, <1>4, <1>5, <1>7 DEF Sound, Formed, Underway, Checked, Validation, Judging, Resolving

\* One that is put to the user.
LEMMA Asks ==
  ASSUME NEW r, Sound(r), NEW r2, Keeps(r2, r, {"pc", "prompted"}),
         r.pc = "validate", r2.pc = "asking", NextIs(r.todo, {"confirm", "eula"})
  PROVE  Sound(r2)
<1>1. /\ r2.call = r.call /\ r2.url = r.url /\ r2.outcome = r.outcome /\ r2.kind = r.kind
      /\ r2.known = r.known /\ r2.todo = r.todo /\ r2.accepted = r.accepted
      /\ r2.unanswered = r.unanswered
  BY DEF Keeps, Sound, Formed, Fields
<1>2. Fields \subseteq DOMAIN r2
  BY DEF Keeps, Sound, Formed
<1>3. ("cfg" \in DOMAIN r => "cfg" \in DOMAIN r2 /\ r2.cfg = r.cfg) /\ ("by" \in DOMAIN r => "by" \in DOMAIN r2 /\ r2.by = r.by)
  BY DEF Keeps
<1>4. Admitted(r) /\ ~IsReview(r.url) /\ Validated(r)
  BY DEF Sound, Checked, Validation, Judging
<1>5. Admitted(r2)
  BY <1>1, <1>3, <1>4 DEF Admitted
<1>6. (Confirmed(r) => Confirmed(r2)) /\ (Licensed(r) => Licensed(r2))
  BY <1>1, <1>3, <1>4 DEF Confirmed, Licensed, Admitted
<1>7. OnlyAsks(r.todo)
  BY <1>4, TodosStep DEF NextIs, Validated
<1>8. Validated(r2)
  BY <1>1, <1>3, <1>4, <1>6, <1>7 DEF Validated, Admitted, Judging
<1> QED
  BY <1>1, <1>2, <1>4, <1>5, <1>8 DEF Sound, Formed, Underway, Checked, Validation, Judging, Resolving

\* One that a validator has let pass.
LEMMA Passes ==
  ASSUME NEW r, Sound(r), NEW r2, Keeps(r2, r, {"pc", "todo", "accepted", "unanswered"}),
         r.pc \in Validation, r2.pc = "validate", r.todo # <<>>, r2.todo = Tail(r.todo),
         Head(r.todo) = "confirm" => Confirmed(r2),
         Head(r.todo) = "eula" => Licensed(r2),
         Confirmed(r) => Confirmed(r2),
         r2.accepted \subseteq {"confirm", "eula"}
  PROVE  Sound(r2)
<1>1. /\ r2.call = r.call /\ r2.url = r.url /\ r2.outcome = r.outcome /\ r2.kind = r.kind
      /\ r2.known = r.known /\ r2.prompted = r.prompted
  BY DEF Keeps, Sound, Formed, Fields
<1>2. Fields \subseteq DOMAIN r2
  BY DEF Keeps, Sound, Formed
<1>3. ("cfg" \in DOMAIN r => "cfg" \in DOMAIN r2 /\ r2.cfg = r.cfg) /\ ("by" \in DOMAIN r => "by" \in DOMAIN r2 /\ r2.by = r.by)
  BY DEF Keeps
<1>4. Admitted(r) /\ ~IsReview(r.url) /\ Validated(r)
  BY DEF Sound, Checked, Validation, Judging
<1>5. Admitted(r2)
  BY <1>1, <1>3, <1>4 DEF Admitted
<1>6. r.todo \in Todos /\ (~Confirms(r.todo) => Confirmed(r)) /\ (r.prompted => OnlyAsks(r.todo))
  BY <1>4 DEF Validated
<1>7. r2.todo \in Todos
  BY <1>6, TodosStep
<1>8. ~Confirms(r2.todo) => Confirmed(r2)
  BY <1>6, TodosStep
<1>9. AllDone(r2.todo) => Licensed(r2)
  BY <1>6, TodosStep
<1>10. r2.prompted => OnlyAsks(r2.todo)
  BY <1>1, <1>6, TodosStep
<1>11. Validated(r2)
  BY <1>1, <1>3, <1>4, <1>7, <1>8, <1>9, <1>10 DEF Validated, Admitted, Judging
<1> QED
  BY <1>1, <1>2, <1>4, <1>5, <1>11 DEF Sound, Formed, Underway, Checked, Validation, Judging, Resolving

-----------------------------------------------------------------------------
(***************************************************************************)
(* Steps of the system, request by request.                                *)
(***************************************************************************)
Stays(q) == proc'[q] = proc[q]
Stops(q) == proc'[q] = Idle

\* A request comes, which changes nothing that is shared.
Starts(q) ==
  /\ schema' = schema /\ served' = served
  /\ \E c : IsCall(c) /\ (q[2] = "review" => c = ReviewCall) /\ proc'[q] = Request(c)

\* A request that goes on is the same request.  It has used a fresh schema, has
\* listed all that is there, and has lost nothing.
Works(q) ==
  /\ proc[q].pc \in Underway /\ Sound(proc'[q])
  /\ proc'[q].call = proc[q].call /\ proc'[q].url = proc[q].url /\ proc'[q].stale = proc[q].stale
  /\ proc'[q].there = proc[q].there /\ proc'[q].listed = proc[q].listed
  /\ proc'[q].used = proc[q].used \/ (proc'[q].used = schema'.id /\ schema'.id # 0 /\ ~schema'.expired)
  /\ proc'[q].pc \in Resolving => proc[q].pc \in Resolving
  /\ proc'[q].pc = "store" =>
       proc'[q].list = {e \in served : e.group = proc'[q].url.group} /\ proc'[q].list # {}
  /\ proc'[q].pc = "ended" /\ proc'[q].outcome = "notfound" => Missing(proc'[q])

Stored(q) ==
  /\ On(q, "store")
  /\ raw' = [g \in DOMAIN raw \cup {proc[q].url.group} |->
               IF g = proc[q].url.group THEN proc[q].list ELSE raw[g]]

\* What is shared only gets more, or newer.
SharedGrows ==
  /\ served \subseteq served' /\ served' \subseteq Entries /\ mapper' \subseteq served'
  /\ raw' = raw \/ \E q \in Procs : Stored(q)
  /\ live' \in Configs /\ valid' \subseteq Configs
  /\ schema'.id \in Nat /\ schema'.id >= schema.id /\ schema'.expired \in BOOLEAN
  /\ schema'.id = schema.id /\ schema.expired => schema'.expired

EachGoes ==
  DOMAIN proc' = Procs /\ \A q \in Procs : Stays(q) \/ Stops(q) \/ Starts(q) \/ Works(q)

LEMMA NotIdle ==
  ASSUME Requests, NEW p \in Procs, proc[p].pc \in Underway \cup {"ended"}
  PROVE  proc[p] # Idle /\ Sound(proc[p]) /\ IsReviewCall(p, proc[p])
<1>1. proc[p] # Idle
  BY DEF Idle, Underway, Resolving, Checked, Validation, Judging
<1> QED
  BY <1>1 DEF Requests

LEMMA RequestIs ==
  ASSUME NEW c, IsCall(c)
  PROVE  LET r == Request(c) IN
         /\ Sound(r) /\ r.call = c /\ r.url = Parsed(c) /\ r.pc = "resolve" /\ r.used = 0
         /\ r.stale = (IF schema.expired THEN schema.id ELSE 0)
         /\ r.there = (r.url.ok /\ Lists(served, r.url))
         /\ r.listed = (r.url.ok /\ Listed(r.url.group))
<1> DEFINE r == Request(c)
           u == Parsed(c)
           l == Listed(u.group)
           h == Lists(served, u)
<1> HIDE DEF u, l, h
<1>1. r = [pc |-> "resolve", call |-> c, url |-> u, outcome |-> "none",
           kind |-> "", known |-> FALSE, todo |-> <<>>, used |-> 0, list |-> {},
           prompted |-> FALSE, accepted |-> {}, unanswered |-> FALSE,
           discoveryFailed |-> FALSE, schemaFailed |-> FALSE,
           stale |-> IF schema.expired THEN schema.id ELSE 0,
           there |-> u.ok /\ h, listed |-> u.ok /\ l]
  BY DEF Request, u, l, h
<1> HIDE DEF r
<1>2. /\ r.pc = "resolve" /\ r.call = c /\ r.url = u /\ r.outcome = "none" /\ r.known = FALSE
      /\ r.accepted = {} /\ r.prompted = FALSE /\ r.used = 0 /\ r.stale = (IF schema.expired THEN schema.id ELSE 0)
      /\ r.there = (u.ok /\ h) /\ r.listed = (u.ok /\ l)
  BY <1>1
<1>3. Fields \subseteq DOMAIN r
  BY <1>1 DEF Fields
<1>4. Sound(r)
  BY <1>2, <1>3 DEF Sound, Formed, u, Underway, Resolving, Checked, Validation, Judging
<1> QED
  BY <1>2, <1>4 DEF r, u, h, l

LEMMA RequestsKept ==
  ASSUME Requests, EachGoes
  PROVE  Requests'
<1> SUFFICES ASSUME NEW q \in Procs
             PROVE  proc'[q] = Idle \/ (Sound(proc'[q]) /\ IsReviewCall(q, proc'[q]))
  BY DEF Requests, EachGoes
<1>1. CASE Stays(q)
  BY <1>1 DEF Requests, Stays
<1>2. CASE Stops(q)
  BY <1>2 DEF Stops
<1>3. CASE Starts(q)
  BY <1>3, RequestIs DEF Starts, IsReviewCall
<1>4. CASE Works(q)
  <2>1. IsReviewCall(q, proc[q])
    BY <1>4, NotIdle DEF Works
  <2> QED
    BY <1>4, <2>1 DEF Works, IsReviewCall
<1> QED
  BY <1>1, <1>2, <1>3, <1>4 DEF EachGoes

LEMMA DiscoveredKept ==
  ASSUME Requests, Discovered, EachGoes, SharedGrows
  PROVE  Discovered'
<1>1. served' \subseteq Entries /\ mapper' \subseteq served' /\ served \subseteq served'
  BY DEF SharedGrows
<1>2. ASSUME NEW g \in DOMAIN raw' PROVE raw'[g] \subseteq served' /\ raw'[g] # {}
  <2>1. CASE raw' = raw
    BY <1>1, <1>2, <2>1 DEF Discovered
  <2>2. ASSUME NEW q \in Procs, Stored(q) PROVE raw'[g] \subseteq served' /\ raw'[g] # {}
    <3>1. proc[q].list \subseteq served /\ proc[q].list # {}
      BY <2>2 DEF Discovered, Stored
    <3> QED
      BY <1>1, <1>2, <2>2, <3>1 DEF Discovered, Stored
  <2> QED
    BY <2>1, <2>2 DEF SharedGrows
<1>3. ASSUME NEW q \in Procs, proc'[q].pc = "store" PROVE proc'[q].list \subseteq served' /\ proc'[q].list # {}
  <2>1. CASE Stays(q)
    BY <1>1, <1>3, <2>1 DEF Discovered, On, Stays
  <2>2. CASE Stops(q)
    BY <1>3, <2>2 DEF Stops, Idle
  <2>3. CASE Starts(q)
    BY <1>3, <2>3, RequestIs DEF Starts
  <2>4. CASE Works(q)
    BY <1>1, <1>3, <2>4 DEF Works
  <2> QED
    BY <2>1, <2>2, <2>3, <2>4 DEF EachGoes
<1> QED
  BY <1>1, <1>2, <1>3 DEF Discovered, On

LEMMA FindableKept ==
  ASSUME Requests, Discovered, EachGoes, SharedGrows, NEW u, Findable(u, served, raw, proc)
  PROVE  Findable(u, served', raw', proc')
<1>1. Lists(served', u)
  BY DEF Findable, Lists, SharedGrows
<1>2. ASSUME u.group \in DOMAIN raw' PROVE Lists(raw'[u.group], u)
  <2>1. CASE raw' = raw
    BY <1>2, <2>1 DEF Findable
  <2>2. ASSUME NEW q \in Procs, Stored(q) PROVE Lists(raw'[u.group], u)
    <3>1. CASE proc[q].url.group = u.group
      <4>1. raw'[u.group] = proc[q].list
        BY <2>2, <3>1 DEF Stored
      <4> QED
        BY <2>2, <3>1, <4>1 DEF Findable, Stored, On
    <3>2. CASE proc[q].url.group # u.group
      <4>1. raw'[u.group] = raw[u.group] /\ u.group \in DOMAIN raw
        BY <1>2, <2>2, <3>2 DEF Stored
      <4> QED
        BY <4>1 DEF Findable
    <3> QED
      BY <3>1, <3>2
  <2> QED
    BY <2>1, <2>2 DEF SharedGrows
<1>3. ASSUME NEW q \in Procs, proc'[q].pc = "store", proc'[q].url.group = u.group
      PROVE  Lists(proc'[q].list, u)
  <2>1. CASE Stays(q)
    BY <1>3, <2>1 DEF Findable, On, Stays
  <2>2. CASE Stops(q)
    BY <1>3, <2>2 DEF Stops, Idle
  <2>3. CASE Starts(q)
    BY <1>3, <2>3, RequestIs DEF Starts
  <2>4. CASE Works(q)
    BY <1>3, <2>4 DEF Works, Findable, Lists
  <2> QED
    BY <2>1, <2>2, <2>3, <2>4 DEF EachGoes
<1> QED
  BY <1>1, <1>2, <1>3 DEF Findable, On

LEMMA NoneLostKept ==
  ASSUME Requests, Discovered, NoneLost, EachGoes, SharedGrows
  PROVE  NoneLost'
<1> SUFFICES ASSUME NEW q \in Procs
             PROVE  /\ proc'[q].pc \in Resolving /\ proc'[q].there /\ ~proc'[q].listed =>
                         Findable(proc'[q].url, served', raw', proc')
                    /\ proc'[q].pc = "ended" /\ proc'[q].outcome = "notfound" => Missing(proc'[q])
  BY DEF NoneLost, On
<1>1. CASE Stays(q)
  <2>1. proc[q].pc \in Resolving /\ proc[q].there /\ ~proc[q].listed =>
        Findable(proc[q].url, served', raw', proc')
    BY FindableKept DEF NoneLost
  <2> QED
    BY <1>1, <2>1 DEF NoneLost, On, Stays
<1>2. CASE Stops(q)
  BY <1>2 DEF Stops, Idle, Resolving
<1>3. CASE Starts(q)
  <2>1. PICK c : IsCall(c) /\ proc'[q] = Request(c)
    BY <1>3 DEF Starts
  <2> DEFINE r == Request(c)
             u == r.url
  <2>2. /\ r.pc = "resolve"
        /\ r.there = (r.url.ok /\ Lists(served, r.url)) /\ r.listed = (r.url.ok /\ Listed(r.url.group))
    BY <2>1, RequestIs, Zenon
  <2> HIDE DEF r
  <2>3. ASSUME r.there, ~r.listed PROVE Findable(u, served, raw, proc)
    <3>1. Lists(served, u) /\ ~Listed(u.group)
      BY <2>2, <2>3, Zenon
    <3>2. u.group \notin DOMAIN raw
      BY <3>1 DEF Discovered, Listed
    <3>3. ~\E p \in Procs : On(p, "store") /\ proc[p].url.group = u.group
      BY <3>1 DEF Discovered, Listed
    <3> QED
      BY <3>1, <3>2, <3>3, Zenon DEF Findable, On
  <2>4. r.there /\ ~r.listed => Findable(r.url, served', raw', proc')
    BY <2>3, FindableKept, Zenon DEF u
  <2>5. proc'[q] = r
    BY <2>1 DEF r
  <2>6. proc'[q].pc # "ended"
    BY <2>5, <2>2
  <2> QED
    BY <2>4, <2>5, <2>6, Zenon
<1>4. CASE Works(q)
  <2>1. proc[q].pc \in Resolving /\ proc[q].there /\ ~proc[q].listed =>
        Findable(proc[q].url, served', raw', proc')
    BY FindableKept DEF NoneLost
  <2> QED
    BY <1>4, <2>1 DEF Works
<1> QED
  BY <1>1, <1>2, <1>3, <1>4 DEF EachGoes

LEMMA SchemaNewerKept ==
  ASSUME Requests, SchemaNewer, EachGoes, SharedGrows
  PROVE  SchemaNewer'
<1>1. /\ schema.id \in Nat /\ schema'.id \in Nat /\ schema'.id >= schema.id /\ schema'.expired \in BOOLEAN
      /\ schema'.id = schema.id /\ schema.expired => schema'.expired
  BY DEF SharedGrows, SchemaNewer
<1> SUFFICES ASSUME NEW q \in Procs, proc'[q] # Idle
             PROVE  /\ proc'[q].stale \in Nat /\ proc'[q].stale <= schema'.id
                    /\ proc'[q].stale # 0 /\ proc'[q].stale = schema'.id => schema'.expired
                    /\ proc'[q].used \in 0 .. schema'.id /\ (proc'[q].used # 0 => proc'[q].used > proc'[q].stale)
  BY <1>1 DEF SchemaNewer
<1>2. CASE Stays(q)
  BY <1>1, <1>2 DEF Stays, SchemaNewer
<1>3. CASE Stops(q)
  BY <1>3 DEF Stops
<1>4. CASE Starts(q)
  <2>1. schema' = schema /\ proc'[q].used = 0 /\ proc'[q].stale = IF schema.expired THEN schema.id ELSE 0
    BY <1>4, RequestIs DEF Starts
  <2> QED
    BY <1>1, <2>1
<1>5. CASE Works(q)
  <2>1. proc[q] # Idle
    BY <1>5, NotIdle DEF Works
  <2>2. /\ proc[q].stale \in Nat /\ proc[q].stale <= schema.id
        /\ proc[q].stale # 0 /\ proc[q].stale = schema.id => schema.expired
        /\ proc[q].used \in 0 .. schema.id /\ (proc[q].used # 0 => proc[q].used > proc[q].stale)
    BY <2>1 DEF SchemaNewer
  <2>3. /\ proc'[q].stale = proc[q].stale
        /\ \/ proc'[q].used = proc[q].used
           \/ proc'[q].used = schema'.id /\ schema'.id # 0 /\ ~schema'.expired
    BY <1>5 DEF Works
  <2> QED
    BY <1>1, <2>2, <2>3
<1> QED
  BY <1>2, <1>3, <1>4, <1>5 DEF EachGoes

\* Together: a step in which each request stays, stops, starts or works, and what is
\* shared only grows, keeps the invariant.
LEMMA Kept ==
  ASSUME Inv, EachGoes, SharedGrows
  PROVE  Inv'
<1>1. Requests /\ Discovered /\ NoneLost /\ SchemaNewer
  BY DEF Inv
<1>2. Configured'
  BY DEF SharedGrows, Configured
<1> QED
  BY <1>1, <1>2, RequestsKept, DiscoveredKept, NoneLostKept, SchemaNewerKept DEF Inv

-----------------------------------------------------------------------------
(***************************************************************************)
(* The actions.                                                            *)
(***************************************************************************)
\* A step of one request that leaves what is shared alone.
Quiet ==
  /\ served' = served /\ raw' = raw /\ schema' = schema /\ mapper' = mapper
  /\ live' = live /\ valid' \subseteq Configs

LEMMA QuietGrows ==
  ASSUME Inv, Quiet
  PROVE  SharedGrows
  BY DEF Inv, Quiet, SharedGrows, Configured, Discovered, SchemaNewer

\* What Set does.
LEMMA SetIs ==
  ASSUME Requests, NEW p \in Procs, NEW f, Set(p, f), proc[p].pc \in Underway
  PROVE  /\ DOMAIN proc' = Procs /\ \A q \in Procs : q # p => Stays(q)
         /\ Sound(proc[p])
         /\ Keeps(proc'[p], proc[p], DOMAIN f)
         /\ DOMAIN f \subseteq DOMAIN proc'[p] /\ \A x \in DOMAIN f : proc'[p][x] = f[x]
<1>1. DOMAIN proc = Procs
  BY DEF Requests
<1>2. proc' = [proc EXCEPT ![p] = With(proc[p], f)]
  BY DEF Set
<1>3. proc'[p] = With(proc[p], f) /\ DOMAIN proc' = Procs /\ \A q \in Procs : q # p => proc'[q] = proc[q]
  BY <1>1, <1>2
<1>4. Sound(proc[p])
  BY NotIdle
<1> QED
  BY <1>3, <1>4, WithKeeps DEF Stays

LEMMA ByOne ==
  ASSUME Inv, NEW p \in Procs, DOMAIN proc' = Procs, \A q \in Procs : q # p => Stays(q),
         Works(p), SharedGrows
  PROVE  Inv'
<1>1. EachGoes
  BY DEF EachGoes
<1> QED
  BY <1>1, Kept

\* A request that goes on, by the fields that change.
LEMMA Changes ==
  ASSUME NEW p \in Procs, NEW f, proc[p].pc \in Underway, "pc" \in DOMAIN f,
         Sound(proc[p]), Keeps(proc'[p], proc[p], DOMAIN f), \A x \in DOMAIN f : proc'[p][x] = f[x],
         DOMAIN f \cap {"call", "url", "stale", "there", "listed"} = {},
         Sound(proc'[p]),
         "used" \in DOMAIN f => f.used = schema'.id /\ schema'.id # 0 /\ ~schema'.expired,
         f.pc \in Resolving => proc[p].pc \in Resolving,
         f.pc = "store" => /\ "list" \in DOMAIN f /\ f.list # {}
                           /\ f.list = {e \in served : e.group = proc[p].url.group},
         f.pc = "ended" => "outcome" \in DOMAIN f /\ (f.outcome = "notfound" => Missing(proc'[p]))
  PROVE  Works(p)
<1> DEFINE r == proc[p]
           r2 == proc'[p]
<1> HIDE DEF r, r2
<1>1. /\ Fields \subseteq DOMAIN r /\ \A x \in DOMAIN r \ DOMAIN f : r2[x] = r[x]
      /\ \A x \in DOMAIN f : r2[x] = f[x]
  BY DEF Sound, Formed, Keeps, r, r2
<1>2. r2.call = r.call /\ r2.url = r.url /\ r2.stale = r.stale /\ r2.there = r.there /\ r2.listed = r.listed
  BY <1>1 DEF Fields
<1>3. r2.used = r.used \/ (r2.used = schema'.id /\ schema'.id # 0 /\ ~schema'.expired)
  BY <1>1 DEF Fields
<1>4. r2.pc \in Resolving => r.pc \in Resolving
  BY <1>1 DEF r
<1>5. r2.pc = "store" => r2.list = {e \in served : e.group = r2.url.group} /\ r2.list # {}
  BY <1>1, <1>2 DEF r
<1>6. r2.pc = "ended" /\ r2.outcome = "notfound" => Missing(r2)
  BY <1>1 DEF r2
<1> QED
  BY <1>2, <1>3, <1>4, <1>5, <1>6 DEF Works, r, r2

\* A step that sets fields of one request.
LEMMA OneSet ==
  ASSUME Inv, NEW p \in Procs, NEW f, Set(p, f), proc[p].pc \in Underway, "pc" \in DOMAIN f,
         DOMAIN f \cap {"call", "url", "stale", "there", "listed"} = {},
         Sound(proc'[p]),
         "used" \in DOMAIN f => f.used = schema'.id /\ schema'.id # 0 /\ ~schema'.expired,
         f.pc \in Resolving => proc[p].pc \in Resolving,
         f.pc = "store" => /\ "list" \in DOMAIN f /\ f.list # {}
                           /\ f.list = {e \in served : e.group = proc[p].url.group},
         f.pc = "ended" => "outcome" \in DOMAIN f /\ (f.outcome = "notfound" => Missing(proc'[p])),
         SharedGrows
  PROVE  Inv'
<1>1. /\ DOMAIN proc' = Procs /\ \A q \in Procs : q # p => Stays(q)
      /\ Sound(proc[p])
      /\ Keeps(proc'[p], proc[p], DOMAIN f)
      /\ \A x \in DOMAIN f : proc'[p][x] = f[x]
  BY SetIs DEF Inv
<1>2. Works(p)
  BY <1>1, Changes
<1> QED
  BY <1>1, <1>2, ByOne

\* Resolve, for a request that is none for a resource.
LEMMA UnreadIsSent ==
  ASSUME Inv, NEW p \in Procs, On(p, "resolve"), SharedGrows,
         Set(p, [pc |-> "ended", outcome |-> "sent"]),
         ~proc[p].url.ok
  PROVE  Inv'
<1> DEFINE f == [pc |-> "ended", outcome |-> "sent"]
           r == proc[p]
           r2 == proc'[p]
<1>1. DOMAIN f = {"pc", "outcome"} /\ f.pc = "ended" /\ f.outcome = "sent"
  OBVIOUS
<1> HIDE DEF f
<1>2. proc[p].pc \in Underway
  BY DEF On, Underway, Resolving, Checked, Validation, Judging
<1>3. /\ Sound(proc[p]) /\ Keeps(proc'[p], proc[p], DOMAIN f)
      /\ DOMAIN f \subseteq DOMAIN proc'[p] /\ \A x \in DOMAIN f : proc'[p][x] = f[x]
  BY <1>2, SetIs DEF Inv, f
<1> HIDE DEF r, r2
<1>8. Sound(r2)
  BY <1>1, <1>3, EndsUnread DEF r, r2, On, Keeps
<1> QED
  BY <1>1, <1>2, <1>8, OneSet DEF f, r, r2, Resolving, On

\* Send.
LEMMA AllDoneIsSent ==
  ASSUME Inv, NEW p \in Procs, On(p, "validate"), SharedGrows,
         Set(p, [pc |-> "ended", outcome |-> "sent"]),
         proc[p].todo = <<>>
  PROVE  Inv'
<1> DEFINE f == [pc |-> "ended", outcome |-> "sent"]
           r == proc[p]
           r2 == proc'[p]
<1>1. DOMAIN f = {"pc", "outcome"} /\ f.pc = "ended" /\ f.outcome = "sent"
  OBVIOUS
<1> HIDE DEF f
<1>2. proc[p].pc \in Underway
  BY DEF On, Underway, Resolving, Checked, Validation, Judging
<1>3. /\ Sound(proc[p]) /\ Keeps(proc'[p], proc[p], DOMAIN f)
      /\ DOMAIN f \subseteq DOMAIN proc'[p] /\ \A x \in DOMAIN f : proc'[p][x] = f[x]
  BY <1>2, SetIs DEF Inv, f
<1> HIDE DEF r, r2
<1>8. Sound(r2)
  BY <1>1, <1>3, EndsSent DEF r, r2, On, Keeps, AllDone
<1> QED
  BY <1>1, <1>2, <1>8, OneSet DEF f, r, r2, Resolving, On

\* The request fails, or the user declines it.
LEMMA Fails ==
  ASSUME Inv, NEW p \in Procs, proc[p].pc \in Underway, NEW o \in {"error", "declined"}, SharedGrows,
         Set(p, [pc |-> "ended", outcome |-> o])
  PROVE  Inv'
<1> DEFINE f == [pc |-> "ended", outcome |-> o]
           r == proc[p]
           r2 == proc'[p]
<1>1. DOMAIN f = {"pc", "outcome"} /\ f.pc = "ended" /\ f.outcome = o
  OBVIOUS
<1> HIDE DEF f
<1>2. proc[p].pc \in Underway
  BY DEF On, Underway, Resolving, Checked, Validation, Judging
<1>3. /\ Sound(proc[p]) /\ Keeps(proc'[p], proc[p], DOMAIN f)
      /\ DOMAIN f \subseteq DOMAIN proc'[p] /\ \A x \in DOMAIN f : proc'[p][x] = f[x]
  BY <1>2, SetIs DEF Inv, f
<1> HIDE DEF r, r2
<1>8. Sound(r2)
  BY <1>1, <1>3, EndsOther DEF r, r2, On, Keeps
<1> QED
  BY <1>1, <1>2, <1>8, OneSet DEF f, r, r2, Resolving, On

\* Judge, for a bad manifest.
LEMMA IsInvalid ==
  ASSUME Inv, NEW p \in Procs, On(p, "judge"), SharedGrows, proc[p].call.body = "bad",
         Set(p, [pc |-> "ended", outcome |-> "invalid"])
  PROVE  Inv'
<1> DEFINE f == [pc |-> "ended", outcome |-> "invalid"]
           r == proc[p]
           r2 == proc'[p]
<1>1. DOMAIN f = {"pc", "outcome"} /\ f.pc = "ended" /\ f.outcome = "invalid"
  OBVIOUS
<1> HIDE DEF f
<1>2. proc[p].pc \in Underway
  BY DEF On, Underway, Resolving, Checked, Validation, Judging
<1>3. /\ Sound(proc[p]) /\ Keeps(proc'[p], proc[p], DOMAIN f)
      /\ DOMAIN f \subseteq DOMAIN proc'[p] /\ \A x \in DOMAIN f : proc'[p][x] = f[x]
  BY <1>2, SetIs DEF Inv, f
<1> HIDE DEF r, r2
<1>8. Sound(r2)
  BY <1>1, <1>3, EndsInvalid DEF r, r2, On, Keeps, Judging
<1> QED
  BY <1>1, <1>2, <1>8, OneSet DEF f, r, r2, Resolving, On

\* Check, for a denied resource.
LEMMA IsDenied ==
  ASSUME Inv, NEW p \in Procs, On(p, "check"), NEW c \in Configs, SharedGrows,
         Set(p, [pc |-> "ended", outcome |-> "denied", cfg |-> c])
  PROVE  Inv'
<1> DEFINE f == [pc |-> "ended", outcome |-> "denied", cfg |-> c]
           r == proc[p]
           r2 == proc'[p]
<1>1. DOMAIN f = {"pc", "outcome", "cfg"} /\ f.pc = "ended" /\ f.outcome = "denied" /\ f.cfg = c
  OBVIOUS
<1> HIDE DEF f
<1>2. proc[p].pc \in Underway
  BY DEF On, Underway, Resolving, Checked, Validation, Judging
<1>3. /\ Sound(proc[p]) /\ Keeps(proc'[p], proc[p], DOMAIN f)
      /\ DOMAIN f \subseteq DOMAIN proc'[p] /\ \A x \in DOMAIN f : proc'[p][x] = f[x]
  BY <1>2, SetIs DEF Inv, f
<1> HIDE DEF r, r2
<1>8. Sound(r2)
  BY <1>1, <1>3, <1>2, EndsOther DEF r, r2, On, Keeps
<1> QED
  BY <1>1, <1>2, <1>8, OneSet DEF f, r, r2, Resolving, On

\* Check, for an access review.
LEMMA ReviewIsSent ==
  ASSUME Inv, NEW p \in Procs, On(p, "check"), NEW c \in Configs, SharedGrows,
         Set(p, [pc |-> "ended", outcome |-> "sent", cfg |-> c]),
         ~IsDeniedResource(c, proc[p].url.group, proc[p].kind), IsReview(proc[p].url)
  PROVE  Inv'
<1> DEFINE f == [pc |-> "ended", outcome |-> "sent", cfg |-> c]
           r == proc[p]
           r2 == proc'[p]
<1>1. DOMAIN f = {"pc", "outcome", "cfg"} /\ f.pc = "ended" /\ f.outcome = "sent" /\ f.cfg = c
  OBVIOUS
<1> HIDE DEF f
<1>2. proc[p].pc \in Underway
  BY DEF On, Underway, Resolving, Checked, Validation, Judging
<1>3. /\ Sound(proc[p]) /\ Keeps(proc'[p], proc[p], DOMAIN f)
      /\ DOMAIN f \subseteq DOMAIN proc'[p] /\ \A x \in DOMAIN f : proc'[p][x] = f[x]
  BY <1>2, SetIs DEF Inv, f
<1> HIDE DEF r, r2
<1>8. Sound(r2)
  BY <1>1, <1>3, EndsReview DEF r, r2, On, Keeps
<1> QED
  BY <1>1, <1>2, <1>8, OneSet DEF f, r, r2, Resolving, On

\* Check, for any other.
LEMMA GoesToValidators ==
  ASSUME Inv, NEW p \in Procs, On(p, "check"), NEW c \in Configs, SharedGrows,
         Set(p, [pc |-> "validators", cfg |-> c]),
         ~IsDeniedResource(c, proc[p].url.group, proc[p].kind), ~IsReview(proc[p].url)
  PROVE  Inv'
<1> DEFINE f == [pc |-> "validators", cfg |-> c]
           r == proc[p]
           r2 == proc'[p]
<1>1. DOMAIN f = {"pc", "cfg"} /\ f.pc = "validators" /\ f.cfg = c
  OBVIOUS
<1> HIDE DEF f
<1>2. proc[p].pc \in Underway
  BY DEF On, Underway, Resolving, Checked, Validation, Judging
<1>3. /\ Sound(proc[p]) /\ Keeps(proc'[p], proc[p], DOMAIN f)
      /\ DOMAIN f \subseteq DOMAIN proc'[p] /\ \A x \in DOMAIN f : proc'[p][x] = f[x]
  BY <1>2, SetIs DEF Inv, f
<1> HIDE DEF r, r2
<1>8. Sound(r2)
  BY <1>1, <1>3, IsAdmitted DEF r, r2, On, Keeps
<1> QED
  BY <1>1, <1>2, <1>8, OneSet DEF f, r, r2, Resolving, On

\* Resolve, for a resource that the mapper does not know.
LEMMA GoesToDiscover ==
  ASSUME Inv, NEW p \in Procs, On(p, "resolve"), SharedGrows,
         Set(p, [pc |-> "discover"]),
         proc[p].url.ok
  PROVE  Inv'
<1> DEFINE f == [pc |-> "discover"]
           r == proc[p]
           r2 == proc'[p]
<1>1. DOMAIN f = {"pc"} /\ f.pc = "discover"
  OBVIOUS
<1> HIDE DEF f
<1>2. proc[p].pc \in Underway
  BY DEF On, Underway, Resolving, Checked, Validation, Judging
<1>3. /\ Sound(proc[p]) /\ Keeps(proc'[p], proc[p], DOMAIN f)
      /\ DOMAIN f \subseteq DOMAIN proc'[p] /\ \A x \in DOMAIN f : proc'[p][x] = f[x]
  BY <1>2, SetIs DEF Inv, f
<1> HIDE DEF r, r2
<1>8. Sound(r2)
  BY <1>1, <1>3, Resolves DEF r, r2, On, Keeps, Resolving
<1> QED
  BY <1>1, <1>2, <1>8, OneSet DEF f, r, r2, Resolving, On

\* Discover, with a list.
LEMMA GoesToStore ==
  ASSUME Inv, NEW p \in Procs, On(p, "discover"), NEW l, SharedGrows,
         Set(p, [pc |-> "store", list |-> l]),
         proc[p].url.ok, l # {}, l = {e \in served : e.group = proc[p].url.group}
  PROVE  Inv'
<1> DEFINE f == [pc |-> "store", list |-> l]
           r == proc[p]
           r2 == proc'[p]
<1>1. DOMAIN f = {"pc", "list"} /\ f.pc = "store" /\ f.list = l
  OBVIOUS
<1> HIDE DEF f
<1>2. proc[p].pc \in Underway
  BY DEF On, Underway, Resolving, Checked, Validation, Judging
<1>3. /\ Sound(proc[p]) /\ Keeps(proc'[p], proc[p], DOMAIN f)
      /\ DOMAIN f \subseteq DOMAIN proc'[p] /\ \A x \in DOMAIN f : proc'[p][x] = f[x]
  BY <1>2, SetIs DEF Inv, f
<1> HIDE DEF r, r2
<1>8. Sound(r2)
  BY <1>1, <1>3, Resolves DEF r, r2, On, Keeps, Resolving
<1> QED
  BY <1>1, <1>2, <1>8, OneSet DEF f, r, r2, Resolving, On

\* A resource that is found.
LEMMA GoesToCheck ==
  ASSUME Inv, NEW p \in Procs, proc[p].pc \in Resolving, SharedGrows,
         Set(p, [pc |-> "check"]),
         proc[p].url.ok, ~Misread(proc[p].call)
  PROVE  Inv'
<1> DEFINE f == [pc |-> "check"]
           r == proc[p]
           r2 == proc'[p]
<1>1. DOMAIN f = {"pc"} /\ f.pc = "check"
  OBVIOUS
<1> HIDE DEF f
<1>2. proc[p].pc \in Underway
  BY DEF On, Underway, Resolving, Checked, Validation, Judging
<1>3. /\ Sound(proc[p]) /\ Keeps(proc'[p], proc[p], DOMAIN f)
      /\ DOMAIN f \subseteq DOMAIN proc'[p] /\ \A x \in DOMAIN f : proc'[p][x] = f[x]
  BY <1>2, SetIs DEF Inv, f
<1> HIDE DEF r, r2
<1>8. Sound(r2)
  BY <1>1, <1>3, IsThere DEF r, r2, On, Keeps
<1> QED
  BY <1>1, <1>2, <1>8, OneSet DEF f, r, r2, Resolving, On

\* Resolve, for a resource that the mapper knows.
LEMMA IsResolved ==
  ASSUME Inv, NEW p \in Procs, On(p, "resolve"), NEW k, SharedGrows,
         Set(p, [pc |-> "check", known |-> TRUE, kind |-> k]),
         proc[p].url.ok, ~Misread(proc[p].call), k = KindOf(proc[p].call), k # ""
  PROVE  Inv'
<1> DEFINE f == [pc |-> "check", known |-> TRUE, kind |-> k]
           r == proc[p]
           r2 == proc'[p]
<1>1. DOMAIN f = {"pc", "known", "kind"} /\ f.pc = "check" /\ f.known = TRUE /\ f.kind = k
  OBVIOUS
<1> HIDE DEF f
<1>2. proc[p].pc \in Underway
  BY DEF On, Underway, Resolving, Checked, Validation, Judging
<1>3. /\ Sound(proc[p]) /\ Keeps(proc'[p], proc[p], DOMAIN f)
      /\ DOMAIN f \subseteq DOMAIN proc'[p] /\ \A x \in DOMAIN f : proc'[p][x] = f[x]
  BY <1>2, SetIs DEF Inv, f
<1> HIDE DEF r, r2
<1>8. Sound(r2)
  BY <1>1, <1>3, IsKnown DEF r, r2, On, Keeps
<1> QED
  BY <1>1, <1>2, <1>8, OneSet DEF f, r, r2, Resolving, On

\* A resource that is not found.
LEMMA IsNotFound ==
  ASSUME Inv, NEW p \in Procs, proc[p].pc \in Resolving, SharedGrows,
         Set(p, [pc |-> "ended", outcome |-> "notfound"]),
         ~proc[p].there \/ proc[p].listed
  PROVE  Inv'
<1> DEFINE f == [pc |-> "ended", outcome |-> "notfound"]
           r == proc[p]
           r2 == proc'[p]
<1>1. DOMAIN f = {"pc", "outcome"} /\ f.pc = "ended" /\ f.outcome = "notfound"
  OBVIOUS
<1> HIDE DEF f
<1>2. proc[p].pc \in Underway
  BY DEF On, Underway, Resolving, Checked, Validation, Judging
<1>3. /\ Sound(proc[p]) /\ Keeps(proc'[p], proc[p], DOMAIN f)
      /\ DOMAIN f \subseteq DOMAIN proc'[p] /\ \A x \in DOMAIN f : proc'[p][x] = f[x]
  BY <1>2, SetIs DEF Inv, f
<1> HIDE DEF r, r2
<1>4. Missing(proc'[p])
  <2>1. r2.there = r.there /\ r2.listed = r.listed
    BY <1>1, <1>3 DEF Keeps, Sound, Formed, Fields, r, r2
  <2> QED
    BY <1>1, <1>3, <2>1 DEF Missing, r, r2
<1>8. Sound(r2)
  BY <1>1, <1>3, <1>2, EndsOther DEF r, r2, On, Keeps
<1> QED
  BY <1>1, <1>2, <1>8, <1>4, OneSet DEF f, r, r2, Resolving, On

\* Discover, without a list.
LEMMA NothingIsListed ==
  ASSUME Inv, NEW p \in Procs, On(p, "discover"), NEW b, SharedGrows,
         Set(p, [pc |-> "ended", outcome |-> "notfound", discoveryFailed |-> b]),
         ~proc[p].there \/ proc[p].listed \/ b
  PROVE  Inv'
<1> DEFINE f == [pc |-> "ended", outcome |-> "notfound", discoveryFailed |-> b]
           r == proc[p]
           r2 == proc'[p]
<1>1. DOMAIN f = {"pc", "outcome", "discoveryFailed"} /\ f.pc = "ended" /\ f.outcome = "notfound" /\ f.discoveryFailed = b
  OBVIOUS
<1> HIDE DEF f
<1>2. proc[p].pc \in Underway
  BY DEF On, Underway, Resolving, Checked, Validation, Judging
<1>3. /\ Sound(proc[p]) /\ Keeps(proc'[p], proc[p], DOMAIN f)
      /\ DOMAIN f \subseteq DOMAIN proc'[p] /\ \A x \in DOMAIN f : proc'[p][x] = f[x]
  BY <1>2, SetIs DEF Inv, f
<1> HIDE DEF r, r2
<1>4. Missing(proc'[p])
  <2>1. r2.there = r.there /\ r2.listed = r.listed
    BY <1>1, <1>3 DEF Keeps, Sound, Formed, Fields, r, r2
  <2> QED
    BY <1>1, <1>3, <2>1 DEF Missing, r, r2
<1>8. Sound(r2)
  BY <1>1, <1>3, <1>2, EndsOther DEF r, r2, On, Keeps
<1> QED
  BY <1>1, <1>2, <1>8, <1>4, OneSet DEF f, r, r2, Resolving, On

\* currentValidators.
LEMMA GetsValidators ==
  ASSUME Inv, NEW p \in Procs, On(p, "validators"), NEW t, SharedGrows,
         Set(p, [pc |-> "validate", by |-> proc[p].cfg, todo |-> t]),
         t = validatorsFromConfig(proc[p].cfg)
  PROVE  Inv'
<1> DEFINE f == [pc |-> "validate", by |-> proc[p].cfg, todo |-> t]
           r == proc[p]
           r2 == proc'[p]
<1>1. DOMAIN f = {"pc", "by", "todo"} /\ f.pc = "validate" /\ f.by = proc[p].cfg /\ f.todo = t
  OBVIOUS
<1> HIDE DEF f
<1>2. proc[p].pc \in Underway
  BY DEF On, Underway, Resolving, Checked, Validation, Judging
<1>3. /\ Sound(proc[p]) /\ Keeps(proc'[p], proc[p], DOMAIN f)
      /\ DOMAIN f \subseteq DOMAIN proc'[p] /\ \A x \in DOMAIN f : proc'[p][x] = f[x]
  BY <1>2, SetIs DEF Inv, f
<1> HIDE DEF r, r2
<1>8. Sound(r2)
  BY <1>1, <1>3, HasValidators DEF r, r2, On, Keeps
<1> QED
  BY <1>1, <1>2, <1>8, OneSet DEF f, r, r2, Resolving, On

\* A request that stays with its validator.
LEMMA GoesOn ==
  ASSUME Inv, NEW p \in Procs, proc[p].pc \in Validation, NEW s \in Validation \ {"asking"}, SharedGrows,
         Set(p, [pc |-> s]),
         s = "review" => NextIs(proc[p].todo, {"rbac"}),
         s \in Judging => NextIs(proc[p].todo, {"schema"})
  PROVE  Inv'
<1> DEFINE f == [pc |-> s]
           r == proc[p]
           r2 == proc'[p]
<1>1. DOMAIN f = {"pc"} /\ f.pc = s
  OBVIOUS
<1> HIDE DEF f
<1>2. proc[p].pc \in Underway
  BY DEF On, Underway, Resolving, Checked, Validation, Judging
<1>3. /\ Sound(proc[p]) /\ Keeps(proc'[p], proc[p], DOMAIN f)
      /\ DOMAIN f \subseteq DOMAIN proc'[p] /\ \A x \in DOMAIN f : proc'[p][x] = f[x]
  BY <1>2, SetIs DEF Inv, f
<1> HIDE DEF r, r2
<1>4. s # "store" /\ s # "ended" /\ s \notin Resolving
  BY DEF Validation, Judging, Resolving
<1>8. Sound(r2)
  BY <1>1, <1>3, Moves DEF r, r2, On, Keeps
<1> QED
  BY <1>1, <1>2, <1>8, <1>4, OneSet DEF f, r, r2, Resolving, On

\* A request that has a fresh schema.
LEMMA HasSchema ==
  ASSUME Inv, NEW p \in Procs, proc[p].pc \in Validation, NEW i, SharedGrows,
         Set(p, [pc |-> "judge", used |-> i]),
         NextIs(proc[p].todo, {"schema"}),
         i = schema'.id, i # 0, ~schema'.expired
  PROVE  Inv'
<1> DEFINE f == [pc |-> "judge", used |-> i]
           r == proc[p]
           r2 == proc'[p]
<1>1. DOMAIN f = {"pc", "used"} /\ f.pc = "judge" /\ f.used = i
  OBVIOUS
<1> HIDE DEF f
<1>2. proc[p].pc \in Underway
  BY DEF On, Underway, Resolving, Checked, Validation, Judging
<1>3. /\ Sound(proc[p]) /\ Keeps(proc'[p], proc[p], DOMAIN f)
      /\ DOMAIN f \subseteq DOMAIN proc'[p] /\ \A x \in DOMAIN f : proc'[p][x] = f[x]
  BY <1>2, SetIs DEF Inv, f
<1> HIDE DEF r, r2
<1>8. Sound(r2)
  BY <1>1, <1>3, Moves DEF r, r2, On, Keeps, Validation, Judging
<1> QED
  BY <1>1, <1>2, <1>8, OneSet DEF f, r, r2, Resolving, On

\* A validator that has nothing against the request.
LEMMA IsPassed ==
  ASSUME Inv, NEW p \in Procs, proc[p].pc \in Validation, NEW t, SharedGrows,
         Set(p, [pc |-> "validate", todo |-> t]),
         proc[p].todo # <<>>, t = Tail(proc[p].todo),
         Head(proc[p].todo) = "confirm" => Confirmed(proc[p]),
         Head(proc[p].todo) = "eula" => Licensed(proc[p])
  PROVE  Inv'
<1> DEFINE f == [pc |-> "validate", todo |-> t]
           r == proc[p]
           r2 == proc'[p]
<1>1. DOMAIN f = {"pc", "todo"} /\ f.pc = "validate" /\ f.todo = t
  OBVIOUS
<1> HIDE DEF f
<1>2. proc[p].pc \in Underway
  BY DEF On, Underway, Resolving, Checked, Validation, Judging
<1>3. /\ Sound(proc[p]) /\ Keeps(proc'[p], proc[p], DOMAIN f)
      /\ DOMAIN f \subseteq DOMAIN proc'[p] /\ \A x \in DOMAIN f : proc'[p][x] = f[x]
  BY <1>2, SetIs DEF Inv, f
<1> HIDE DEF r, r2
<1>4. (Confirmed(r) => Confirmed(r2)) /\ (Licensed(r) => Licensed(r2))
  <2>1. r2.url = r.url /\ r2.call = r.call /\ r2.kind = r.kind /\ r2.accepted = r.accepted /\ r2.unanswered = r.unanswered /\ r2.cfg = r.cfg
    BY <1>1, <1>3 DEF Keeps, Sound, Formed, Fields, Admitted, Checked, r, r2
  <2> QED
    BY <2>1 DEF Confirmed, Licensed
<1>5. r2.accepted \subseteq {"confirm", "eula"}
  BY <1>1, <1>3 DEF Keeps, Sound, Formed, Fields, r, r2
<1>8. Sound(r2)
  BY <1>1, <1>3, <1>4, <1>5, Passes DEF r, r2, On, Keeps
<1> QED
  BY <1>1, <1>2, <1>8, OneSet DEF f, r, r2, Resolving, On

\* Ask, when an answer is needed.
LEMMA IsAsked ==
  ASSUME Inv, NEW p \in Procs, On(p, "validate"), SharedGrows,
         Set(p, [pc |-> "asking", prompted |-> TRUE]),
         NextIs(proc[p].todo, {"confirm", "eula"})
  PROVE  Inv'
<1> DEFINE f == [pc |-> "asking", prompted |-> TRUE]
           r == proc[p]
           r2 == proc'[p]
<1>1. DOMAIN f = {"pc", "prompted"} /\ f.pc = "asking" /\ f.prompted = TRUE
  OBVIOUS
<1> HIDE DEF f
<1>2. proc[p].pc \in Underway
  BY DEF On, Underway, Resolving, Checked, Validation, Judging
<1>3. /\ Sound(proc[p]) /\ Keeps(proc'[p], proc[p], DOMAIN f)
      /\ DOMAIN f \subseteq DOMAIN proc'[p] /\ \A x \in DOMAIN f : proc'[p][x] = f[x]
  BY <1>2, SetIs DEF Inv, f
<1> HIDE DEF r, r2
<1>8. Sound(r2)
  BY <1>1, <1>3, Asks DEF r, r2, On, Keeps
<1> QED
  BY <1>1, <1>2, <1>8, OneSet DEF f, r, r2, Resolving, On

\* The user accepts.
LEMMA IsAccepted ==
  ASSUME Inv, NEW p \in Procs, On(p, "asking"), NEW t, NEW a, SharedGrows,
         NEW f, Set(p, f), DOMAIN f = {"pc", "todo", "accepted"},
         f.pc = "validate", f.todo = t, f.accepted = a,
         proc[p].todo # <<>>, t = Tail(proc[p].todo), a = proc[p].accepted \cup {Head(proc[p].todo)}
  PROVE  Inv'
<1> DEFINE r == proc[p]
           r2 == proc'[p]
<1>1. DOMAIN f = {"pc", "todo", "accepted"} /\ f.pc = "validate" /\ f.todo = t /\ f.accepted = a
  OBVIOUS
<1>2. proc[p].pc \in Underway
  BY DEF On, Underway, Resolving, Checked, Validation, Judging
<1>3. /\ Sound(proc[p]) /\ Keeps(proc'[p], proc[p], DOMAIN f)
      /\ DOMAIN f \subseteq DOMAIN proc'[p] /\ \A x \in DOMAIN f : proc'[p][x] = f[x]
  BY <1>2, SetIs DEF Inv
<1> HIDE DEF r, r2
<1>4. /\ Confirmed(r) => Confirmed(r2)
      /\ Head(r.todo) = "confirm" => Confirmed(r2)
      /\ Head(r.todo) = "eula" => Licensed(r2)
  <2>1. r2.url = r.url /\ r2.call = r.call /\ r2.kind = r.kind /\ r2.unanswered = r.unanswered /\ r2.cfg = r.cfg
    BY <1>1, <1>3 DEF Keeps, Sound, Formed, Fields, Admitted, Checked, Validation, On, r, r2
  <2>2. r2.accepted = r.accepted \cup {Head(r.todo)}
    BY <1>1, <1>3 DEF r, r2
  <2> QED
    BY <2>1, <2>2 DEF Confirmed, Licensed
<1>5. r2.accepted \subseteq {"confirm", "eula"}
  BY <1>1, <1>3 DEF Sound, Formed, Validated, Validation, NextIs, On, r, r2
<1>8. Sound(r2)
  BY <1>1, <1>3, <1>4, <1>5, Passes DEF r, r2, On, Keeps, Validation
<1> QED
  BY <1>1, <1>2, <1>8, OneSet DEF r, r2, Resolving, On

\* The fallback allows what nobody can be asked about.
LEMMA IsAllowed ==
  ASSUME Inv, NEW p \in Procs, On(p, "asking"), NEW t, SharedGrows,
         NEW f, Set(p, f), DOMAIN f = {"pc", "todo", "unanswered"},
         f.pc = "validate", f.todo = t, f.unanswered = TRUE,
         proc[p].todo # <<>>, t = Tail(proc[p].todo), Head(proc[p].todo) = "confirm", proc[p].by.fallback = "allow"
  PROVE  Inv'
<1> DEFINE r == proc[p]
           r2 == proc'[p]
<1>1. DOMAIN f = {"pc", "todo", "unanswered"} /\ f.pc = "validate" /\ f.todo = t /\ f.unanswered = TRUE
  OBVIOUS
<1>2. proc[p].pc \in Underway
  BY DEF On, Underway, Resolving, Checked, Validation, Judging
<1>3. /\ Sound(proc[p]) /\ Keeps(proc'[p], proc[p], DOMAIN f)
      /\ DOMAIN f \subseteq DOMAIN proc'[p] /\ \A x \in DOMAIN f : proc'[p][x] = f[x]
  BY <1>2, SetIs DEF Inv
<1> HIDE DEF r, r2
<1>4. Confirmed(r2) /\ Head(r.todo) # "eula"
  <2>1. r2.cfg = r.cfg /\ r.by = r.cfg
    BY <1>1, <1>3 DEF Keeps, Sound, Validated, Admitted, Checked, Validation, On, r, r2
  <2>2. r2.unanswered = TRUE
    BY <1>1, <1>3 DEF r, r2
  <2> QED
    BY <2>1, <2>2 DEF Confirmed, r
<1>5. r2.accepted \subseteq {"confirm", "eula"}
  BY <1>1, <1>3 DEF Keeps, Sound, Formed, Fields, r, r2
<1>8. Sound(r2)
  BY <1>1, <1>3, <1>4, <1>5, Passes DEF r, r2, On, Keeps, Validation
<1> QED
  BY <1>1, <1>2, <1>8, OneSet DEF r, r2, Resolving, On

LEMMA Facts ==
  ASSUME Inv
  PROVE  Configured /\ Requests /\ Discovered /\ NoneLost /\ SchemaNewer
  BY DEF Inv

\* Past its first step, a request is one for a resource.
LEMMA IsRead ==
  ASSUME Inv, NEW p \in Procs, proc[p].pc \in Underway
  PROVE  /\ Sound(proc[p]) /\ IsCall(proc[p].call) /\ proc[p].url = Parsed(proc[p].call)
         /\ proc[p].pc # "resolve" => proc[p].url.ok
  BY NotIdle DEF Inv, Sound, Formed

LEMMA ResolveStep ==
  ASSUME Inv, NEW p \in Procs, Resolve(p)
  PROVE  Inv'
<1> DEFINE u == proc[p].url
           m == IF mapper = {} THEN served ELSE mapper
           kinds == {e \in m : e.group = u.group /\ e.res = u.res /\ e.sub = "" /\ e.kind # ""}
<1>1. /\ On(p, "resolve") /\ served' = served /\ raw' = raw /\ schema' = schema
      /\ live' = live /\ valid' = valid
  BY DEF Resolve
<1>2. m \subseteq served /\ m \subseteq Entries
  BY Facts DEF Discovered
<1>3. mapper' = mapper \/ mapper' = m
  BY DEF Resolve
<1>4. SharedGrows
  BY <1>1, <1>2, <1>3, Facts DEF SharedGrows, Configured, Discovered, SchemaNewer
<1>5. proc[p].pc \in Underway
  BY <1>1 DEF On, Underway, Resolving
<1>6. CASE ~u.ok /\ End(p, "sent")
  BY <1>1, <1>4, <1>6, UnreadIsSent DEF End
<1>7. CASE End(p, "error")
  BY <1>4, <1>5, <1>7, Fails DEF End
<1>8. CASE u.ok /\ Set(p, [pc |-> "discover"])
  BY <1>1, <1>4, <1>8, GoesToDiscover
<1>9. CASE /\ u.ok /\ kinds # {}
           /\ Set(p, [pc |-> "check", known |-> TRUE, kind |-> (CHOOSE e \in kinds : TRUE).kind])
  <2> DEFINE e == CHOOSE f \in kinds : TRUE
  <2>1. e \in kinds
    BY <1>9, Zenon
  <2>2. e \in Entries /\ e.group = u.group /\ e.res = u.res /\ e.sub = "" /\ e.kind # ""
    BY <1>2, <2>1
  <2>3. Set(p, [pc |-> "check", known |-> TRUE, kind |-> e.kind])
    BY <1>9, Zenon
  <2> HIDE DEF e
  <2>4. IsCall(proc[p].call) /\ u = Parsed(proc[p].call)
    BY <1>5, IsRead
  <2>5. ~Misread(proc[p].call) /\ e.kind = KindOf(proc[p].call)
    BY <1>9, <2>2, <2>4, KindIsRight
  <2> QED
    BY <1>1, <1>4, <1>9, <2>2, <2>3, <2>5, IsResolved
<1>10. \/ ~u.ok /\ End(p, "sent")
       \/ End(p, "error")
       \/ u.ok /\ IF kinds = {} THEN Set(p, [pc |-> "discover"])
                  ELSE Set(p, [pc |-> "check", known |-> TRUE, kind |-> (CHOOSE e \in kinds : TRUE).kind])
  BY Zenon DEF Resolve
<1> QED
  BY <1>6, <1>7, <1>8, <1>9, <1>10, Zenon

\* A list that could be used for the request decides.
LEMMA FoundStep ==
  ASSUME Inv, NEW p \in Procs, proc[p].pc \in {"discover", "store"}, SharedGrows, NEW entries,
         entries \subseteq Entries, Found(p, entries),
         Findable(proc[p].url, served, raw, proc) => Lists(entries, proc[p].url)
  PROVE  Inv'
<1>1. proc[p].pc \in Underway /\ proc[p].pc \in Resolving
  BY DEF Underway, Resolving
<1>2. Sound(proc[p]) /\ IsCall(proc[p].call) /\ proc[p].url = Parsed(proc[p].call) /\ proc[p].url.ok
  BY <1>1, IsRead
<1>3. CASE Lists(entries, proc[p].url)
  <2>1. PICK e \in Entries : e.group = proc[p].url.group /\ e.res = proc[p].url.res
    BY <1>3 DEF Lists
  <2>2. ~Misread(proc[p].call)
    BY <1>2, <2>1, ListedIsRead
  <2> QED
    BY <1>1, <1>2, <1>3, <2>2, GoesToCheck DEF Found
<1>4. CASE ~Lists(entries, proc[p].url)
  <2>1. ~proc[p].there \/ proc[p].listed
    BY <1>1, <1>4, Facts DEF NoneLost
  <2> QED
    BY <1>1, <1>4, <2>1, IsNotFound DEF Found, End
<1> QED
  BY <1>3, <1>4

LEMMA DiscoverStep ==
  ASSUME Inv, NEW p \in Procs, Discover(p)
  PROVE  Inv'
<1> DEFINE u == proc[p].url
           entries == {e \in served : e.group = u.group}
<1>1. On(p, "discover") /\ Quiet
  BY Facts DEF Discover, Quiet, Configured
<1>2. SharedGrows
  BY <1>1, QuietGrows
<1>3. proc[p].pc \in Underway /\ proc[p].pc \in Resolving /\ proc[p].pc = "discover"
  BY <1>1 DEF On, Underway, Resolving
<1>4. u.ok
  BY <1>3, IsRead
<1>5. CASE u.group \in DOMAIN raw /\ Found(p, raw[u.group])
  <2>1. raw[u.group] \subseteq Entries
    BY <1>5, Facts DEF Discovered
  <2>2. Findable(u, served, raw, proc) => Lists(raw[u.group], u)
    BY <1>5 DEF Findable
  <2> QED
    BY <1>2, <1>3, <1>5, <2>1, <2>2, FoundStep
<1>6. CASE entries # {} /\ Set(p, [pc |-> "store", list |-> entries])
  BY <1>1, <1>2, <1>4, <1>6, GoesToStore
<1>7. CASE Set(p, [pc |-> "ended", outcome |-> "notfound", discoveryFailed |-> entries # {}])
  <2>1. ~proc[p].there \/ proc[p].listed \/ entries # {}
    <3> SUFFICES ASSUME proc[p].there, ~proc[p].listed PROVE entries # {}
      OBVIOUS
    <3>1. Findable(u, served, raw, proc)
      BY <1>3, Facts DEF NoneLost
    <3> QED
      BY <3>1 DEF Findable, Lists
  <2> DEFINE b == entries # {}
  <2>2. ~proc[p].there \/ proc[p].listed \/ b
    BY <2>1
  <2>3. Set(p, [pc |-> "ended", outcome |-> "notfound", discoveryFailed |-> b])
    BY <1>7
  <2> HIDE DEF b
  <2> QED
    BY <1>1, <1>2, <2>2, <2>3, NothingIsListed
<1> QED
  BY <1>5, <1>6, <1>7 DEF Discover

LEMMA StoreStep ==
  ASSUME Inv, NEW p \in Procs, Store(p)
  PROVE  Inv'
<1>1. /\ On(p, "store") /\ served' = served /\ mapper' = mapper /\ schema' = schema
      /\ live' = live /\ valid' = valid /\ Found(p, proc[p].list)
  BY DEF Store
<1>2. Stored(p)
  BY DEF Store, Stored
<1>3. SharedGrows
  BY <1>1, <1>2, Facts DEF SharedGrows, Configured, Discovered, SchemaNewer
<1>4. proc[p].list \subseteq Entries
  BY <1>1, Facts DEF Discovered
<1>5. Findable(proc[p].url, served, raw, proc) => Lists(proc[p].list, proc[p].url)
  BY <1>1 DEF Findable, On
<1> QED
  BY <1>1, <1>3, <1>4, <1>5, FoundStep DEF On

LEMMA CheckStep ==
  ASSUME Inv, NEW p \in Procs, Check(p)
  PROVE  Inv'
<1> DEFINE d == IsDeniedResource(live, proc[p].url.group, proc[p].kind)
           v == IsReview(proc[p].url)
<1>1. On(p, "check") /\ Quiet
  BY Facts DEF Check, Quiet, Configured
<1>2. SharedGrows
  BY <1>1, QuietGrows
<1>3. \/ d /\ Set(p, [pc |-> "ended", outcome |-> "denied", cfg |-> live])
      \/ ~d /\ v /\ Set(p, [pc |-> "ended", outcome |-> "sent", cfg |-> live])
      \/ ~d /\ ~v /\ Set(p, [pc |-> "validators", cfg |-> live])
  BY DEF Check
<1>4. CASE d /\ Set(p, [pc |-> "ended", outcome |-> "denied", cfg |-> live])
  BY <1>1, <1>2, <1>4, Facts, IsDenied DEF Configured
<1>5. CASE ~d /\ v /\ Set(p, [pc |-> "ended", outcome |-> "sent", cfg |-> live])
  BY <1>1, <1>2, <1>5, Facts, ReviewIsSent DEF Configured
<1>6. CASE ~d /\ ~v /\ Set(p, [pc |-> "validators", cfg |-> live])
  BY <1>1, <1>2, <1>6, Facts, GoesToValidators DEF Configured
<1> QED
  BY <1>3, <1>4, <1>5, <1>6

LEMMA ValidatorsStep ==
  ASSUME Inv, NEW p \in Procs, currentValidators(p)
  PROVE  Inv'
<1>0. On(p, "validators") /\ proc[p].pc \in Underway /\ proc[p].pc \in Checked
  BY DEF currentValidators, On, Underway, Checked
<1>1. On(p, "validators") /\ Quiet
  <2>1. proc[p].cfg \in Configs
    BY <1>0, IsRead DEF Sound, Admitted
  <2> QED
    BY <1>0, <2>1, Facts DEF currentValidators, Quiet, Configured
<1>2. SharedGrows
  BY <1>1, QuietGrows
<1>3. Set(p, [pc |-> "validate", by |-> proc[p].cfg, todo |-> validatorsFromConfig(proc[p].cfg)])
  BY DEF currentValidators
<1> QED
  BY <1>1, <1>2, <1>3, GetsValidators

LEMMA SendStep ==
  ASSUME Inv, NEW p \in Procs, Send(p)
  PROVE  Inv'
<1>1. On(p, "validate") /\ Quiet /\ proc[p].todo = <<>>
      /\ Set(p, [pc |-> "ended", outcome |-> "sent"])
  BY Facts DEF Send, Quiet, Configured, End
<1> QED
  BY <1>1, QuietGrows, AllDoneIsSent

\* RBAC and schema have no say in what the user is asked.
LEMMA EarlyPass ==
  ASSUME Inv, NEW p \in Procs, proc[p].pc \in Validation, SharedGrows,
         NextIs(proc[p].todo, {"rbac", "schema"}), Set(p, Passed(p))
  PROVE  Inv'
  BY IsPassed DEF Passed, NextIs

LEMMA LookupStep ==
  ASSUME Inv, NEW p \in Procs, Lookup(p)
  PROVE  Inv'
<1>1. On(p, "validate") /\ Quiet /\ NextIs(proc[p].todo, {"schema"}) /\ proc[p].pc \in Validation
  BY Facts DEF Lookup, Quiet, Configured, Validating, NextIs, On, Validation
<1>2. SharedGrows
  BY <1>1, QuietGrows
<1>3. CASE Set(p, Passed(p))
  BY <1>1, <1>2, <1>3, EarlyPass DEF NextIs
<1>4. CASE fresh /\ Set(p, [pc |-> "judge", used |-> schema.id])
  BY <1>1, <1>2, <1>4, HasSchema DEF fresh, Quiet
<1>5. CASE Set(p, [pc |-> "miss"])
  BY <1>1, <1>2, <1>5, GoesOn DEF Validation, Judging
<1> QED
  BY <1>3, <1>4, <1>5 DEF Lookup

LEMMA DoStep ==
  ASSUME Inv, NEW p \in Procs, Do(p)
  PROVE  Inv'
<1>1. On(p, "miss") /\ Quiet
  BY Facts DEF Do, Quiet, Configured
<1>2. SharedGrows
  BY <1>1, QuietGrows
<1>3. proc[p].pc \in Underway /\ proc[p].pc \in Validation /\ proc[p].pc \in Judging
  BY <1>1 DEF On, Underway, Checked, Validation, Judging
<1>4. NextIs(proc[p].todo, {"schema"})
  BY <1>3, IsRead DEF Sound, Validated
<1>5. CASE Set(p, [pc |-> "lead"])
  BY <1>2, <1>3, <1>4, <1>5, GoesOn DEF Validation, Judging
<1>6. CASE Set(p, [pc |-> "wait"])
  BY <1>2, <1>3, <1>4, <1>6, GoesOn DEF Validation, Judging
<1> QED
  BY <1>5, <1>6 DEF Do

LEMMA JudgeStep ==
  ASSUME Inv, NEW p \in Procs, Judge(p)
  PROVE  Inv'
<1>1. On(p, "judge") /\ Quiet
  BY Facts DEF Judge, Quiet, Configured
<1>2. SharedGrows
  BY <1>1, QuietGrows
<1>3. proc[p].pc \in Underway /\ proc[p].pc \in Validation /\ proc[p].pc \in Judging
  BY <1>1 DEF On, Underway, Checked, Validation, Judging
<1>4. NextIs(proc[p].todo, {"schema"})
  BY <1>3, IsRead DEF Sound, Validated
<1>5. CASE proc[p].call.body = "bad" /\ End(p, "invalid")
  BY <1>1, <1>2, <1>5, IsInvalid DEF End
<1>6. CASE Set(p, Passed(p))
  BY <1>2, <1>3, <1>4, <1>6, EarlyPass DEF NextIs
<1> QED
  BY <1>5, <1>6 DEF Judge

LEMMA AskStep ==
  ASSUME Inv, NEW p \in Procs, Ask(p)
  PROVE  Inv'
<1>1. Quiet
  BY Facts DEF Ask, Quiet, Configured
<1>2. SharedGrows
  BY <1>1, QuietGrows
<1>3. PICK v \in {"confirm", "eula"} :
        /\ Validating(p, v)
        /\ Set(p, IF NeedsAnswer(p, v) THEN [pc |-> "asking", prompted |-> TRUE] ELSE Passed(p))
  BY DEF Ask
<1>4. On(p, "validate") /\ proc[p].todo # <<>> /\ Head(proc[p].todo) = v
  BY <1>3 DEF Validating
<1>5. proc[p].pc \in Underway /\ proc[p].pc \in Validation
  BY <1>4 DEF On, Underway, Checked, Validation
<1>6. CASE NeedsAnswer(p, v)
  <2>1. Set(p, [pc |-> "asking", prompted |-> TRUE])
    BY <1>3, <1>6
  <2> QED
    BY <1>2, <1>3, <1>4, <2>1, IsAsked DEF NextIs
<1>7. CASE ~NeedsAnswer(p, v)
  <2>1. Set(p, [pc |-> "validate", todo |-> Tail(proc[p].todo)])
    BY <1>3, <1>7 DEF Passed
  <2>2. proc[p].by = proc[p].cfg
    BY <1>5, IsRead DEF Sound, Validated
  <2>3. v = "confirm" => Confirmed(proc[p])
    BY <1>7, <2>2 DEF NeedsAnswer, Confirmed
  <2>4. v = "eula" => Licensed(proc[p])
    BY <1>7 DEF NeedsAnswer, Licensed
  <2> QED
    BY <1>2, <1>4, <1>5, <2>1, <2>3, <2>4, IsPassed
<1> QED
  BY <1>6, <1>7

LEMMA AnswerStep ==
  ASSUME Inv, NEW p \in Procs, Answer(p)
  PROVE  Inv'
<1> DEFINE v == Head(proc[p].todo)
           t == Tail(proc[p].todo)
<1>1. On(p, "asking") /\ Quiet
  BY Facts DEF Answer, Quiet, Configured
<1>2. SharedGrows
  BY <1>1, QuietGrows
<1>3. proc[p].pc \in Underway /\ proc[p].pc \in Validation /\ proc[p].pc = "asking"
  BY <1>1 DEF On, Underway, Checked, Validation
<1>4. proc[p].todo # <<>>
  BY <1>3, IsRead DEF Sound, Validated, NextIs
<1>5. CASE Set(p, With(Passed(p), [accepted |-> proc[p].accepted \cup {v}]))
  <2> DEFINE f == With(Passed(p), [accepted |-> proc[p].accepted \cup {v}])
  <2>1. /\ DOMAIN f = {"pc", "todo", "accepted"} /\ f.pc = "validate" /\ f.todo = t
        /\ f.accepted = proc[p].accepted \cup {v}
    BY DEF With, Passed
  <2>2. Set(p, f)
    BY <1>5
  <2> HIDE DEF f
  <2> QED
    BY <1>1, <1>2, <1>4, <2>1, <2>2, IsAccepted
<1>6. CASE End(p, "declined")
  BY <1>2, <1>3, <1>6, Fails DEF End
<1>7. CASE End(p, "error")
  BY <1>2, <1>3, <1>7, Fails DEF End
<1>8. CASE v = "confirm" /\ proc[p].by.fallback = "allow" /\ Set(p, With(Passed(p), [unanswered |-> TRUE]))
  <2> DEFINE f == With(Passed(p), [unanswered |-> TRUE])
  <2>1. /\ DOMAIN f = {"pc", "todo", "unanswered"} /\ f.pc = "validate" /\ f.todo = t
        /\ f.unanswered = TRUE
    BY DEF With, Passed
  <2>2. Set(p, f)
    BY <1>8
  <2> HIDE DEF f
  <2> QED
    BY <1>1, <1>2, <1>4, <1>8, <2>1, <2>2, IsAllowed
<1> QED
  BY <1>5, <1>6, <1>7, <1>8 DEF Answer

LEMMA ArriveStep ==
  ASSUME Inv, NEW p \in Procs, Arrive(p)
  PROVE  Inv'
<1>1. p[2] = "call" /\ Quiet
  BY Facts DEF Arrive, Quiet, Configured
<1>2. PICK c \in CallsOf[p[1]] : proc' = [proc EXCEPT ![p] = Request(c)]
  BY DEF Arrive
<1>3. IsCall(c)
  BY <1>2, CallsAssumption DEF Procs
<1>4. DOMAIN proc' = Procs /\ proc'[p] = Request(c) /\ \A q \in Procs : q # p => Stays(q)
  BY <1>2, Facts DEF Requests, Stays
<1>5. Starts(p)
  BY <1>1, <1>3, <1>4 DEF Starts, Quiet
<1>6. EachGoes
  BY <1>4, <1>5 DEF EachGoes
<1> QED
  BY <1>1, <1>6, QuietGrows, Kept

LEMMA ReturnStep ==
  ASSUME Inv, NEW p \in Procs, Return(p)
  PROVE  Inv'
<1>1. Quiet /\ proc' = [proc EXCEPT ![p] = Idle]
  BY Facts DEF Return, Quiet, Configured
<1>2. DOMAIN proc' = Procs /\ proc'[p] = Idle /\ \A q \in Procs : q # p => Stays(q)
  BY <1>1, Facts DEF Requests, Stays
<1>3. EachGoes
  BY <1>2 DEF EachGoes, Stops
<1> QED
  BY <1>1, <1>3, QuietGrows, Kept

LEMMA ReviewCallIs ==
  IsCall(ReviewCall) /\ (Parsed(ReviewCall).ok => IsReview(Parsed(ReviewCall)))
<1>1. IsCall(ReviewCall)
  BY DEF IsCall, ReviewCall, Misread
<1>2. ~Misread(ReviewCall)
  BY DEF Misread, ReviewCall
<1>3. ReviewCall.group = "authorization.k8s.io" /\ ReviewCall.res = "selfsubjectaccessreviews"
  BY DEF ReviewCall
<1> QED
  BY <1>1, <1>2, <1>3, UrlIsRight DEF IsReview

\* A request that is validated is no review, and its review is another request.
LEMMA NoReview ==
  ASSUME Inv, NEW p \in Procs, proc[p].pc \in Validation
  PROVE  Review(p) \in Procs /\ Review(p) # p
<1>1. proc[p].pc \in Underway /\ proc[p].pc \in Checked /\ proc[p].pc # "resolve"
  BY DEF Underway, Checked, Validation, Judging
<1>2. Sound(proc[p]) /\ IsReviewCall(p, proc[p])
  BY <1>1, Facts, NotIdle
<1>3. ~IsReview(proc[p].url) /\ proc[p].url.ok /\ proc[p].url = Parsed(proc[p].call) /\ IsCall(proc[p].call)
  BY <1>1, <1>2 DEF Sound, Formed
<1>4. p[2] # "review"
  BY <1>2, <1>3, ReviewCallIs DEF IsReviewCall
<1> QED
  BY <1>4 DEF Procs, Review

LEMMA StartReviewStep ==
  ASSUME Inv, NEW p \in Procs, StartReview(p)
  PROVE  Inv'
<1>1. Quiet /\ On(p, "validate") /\ NextIs(proc[p].todo, {"rbac"})
      /\ proc' = [proc EXCEPT ![p].pc = "review", ![Review(p)] = Request(ReviewCall)]
  BY Facts DEF StartReview, Quiet, Configured, Validating, NextIs
<1>2. proc[p].pc \in Validation /\ proc[p].pc \in Underway
  BY <1>1 DEF On, Underway, Checked, Validation
<1>3. Review(p) \in Procs /\ Review(p) # p
  BY <1>2, NoReview
<1>4. Sound(proc[p])
  BY <1>2, IsRead
<1>5. /\ DOMAIN proc' = Procs /\ proc'[Review(p)] = Request(ReviewCall)
      /\ proc'[p] = [proc[p] EXCEPT !.pc = "review"]
      /\ \A q \in Procs : q # p /\ q # Review(p) => Stays(q)
  BY <1>1, <1>3, Facts DEF Requests, Stays
<1> DEFINE f == [pc |-> "review"]
<1>6. DOMAIN f = {"pc"} /\ f.pc = "review"
  OBVIOUS
<1>7. Keeps(proc'[p], proc[p], DOMAIN f) /\ \A x \in DOMAIN f : proc'[p][x] = f[x]
  <2>1. "pc" \in DOMAIN proc[p]
    BY <1>4 DEF Sound, Formed, Fields
  <2> QED
    BY <1>5, <1>6, <2>1 DEF Keeps
<1> HIDE DEF f
<1>8. Sound(proc'[p])
  <2>1. proc'[p].pc = "review" /\ Keeps(proc'[p], proc[p], {"pc", "used"})
    BY <1>6, <1>7 DEF Keeps
  <2> QED
    BY <1>1, <1>2, <1>4, <2>1, Moves DEF Validation, Judging
<1>9. Works(p)
  BY <1>2, <1>4, <1>6, <1>7, <1>8, Changes DEF Resolving
<1>10. Starts(Review(p))
  BY <1>1, <1>5, ReviewCallIs DEF Starts, Quiet
<1>11. EachGoes
  BY <1>5, <1>9, <1>10 DEF EachGoes
<1> QED
  BY <1>1, <1>11, QuietGrows, Kept

LEMMA EndReviewStep ==
  ASSUME Inv, NEW p \in Procs, EndReview(p)
  PROVE  Inv'
<1> DEFINE u == proc[p].url
           allowed == <<u.verb, u.group, u.res, "">> \in Granted
<1>1. Quiet /\ On(p, "review")
  BY Facts DEF EndReview, Quiet, Configured
<1>2. proc[p].pc \in Validation /\ proc[p].pc \in Underway /\ proc[p].pc = "review"
  BY <1>1 DEF On, Underway, Checked, Validation
<1>3. Review(p) \in Procs /\ Review(p) # p
  BY <1>2, NoReview
<1>4. Sound(proc[p]) /\ NextIs(proc[p].todo, {"rbac"})
  BY <1>2, IsRead DEF Sound, Validated
<1>5. PICK f \in {Passed(p), [pc |-> "ended", outcome |-> "forbidden"]} :
        /\ f = Passed(p) \/ (~allowed /\ f = [pc |-> "ended", outcome |-> "forbidden"])
        /\ proc' = [proc EXCEPT ![Review(p)] = Idle, ![p] = With(proc[p], f)]
  <2>1. PICK result : proc' = [proc EXCEPT ![Review(p)] = Idle,
                               ![p] = With(proc[p], IF result = "error" \/ allowed THEN Passed(p)
                                                    ELSE [pc |-> "ended", outcome |-> "forbidden"])]
    BY <1>3, Facts DEF EndReview, Requests
  <2> DEFINE g == IF result = "error" \/ allowed THEN Passed(p) ELSE [pc |-> "ended", outcome |-> "forbidden"]
  <2>2. /\ g \in {Passed(p), [pc |-> "ended", outcome |-> "forbidden"]}
        /\ g = Passed(p) \/ (~allowed /\ g = [pc |-> "ended", outcome |-> "forbidden"])
    OBVIOUS
  <2>3. proc' = [proc EXCEPT ![Review(p)] = Idle, ![p] = With(proc[p], g)]
    BY <2>1
  <2> HIDE DEF g
  <2> QED
    BY <2>2, <2>3
<1>6. /\ DOMAIN proc' = Procs /\ proc'[Review(p)] = Idle /\ proc'[p] = With(proc[p], f)
      /\ \A q \in Procs : q # p /\ q # Review(p) => Stays(q)
  BY <1>3, <1>5, Facts DEF Requests, Stays
<1>7. Keeps(proc'[p], proc[p], DOMAIN f) /\ \A x \in DOMAIN f : proc'[p][x] = f[x]
  BY <1>6, WithKeeps
<1>8. ASSUME f = Passed(p) PROVE Works(p)
  <2>1. DOMAIN f = {"pc", "todo"} /\ f.pc = "validate" /\ f.todo = Tail(proc[p].todo)
    BY <1>8 DEF Passed
  <2>2. Sound(proc'[p])
    <3>1. /\ proc'[p].pc = "validate" /\ proc'[p].todo = Tail(proc[p].todo)
          /\ Keeps(proc'[p], proc[p], {"pc", "todo", "accepted", "unanswered"})
      BY <1>7, <2>1 DEF Keeps
    <3>2. proc[p].todo # <<>> /\ Head(proc[p].todo) = "rbac"
      BY <1>4 DEF NextIs
    <3>3. Confirmed(proc[p]) => Confirmed(proc'[p])
      <4>1. /\ proc'[p].url = proc[p].url /\ proc'[p].kind = proc[p].kind /\ proc'[p].cfg = proc[p].cfg
            /\ proc'[p].accepted = proc[p].accepted /\ proc'[p].unanswered = proc[p].unanswered
        BY <1>2, <1>4, <1>7, <2>1 DEF Keeps, Sound, Formed, Fields, Admitted, Checked
      <4> QED
        BY <4>1 DEF Confirmed
    <3>4. proc'[p].accepted \subseteq {"confirm", "eula"}
      BY <1>4, <1>7, <2>1 DEF Keeps, Sound, Formed, Fields
    <3> QED
      BY <1>2, <1>4, <3>1, <3>2, <3>3, <3>4, Passes
  <2> QED
    BY <1>2, <1>4, <1>7, <2>1, <2>2, Changes DEF Resolving
<1>9. ASSUME ~allowed, f = [pc |-> "ended", outcome |-> "forbidden"] PROVE Works(p)
  <2>1. DOMAIN f = {"pc", "outcome"} /\ f.pc = "ended" /\ f.outcome = "forbidden"
    BY <1>9
  <2>2. Sound(proc'[p])
    BY <1>2, <1>4, <1>7, <1>9, <2>1, EndsForbidden
  <2> QED
    BY <1>2, <1>4, <1>7, <2>1, <2>2, Changes DEF Resolving
<1>10. Works(p)
  BY <1>5, <1>8, <1>9
<1>11. EachGoes
  BY <1>6, <1>10 DEF EachGoes, Stops
<1> QED
  BY <1>1, <1>11, QuietGrows, Kept

\* Those who wait for the schema are with the same validator.
LEMMA LandStep ==
  ASSUME Inv, NEW p \in Procs, proc[p].pc \in Judging, NEW f, Land(p, f), SharedGrows,
         \/ /\ f = [pc |-> "judge", used |-> schema'.id]
            /\ schema'.id # 0 /\ ~schema'.expired
         \/ f = [pc |-> "ended", outcome |-> "invalid", schemaFailed |-> TRUE]
  PROVE  Inv'
<1>1. DOMAIN proc' = Procs
  BY DEF Land
<1>2. ASSUME NEW q \in Procs, q \notin Waiting(p) PROVE Stays(q)
  BY <1>2 DEF Land, Stays
<1>3. ASSUME NEW q \in Procs, q \in Waiting(p) PROVE Works(q)
  <2>1. proc[q].pc \in Judging /\ proc[q].pc \in Validation /\ proc[q].pc \in Underway
    BY <1>3 DEF Waiting, On, Underway, Checked, Validation, Judging
  <2>2. Sound(proc[q]) /\ NextIs(proc[q].todo, {"schema"})
    BY <2>1, IsRead DEF Sound, Validated
  <2>3. proc'[q] = With(proc[q], f)
    BY <1>3 DEF Land
  <2>4. Keeps(proc'[q], proc[q], DOMAIN f) /\ \A x \in DOMAIN f : proc'[q][x] = f[x]
    BY <2>3, WithKeeps
  <2>5. ASSUME f = [pc |-> "judge", used |-> schema'.id], schema'.id # 0, ~schema'.expired
        PROVE  Works(q)
    <3>1. DOMAIN f = {"pc", "used"} /\ f.pc = "judge" /\ f.used = schema'.id
      BY <2>5
    <3>2. Sound(proc'[q])
      BY <2>1, <2>2, <2>4, <3>1, Moves DEF Validation, Judging
    <3> QED
      BY <2>1, <2>2, <2>4, <2>5, <3>1, <3>2, Changes DEF Resolving
  <2>6. ASSUME f = [pc |-> "ended", outcome |-> "invalid", schemaFailed |-> TRUE] PROVE Works(q)
    <3>1. /\ DOMAIN f = {"pc", "outcome", "schemaFailed"}
          /\ f.pc = "ended" /\ f.outcome = "invalid" /\ f.schemaFailed = TRUE
      BY <2>6
    <3>2. Sound(proc'[q])
      BY <2>1, <2>2, <2>4, <3>1, EndsInvalid
    <3> QED
      BY <2>1, <2>2, <2>4, <3>1, <3>2, Changes DEF Resolving
  <2> QED
    BY <2>5, <2>6
<1>4. EachGoes
  BY <1>1, <1>2, <1>3 DEF EachGoes
<1> QED
  BY <1>4, Kept

LEMMA LeadStep ==
  ASSUME Inv, NEW p \in Procs, Lead(p)
  PROVE  Inv'
<1>1. Quiet /\ On(p, "lead")
  BY Facts DEF Lead, Quiet, Configured
<1>2. SharedGrows
  BY <1>1, QuietGrows
<1>3. proc[p].pc \in Judging /\ proc[p].pc \in Validation /\ proc[p].pc \in Underway
  BY <1>1 DEF On, Underway, Checked, Validation, Judging
<1>4. CASE fresh /\ Land(p, [pc |-> "judge", used |-> schema.id])
  <2>1. schema'.id = schema.id /\ schema'.id # 0 /\ ~schema'.expired
    BY <1>1, <1>4 DEF Quiet, fresh
  <2>2. Land(p, [pc |-> "judge", used |-> schema'.id])
    BY <1>4, <2>1
  <2> QED
    BY <1>2, <1>3, <2>1, <2>2, LandStep
<1>5. CASE Set(p, [pc |-> "fetch"])
  <2>1. NextIs(proc[p].todo, {"schema"})
    BY <1>3, IsRead DEF Sound, Validated
  <2> QED
    BY <1>2, <1>3, <1>5, <2>1, GoesOn DEF Validation, Judging
<1> QED
  BY <1>4, <1>5 DEF Lead

LEMMA FetchStep ==
  ASSUME Inv, NEW p \in Procs, Fetch(p)
  PROVE  Inv'
<1>1. /\ On(p, "fetch") /\ served' = served /\ mapper' = mapper /\ raw' = raw
      /\ live' = live /\ valid' = valid
  BY DEF Fetch
<1>2. proc[p].pc \in Judging
  BY <1>1 DEF On, Judging
<1>3. /\ schema.id \in Nat /\ schema.expired \in BOOLEAN /\ served \subseteq Entries /\ mapper \subseteq served
      /\ live \in Configs /\ valid \subseteq Configs
  BY Facts DEF SchemaNewer, Discovered, Configured
<1>4. CASE /\ schema' = [id |-> schema.id + 1, expired |-> FALSE]
           /\ Land(p, [pc |-> "judge", used |-> schema.id + 1])
  <2>1. schema'.id = schema.id + 1 /\ schema'.id # 0 /\ schema'.expired = FALSE
    BY <1>3, <1>4
  <2>2. SharedGrows
    <3>1. schema'.expired \in BOOLEAN
      BY <2>1, Zenon
    <3>2. schema'.id \in Nat /\ schema'.id >= schema.id /\ schema'.id # schema.id
      BY <1>3, <2>1
    <3> QED
      BY <1>1, <1>3, <3>1, <3>2, Zenon DEF SharedGrows
  <2>3. Land(p, [pc |-> "judge", used |-> schema'.id])
    BY <1>4, <2>1
  <2> QED
    BY <1>2, <2>1, <2>2, <2>3, LandStep
<1>5. CASE schema' = schema /\ Land(p, [pc |-> "ended", outcome |-> "invalid", schemaFailed |-> TRUE])
  <2>1. SharedGrows
    BY <1>1, <1>3, <1>5 DEF SharedGrows
  <2> QED
    BY <1>2, <1>5, <2>1, LandStep
<1> QED
  BY <1>4, <1>5 DEF Fetch

\* What is not about a request.
LEMMA OtherStep ==
  ASSUME Inv, Publish \/ Install \/ ResetMapper \/ Expire \/ UNCHANGED vars
  PROVE  Inv'
<1>1. /\ schema.id \in Nat /\ schema.expired \in BOOLEAN /\ served \subseteq Entries /\ mapper \subseteq served
      /\ DOMAIN proc = Procs /\ live \in Configs /\ valid \subseteq Configs
  BY Facts DEF SchemaNewer, Discovered, Requests, Configured
<1>2. proc' = proc /\ raw' = raw
  BY DEF Publish, Install, ResetMapper, Expire, vars
<1>3. EachGoes
  BY <1>1, <1>2 DEF EachGoes, Stays
<1>4. ASSUME Publish \/ UNCHANGED vars PROVE SharedGrows
  BY <1>1, <1>2, <1>4 DEF Publish, vars, SharedGrows
<1>5. ASSUME Install PROVE SharedGrows
  <2>1. PICK u \in Upgrades : served' = served \cup u
    BY <1>5 DEF Install
  <2>2. u \subseteq Entries
    BY AccessAssumption
  <2> QED
    BY <1>1, <1>2, <1>5, <2>1, <2>2 DEF Install, SharedGrows
<1>6. ASSUME ResetMapper PROVE SharedGrows
  BY <1>1, <1>2, <1>6 DEF ResetMapper, SharedGrows
<1>7. ASSUME Expire PROVE SharedGrows
  <2>1. /\ served' = served /\ mapper' = mapper /\ schema' = [schema EXCEPT !.expired = TRUE]
        /\ live' = live /\ valid' = valid
    BY <1>7 DEF Expire
  <2> QED
    BY <1>1, <1>2, <2>1 DEF SharedGrows
<1> QED
  BY <1>3, <1>4, <1>5, <1>6, <1>7, Kept

-----------------------------------------------------------------------------
(***************************************************************************)
(* Theorems.                                                               *)
(***************************************************************************)
\* The invariant holds at first.
LEMMA InitInv ==
  ASSUME Init
  PROVE  Inv
<1>1. DOMAIN proc = Procs /\ \A p \in Procs : proc[p] = Idle
  BY DEF Init
<1>2. \A p \in Procs : proc[p].pc = "idle"
  BY <1>1 DEF Idle
<1>3. /\ served = AtFirst /\ mapper = {} /\ raw = <<>> /\ schema.id = 0 /\ schema.expired = FALSE
      /\ live \in Configs /\ valid = {}
  BY DEF Init
<1>4. Requests
  BY <1>1 DEF Requests
<1>5. Discovered
  <2>1. DOMAIN raw = {}
    BY <1>3
  <2> QED
    BY <1>2, <1>3, <2>1, AccessAssumption DEF Discovered, On
<1>6. NoneLost
  BY <1>2 DEF NoneLost, On, Resolving
<1>7. SchemaNewer
  <2>1. schema.expired \in BOOLEAN
    BY <1>3, Zenon
  <2>2. schema.id \in Nat
    BY <1>3
  <2> QED
    BY <1>1, <2>1, <2>2, Zenon DEF SchemaNewer
<1>8. Configured
  BY <1>3 DEF Configured
<1> QED
  BY <1>4, <1>5, <1>6, <1>7, <1>8 DEF Inv

\* Every step of every request, and of the rest, keeps it.
LEMMA NextInv ==
  ASSUME Inv, [Next]_vars
  PROVE  Inv'
<1>1. ASSUME NEW p \in Procs, Step(p) PROVE Inv'
  BY <1>1, ResolveStep, DiscoverStep, StoreStep, CheckStep, ValidatorsStep, StartReviewStep,
     EndReviewStep, LookupStep, DoStep, LeadStep, FetchStep, JudgeStep, AskStep, SendStep, Zenon DEF Step
<1>2. ASSUME NEW p \in Procs, Arrive(p) \/ Answer(p) \/ Return(p) PROVE Inv'
  BY <1>2, ArriveStep, AnswerStep, ReturnStep, Zenon
<1> QED
  BY <1>1, <1>2, OtherStep, Zenon DEF Next

\* What the requests have been through, what is known of the cluster and what the
\* schema is good for: the invariant that the others follow from, for any number of
\* callers, requests, configurations, upgrades and schemas.
THEOREM Invariance == Spec => []Inv
<1>1. Init => Inv
  BY InitInv
<1>2. Inv /\ [Next]_vars => Inv'
  BY NextInv
<1> QED
  BY <1>1, <1>2, PTL DEF Spec

LEMMA ActiveIs ==
  ASSUME Inv, NEW p \in Active
  PROVE  p \in Procs /\ proc[p] # Idle /\ Sound(proc[p])
<1>1. p \in Procs /\ proc[p].pc # "idle"
  BY DEF Active
<1>2. proc[p] # Idle
  BY <1>1 DEF Idle
<1> QED
  BY <1>1, <1>2 DEF Inv, Requests

\* A request that was sent.
LEMMA SentIs ==
  ASSUME Inv, NEW p \in Sent
  PROVE  LET r == proc[p] IN
         /\ p \in Procs /\ Sound(r) /\ r.outcome = "sent" /\ r.url.ok
         /\ IsCall(r.call) /\ r.url = Parsed(r.call)
         /\ Admitted(r) /\ (~IsReview(r.url) => Confirmed(r) /\ Licensed(r))
<1>1. p \in Procs /\ proc[p].pc # "idle" /\ proc[p].outcome = "sent" /\ proc[p].call.res # ""
  BY DEF Sent, Active
<1>2. Sound(proc[p])
  BY <1>1, ActiveIs DEF Active
<1>3. IsCall(proc[p].call) /\ proc[p].url = Parsed(proc[p].call) /\ proc[p].pc = "ended"
  BY <1>1, <1>2 DEF Sound, Formed
<1>4. proc[p].url.ok
  <2>1. IsResource(proc[p].call)
    BY <1>1 DEF IsResource
  <2>2. CASE Misread(proc[p].call)
    BY <1>3, <2>1, <2>2, ReadsMisread
  <2>3. CASE ~Misread(proc[p].call)
    BY <1>3, <2>1, <2>3, ReadsResource
  <2> QED
    BY <2>2, <2>3
<1>5. Decided(proc[p])
  BY <1>2, <1>3 DEF Sound
<1> QED
  BY <1>1, <1>2, <1>3, <1>4, <1>5 DEF Decided

\* denied_resources, whatever the URL looks like and whatever prefix the API server
\* has: RoundTrip reads the resource that the API server reads, and one whose group
\* or known kind is denied is not sent.
THEOREM DeniedStays == Spec => []DeniedIsNotSent
<1>1. Inv => DeniedIsNotSent
  <2> SUFFICES ASSUME Inv, NEW p \in Sent, NEW d \in proc[p].cfg.denied, d.group = proc[p].call.group
               PROVE  d.kind # "" /\ (proc[p].known => d.kind # KindOf(proc[p].call))
    BY DEF DeniedIsNotSent
  <2>1. /\ IsCall(proc[p].call) /\ proc[p].url = Parsed(proc[p].call) /\ proc[p].url.ok
        /\ Sound(proc[p]) /\ ~IsDeniedResource(proc[p].cfg, proc[p].url.group, proc[p].kind)
    BY SentIs DEF Admitted
  <2>2. proc[p].url.group = proc[p].call.group
    BY <2>1, UrlIsRight
  <2>3. d.kind \notin {"", proc[p].kind}
    BY <2>1, <2>2 DEF IsDeniedResource
  <2>4. proc[p].known => proc[p].kind = KindOf(proc[p].call)
    BY <2>1 DEF Sound, Formed
  <2> QED
    BY <2>3, <2>4
<1> QED
  BY <1>1, Invariance, PTL

\* Every rule that matches the request itself matches what is read of its URL.
LEMMA RulesMatch ==
  ASSUME NEW c, IsCall(c), Parsed(c).ok, ~Misread(c), NEW k, NEW rule,
         Matches(rule, [verb |-> VerbOf(c), kind |-> k, group |-> c.group,
                        name |-> c.name, ns |-> NamespaceOf(c)])
  PROVE  Matches(rule, [verb |-> Parsed(c).verb, kind |-> k, group |-> Parsed(c).group,
                        name |-> Parsed(c).name, ns |-> Parsed(c).ns])
<1> DEFINE a == [verb |-> VerbOf(c), kind |-> k, group |-> c.group,
                 name |-> c.name, ns |-> NamespaceOf(c)]
           b == [verb |-> Parsed(c).verb, kind |-> k, group |-> Parsed(c).group,
                 name |-> Parsed(c).name, ns |-> Parsed(c).ns]
<1>1. /\ Parsed(c).group = c.group /\ Parsed(c).name = c.name /\ Parsed(c).verb = VerbOf(c)
      /\ Placed(c) => Parsed(c).ns = NamespaceOf(c)
  BY UrlIsRight
<1> SUFFICES ASSUME NEW x \in DOMAIN rule, x \in {"verb", "kind", "group", "name", "ns"}
             PROVE  rule[x] \in {"", b[x]}
  BY DEF Matches
<1>2. rule[x] \in {"", a[x]}
  BY DEF Matches
<1>3. CASE Placed(c)
  <2>1. a = b
    BY <1>1, <1>3
  <2> QED
    BY <1>2, <2>1
<1>4. CASE ~Placed(c)
  <2>1. a["ns"] = ""
    BY <1>4 DEF Placed
  <2>2. CASE x = "ns"
    BY <1>2, <2>1, <2>2
  <2>3. CASE x # "ns"
    <3>1. a[x] = b[x]
      BY <1>1, <2>3
    <3> QED
      BY <1>2, <3>1, Zenon
  <2> QED
    BY <2>2, <2>3
<1> QED
  BY <1>3, <1>4

\* The user's consent, also across a reload: what a confirmation rule of the
\* configuration that the request was checked against matches, and what needs the
\* EULA, is sent only with it, and nobody is asked for what RBAC or the schema refuses.
THEOREM ConsentKept == Spec => []ConsentIsKept
<1>1. Inv => SentWithConsent
  <2> SUFFICES ASSUME Inv, NEW p \in Sent, proc[p].known, ~IsReview(proc[p].url)
               PROVE  LET r == proc[p]
                          fields == [verb |-> VerbOf(r.call), kind |-> KindOf(r.call), group |-> r.call.group,
                                     name |-> r.call.name, ns |-> NamespaceOf(r.call)]
                      IN /\ (\E rule \in r.cfg.rules : Matches(rule, fields)) =>
                              "confirm" \in r.accepted \/ (r.unanswered /\ r.cfg.fallback = "allow")
                         /\ r.call.body = "windows" => "eula" \in r.accepted
    BY DEF SentWithConsent
  <2> DEFINE r == proc[p]
             c == r.call
             fields == [verb |-> VerbOf(c), kind |-> KindOf(c), group |-> c.group,
                        name |-> c.name, ns |-> NamespaceOf(c)]
  <2>1. /\ Sound(r) /\ r.url.ok /\ IsCall(c) /\ r.url = Parsed(c) /\ ~Misread(c)
        /\ Confirmed(r) /\ Licensed(r)
    BY SentIs DEF Admitted
  <2>2. r.kind = KindOf(c) /\ r.kind # ""
    BY <2>1 DEF Sound, Formed
  <2>3. ASSUME NEW rule \in r.cfg.rules, Matches(rule, fields)
        PROVE  "confirm" \in r.accepted \/ (r.unanswered /\ r.cfg.fallback = "allow")
    <3>1. Matches(rule, [verb |-> Parsed(c).verb, kind |-> KindOf(c), group |-> Parsed(c).group,
                         name |-> Parsed(c).name, ns |-> Parsed(c).ns])
      BY <2>1, <2>3, RulesMatch
    <3>2. Matches(rule, [verb |-> r.url.verb, kind |-> r.kind, group |-> r.url.group,
                         name |-> r.url.name, ns |-> r.url.ns])
      BY <2>1, <2>2, <3>1
    <3> QED
      BY <2>1, <2>3, <3>2 DEF Confirmed
  <2>4. ASSUME c.body = "windows" PROVE "eula" \in r.accepted
    <3>1. KindOf(c) = "PipelineRun" /\ c.group = "tekton.dev" /\ VerbOf(c) \in {"create", "update", "patch"}
      BY <2>1, <2>2, <2>4, WindowsIsAPipelineRun
    <3>2. r.url.verb = VerbOf(c) /\ r.url.group = c.group
      BY <2>1, UrlIsRight
    <3> QED
      BY <2>1, <2>2, <2>4, <3>1, <3>2 DEF Licensed
  <2> QED
    BY <2>3, <2>4
<1>2. Inv => NoPromptForNothing
  <2> SUFFICES ASSUME Inv, NEW p \in Active, proc[p].outcome \in {"forbidden", "invalid"}
               PROVE  ~proc[p].prompted
    BY DEF NoPromptForNothing
  <2>1. Sound(proc[p])
    BY ActiveIs
  <2> QED
    BY <2>1 DEF Sound, Formed, Decided
<1> QED
  BY <1>1, <1>2, Invariance, PTL DEF ConsentIsKept

\* Refusals: RBAC denies what is refused as forbidden, a resource that is reported
\* missing was not there when its request came (or discovery failed, or its group had
\* been listed without it), a manifest is judged by a schema that had not expired then,
\* whoever fetched it, and one that is called invalid is bad or its schema could not be
\* fetched.
THEOREM RefusalsHaveReasons == Spec => []RefusedForAReason
<1>1. Inv => ForbiddenMeansDenied
  <2> SUFFICES ASSUME Inv, NEW p \in Active, proc[p].outcome = "forbidden", proc[p].call.sub = ""
               PROVE  LET c == proc[p].call IN <<VerbOf(c), c.group, c.res, c.sub>> \notin Granted
    BY DEF ForbiddenMeansDenied, Forbidden
  <2> DEFINE r == proc[p]
             c == r.call
  <2>1. Sound(r)
    BY ActiveIs
  <2>2. /\ IsCall(c) /\ r.url = Parsed(c) /\ r.url.ok /\ ~Misread(c)
        /\ <<r.url.verb, r.url.group, r.url.res, "">> \notin Granted
    BY <2>1 DEF Sound, Formed, Decided
  <2>3. r.url.verb = VerbOf(c) /\ r.url.group = c.group /\ r.url.res = c.res
    BY <2>2, UrlIsRight
  <2> QED
    BY <2>2, <2>3
<1>2. Inv => NotFoundMeansMissing
  <2> SUFFICES ASSUME Inv, NEW p \in Active, proc[p].outcome = "notfound" PROVE Missing(proc[p])
    BY DEF NotFoundMeansMissing, Missing
  <2>1. p \in Procs /\ Sound(proc[p])
    BY ActiveIs
  <2>2. On(p, "ended")
    BY <2>1 DEF Sound, Formed, On
  <2> QED
    BY <2>1, <2>2 DEF Inv, NoneLost
<1>3. Inv => ExpiredSchemaIsNotUsed
  <2> SUFFICES ASSUME Inv, NEW p \in Active, proc[p].used # 0 PROVE proc[p].used > proc[p].stale
    BY DEF ExpiredSchemaIsNotUsed
  <2>1. p \in Procs /\ proc[p] # Idle
    BY ActiveIs
  <2> QED
    BY <2>1 DEF Inv, SchemaNewer
<1>4. Inv => InvalidMeansWrong
  <2> SUFFICES ASSUME Inv, NEW p \in Active, proc[p].outcome = "invalid"
               PROVE  proc[p].call.body = "bad" \/ proc[p].schemaFailed
    BY DEF InvalidMeansWrong
  <2>1. Sound(proc[p])
    BY ActiveIs
  <2>2. proc[p].pc = "ended"
    BY <2>1 DEF Sound, Formed
  <2> QED
    BY <2>1, <2>2 DEF Sound, Decided
<1> QED
  BY <1>1, <1>2, <1>3, <1>4, Invariance, PTL DEF RefusedForAReason

-----------------------------------------------------------------------------
(***************************************************************************)
(* The flight that fetches the schema.                                     *)
(***************************************************************************)
Flying == {"lead", "fetch"}

\* One request is in it, and it fetches only what is not fresh, so no more schemas
\* are fetched than expire, and one.
OneFlight ==
  /\ \A p \in Procs : (flight = p) <=> proc[p].pc \in Flying
  /\ \A p \in Procs : On(p, "fetch") => schema.id = 0 \/ schema.expired
  /\ schema.id <= MaxSchemas /\ (schema.expired => schema.id < MaxSchemas)

LEMMA NobodyIsNoProc == NoProc \notin Procs
  BY DEF NoProc, Procs

LEMMA FlightStays ==
  ASSUME OneFlight, flight' = flight, schema' = schema,
         \A q \in Procs : \/ proc'[q].pc = proc[q].pc
                          \/ proc'[q].pc \notin Flying /\ proc[q].pc \notin Flying
  PROVE  OneFlight'
<1>1. \A q \in Procs : (flight' = q) <=> proc'[q].pc \in Flying
  BY DEF OneFlight
<1>2. \A q \in Procs : proc'[q].pc = "fetch" => schema'.id = 0 \/ schema'.expired
  BY DEF OneFlight, On, Flying
<1>3. schema'.id <= MaxSchemas /\ (schema'.expired => schema'.id < MaxSchemas)
  BY DEF OneFlight
<1> QED
  BY <1>1, <1>2, <1>3 DEF OneFlight, On

LEMMA PcIs ==
  ASSUME Requests, NEW p \in Procs, NEW f, Set(p, f), "pc" \in DOMAIN f
  PROVE  proc'[p].pc = f.pc /\ \A q \in Procs : q # p => proc'[q] = proc[q]
<1>1. DOMAIN proc = Procs
  BY DEF Requests
<1>2. proc'[p] = With(proc[p], f) /\ \A q \in Procs : q # p => proc'[q] = proc[q]
  BY <1>1 DEF Set
<1> QED
  BY <1>2, WithKeeps

\* A request that is not in it does not enter it, but in Do.
LEMMA StaysOut ==
  ASSUME Inv, OneFlight, NEW p \in Procs, proc[p].pc \notin Flying, NEW f, Set(p, f),
         "pc" \in DOMAIN f, f.pc \notin Flying, flight' = flight, schema' = schema
  PROVE  OneFlight'
  BY Facts, PcIs, FlightStays

LEMMA ResolveFlight ==
  ASSUME Inv, OneFlight, NEW p \in Procs, Resolve(p) \/ Discover(p) \/ Store(p) \/ Check(p)
  PROVE  OneFlight'
<1>1. flight' = flight /\ schema' = schema
  BY DEF Resolve, Discover, Store, Check
<1>2. proc[p].pc \notin Flying
  BY DEF Resolve, Discover, Store, Check, On, Flying
<1>3. ASSUME NEW o, Set(p, [pc |-> "ended", outcome |-> o]) PROVE OneFlight'
  BY <1>1, <1>2, <1>3, StaysOut DEF Flying
<1>4. ASSUME NEW entries, Found(p, entries) PROVE OneFlight'
  <2>1. CASE Set(p, [pc |-> "check"])
    BY <1>1, <1>2, <2>1, StaysOut DEF Flying
  <2> QED
    BY <1>3, <1>4, <2>1 DEF Found, End
<1>5. CASE Resolve(p)
  <2>1. CASE Set(p, [pc |-> "discover"])
    BY <1>1, <1>2, <2>1, StaysOut DEF Flying
  <2>2. ASSUME NEW k, Set(p, [pc |-> "check", known |-> TRUE, kind |-> k]) PROVE OneFlight'
    BY <1>1, <1>2, <2>2, StaysOut DEF Flying
  <2> QED
    BY <1>3, <1>5, <2>1, <2>2 DEF Resolve, End
<1>6. CASE Discover(p)
  <2>1. ASSUME NEW l, Set(p, [pc |-> "store", list |-> l]) PROVE OneFlight'
    BY <1>1, <1>2, <2>1, StaysOut DEF Flying
  <2>2. ASSUME NEW b, Set(p, [pc |-> "ended", outcome |-> "notfound", discoveryFailed |-> b]) PROVE OneFlight'
    BY <1>1, <1>2, <2>2, StaysOut DEF Flying
  <2> QED
    BY <1>4, <1>6, <2>1, <2>2 DEF Discover
<1>7. CASE Store(p)
  BY <1>4, <1>7 DEF Store
<1>8. CASE Check(p)
  <2>1. ASSUME NEW o, Set(p, [pc |-> "ended", outcome |-> o, cfg |-> live]) PROVE OneFlight'
    BY <1>1, <1>2, <2>1, StaysOut DEF Flying
  <2>2. CASE Set(p, [pc |-> "validators", cfg |-> live])
    BY <1>1, <1>2, <2>2, StaysOut DEF Flying
  <2> QED
    BY <1>8, <2>1, <2>2 DEF Check
<1> QED
  BY <1>5, <1>6, <1>7, <1>8

LEMMA ValidateFlight ==
  ASSUME Inv, OneFlight, NEW p \in Procs,
         currentValidators(p) \/ Send(p) \/ Lookup(p) \/ Judge(p) \/ Ask(p) \/ Answer(p)
  PROVE  OneFlight'
<1>1. flight' = flight /\ schema' = schema
  BY DEF currentValidators, Send, Lookup, Judge, Ask, Answer
<1>2. proc[p].pc \notin Flying
  BY DEF currentValidators, Send, Lookup, Judge, Ask, Answer, Validating, On, Flying
<1>3. ASSUME NEW o, Set(p, [pc |-> "ended", outcome |-> o]) PROVE OneFlight'
  BY <1>1, <1>2, <1>3, StaysOut DEF Flying
<1>4. ASSUME Set(p, Passed(p)) PROVE OneFlight'
  BY <1>1, <1>2, <1>4, StaysOut DEF Flying, Passed
<1>5. CASE currentValidators(p)
  <2>1. PICK v : Set(p, [pc |-> "validate", by |-> v, todo |-> validatorsFromConfig(v)])
    BY <1>5 DEF currentValidators
  <2> QED
    BY <1>1, <1>2, <2>1, StaysOut DEF Flying
<1>6. CASE Send(p)
  BY <1>3, <1>6 DEF Send, End
<1>7. CASE Lookup(p)
  <2>1. CASE Set(p, [pc |-> "judge", used |-> schema.id])
    BY <1>1, <1>2, <2>1, StaysOut DEF Flying
  <2>2. CASE Set(p, [pc |-> "miss"])
    BY <1>1, <1>2, <2>2, StaysOut DEF Flying
  <2> QED
    BY <1>4, <1>7, <2>1, <2>2 DEF Lookup
<1>8. CASE Judge(p)
  BY <1>3, <1>4, <1>8 DEF Judge, End
<1>9. CASE Ask(p)
  <2>1. CASE Set(p, [pc |-> "asking", prompted |-> TRUE])
    BY <1>1, <1>2, <2>1, StaysOut DEF Flying
  <2>2. PICK v : Set(p, IF NeedsAnswer(p, v) THEN [pc |-> "asking", prompted |-> TRUE] ELSE Passed(p))
    BY <1>9 DEF Ask
  <2>3. Set(p, [pc |-> "asking", prompted |-> TRUE]) \/ Set(p, Passed(p))
    BY <2>2
  <2> QED
    BY <1>4, <2>1, <2>3
<1>10. CASE Answer(p)
  <2>1. ASSUME NEW g, Set(p, With(Passed(p), g)), "pc" \notin DOMAIN g PROVE OneFlight'
    <3>1. "pc" \in DOMAIN With(Passed(p), g) /\ With(Passed(p), g).pc = "validate"
      BY <2>1 DEF With, Passed
    <3> QED
      BY <1>1, <1>2, <2>1, <3>1, StaysOut DEF Flying
  <2>2. CASE Set(p, With(Passed(p), [accepted |-> proc[p].accepted \cup {Head(proc[p].todo)}]))
    BY <2>1, <2>2
  <2>3. CASE Set(p, With(Passed(p), [unanswered |-> TRUE]))
    BY <2>1, <2>3
  <2> QED
    BY <1>3, <1>10, <2>2, <2>3 DEF Answer, End
<1> QED
  BY <1>5, <1>6, <1>7, <1>8, <1>9, <1>10

LEMMA RequestFlight ==
  ASSUME Inv, OneFlight, NEW p \in Procs, Arrive(p) \/ Return(p) \/ StartReview(p) \/ EndReview(p)
  PROVE  OneFlight'
<1>1. flight' = flight /\ schema' = schema /\ DOMAIN proc = Procs
  BY Facts DEF Arrive, Return, StartReview, EndReview, Requests
<1>2. ASSUME NEW c PROVE Request(c).pc = "resolve"
  BY DEF Request
<1>3. CASE Arrive(p)
  <2>1. PICK c : proc' = [proc EXCEPT ![p] = Request(c)]
    BY <1>3 DEF Arrive
  <2>2. proc[p].pc = "idle"
    BY <1>3 DEF Arrive, On
  <2>3. proc'[p].pc = "resolve" /\ \A q \in Procs : q # p => proc'[q] = proc[q]
    BY <1>1, <1>2, <2>1
  <2> QED
    BY <1>1, <2>2, <2>3, FlightStays DEF Flying
<1>4. CASE Return(p)
  <2>1. proc[p].pc = "ended" /\ proc'[p].pc = "idle" /\ \A q \in Procs : q # p => proc'[q] = proc[q]
    BY <1>1, <1>4 DEF Return, On, Idle
  <2> QED
    BY <1>1, <2>1, FlightStays DEF Flying
<1>5. CASE StartReview(p)
  <2>1. /\ proc[p].pc = "validate" /\ proc[Review(p)].pc = "idle"
        /\ proc' = [proc EXCEPT ![p].pc = "review", ![Review(p)] = Request(ReviewCall)]
    BY <1>5 DEF StartReview, Validating, On
  <2>2. Review(p) \in Procs /\ Review(p) # p
    BY <2>1, NoReview DEF Validation
  <2>3. "pc" \in DOMAIN proc[p]
    BY <2>1, IsRead DEF Underway, Checked, Validation, Sound, Formed, Fields
  <2>4. /\ proc'[p].pc = "review" /\ proc'[Review(p)] = Request(ReviewCall)
        /\ \A q \in Procs : q # p /\ q # Review(p) => proc'[q] = proc[q]
    BY <1>1, <2>1, <2>2, <2>3
  <2> QED
    BY <1>1, <1>2, <2>1, <2>4, FlightStays DEF Flying
<1>6. CASE EndReview(p)
  <2>1. proc[p].pc = "review" /\ proc[Review(p)].pc = "ended"
    BY <1>6 DEF EndReview, On
  <2>2. Review(p) \in Procs /\ Review(p) # p
    BY <2>1, NoReview DEF Validation
  <2> DEFINE no == [pc |-> "ended", outcome |-> "forbidden"]
             allowed == <<proc[p].url.verb, proc[p].url.group, proc[p].url.res, "">> \in Granted
  <2>3. PICK result : proc' = [proc EXCEPT ![Review(p)] = Idle,
                               ![p] = With(proc[p], IF result = "error" \/ allowed THEN Passed(p) ELSE no)]
    BY <1>1, <2>2, <1>6 DEF EndReview
  <2> DEFINE f == IF result = "error" \/ allowed THEN Passed(p) ELSE no
  <2>4. "pc" \in DOMAIN f /\ f.pc \in {"validate", "ended"}
    BY DEF Passed
  <2> HIDE DEF f
  <2>5. /\ proc'[p] = With(proc[p], f) /\ proc'[Review(p)] = Idle
        /\ \A q \in Procs : q # p /\ q # Review(p) => proc'[q] = proc[q]
    BY <1>1, <2>2, <2>3 DEF f
  <2>6. proc'[p].pc \in {"validate", "ended"} /\ proc'[Review(p)].pc = "idle"
    BY <2>4, <2>5, WithKeeps DEF Idle
  <2> QED
    BY <1>1, <2>1, <2>5, <2>6, FlightStays DEF Flying
<1> QED
  BY <1>3, <1>4, <1>5, <1>6

\* The flight ends, for all who are in it or wait for it.
LEMMA LandFlight ==
  ASSUME Inv, OneFlight, NEW p \in Procs, proc[p].pc \in Flying, NEW f, Land(p, f),
         "pc" \in DOMAIN f, f.pc \notin Flying,
         schema'.id <= MaxSchemas, schema'.expired => schema'.id < MaxSchemas
  PROVE  OneFlight'
<1>1. flight = p /\ flight' = NoProc
  BY DEF OneFlight, Land
<1>2. ASSUME NEW q \in Procs PROVE proc'[q].pc \notin Flying
  <2>1. CASE q \in Waiting(p)
    <3>1. proc'[q] = With(proc[q], f)
      BY <2>1 DEF Land
    <3> QED
      BY <3>1, WithKeeps
  <2>2. CASE q \notin Waiting(p)
    <3>1. proc'[q] = proc[q] /\ q # p
      BY <2>2 DEF Land, Waiting
    <3> QED
      BY <1>1, <3>1 DEF OneFlight
  <2> QED
    BY <2>1, <2>2
<1>3. \A q \in Procs : flight' # q
  BY <1>1, NobodyIsNoProc
<1>4. \A q \in Procs : proc'[q].pc # "fetch"
  BY <1>2 DEF Flying
<1> QED
  BY <1>2, <1>3, <1>4 DEF OneFlight, On

LEMMA SchemaFlight ==
  ASSUME Inv, OneFlight, NEW p \in Procs, Do(p) \/ Lead(p) \/ Fetch(p)
  PROVE  OneFlight'
<1>1. schema.id \in Nat /\ schema.id <= MaxSchemas /\ (schema.expired => schema.id < MaxSchemas)
      /\ MaxSchemas \in Nat \ {0}
  BY Facts, AccessAssumption DEF SchemaNewer, OneFlight
<1>2. CASE Do(p)
  <2>1. proc[p].pc = "miss" /\ schema' = schema
    BY <1>2 DEF Do, On
  <2>2. CASE flight = NoProc /\ Set(p, [pc |-> "lead"]) /\ flight' = p
    <3>1. proc'[p].pc = "lead" /\ \A q \in Procs : q # p => proc'[q] = proc[q]
      BY <2>2, Facts, PcIs
    <3>2. \A q \in Procs : proc[q].pc \notin Flying
      BY <2>2, NobodyIsNoProc DEF OneFlight
    <3>3. \A q \in Procs : (flight' = q) <=> proc'[q].pc \in Flying
      BY <2>2, <3>1, <3>2 DEF Flying
    <3>4. \A q \in Procs : proc'[q].pc # "fetch"
      BY <3>1, <3>2 DEF Flying
    <3> QED
      BY <1>1, <2>1, <3>3, <3>4 DEF OneFlight, On
  <2>3. CASE Set(p, [pc |-> "wait"]) /\ flight' = flight
    BY <2>1, <2>3, StaysOut DEF Flying
  <2> QED
    BY <1>2, <2>2, <2>3 DEF Do
<1>3. CASE Lead(p)
  <2>1. proc[p].pc = "lead" /\ schema' = schema /\ proc[p].pc \in Flying
    BY <1>3 DEF Lead, On, Flying
  <2>2. CASE Land(p, [pc |-> "judge", used |-> schema.id])
    BY <1>1, <2>1, <2>2, LandFlight DEF Flying
  <2>3. CASE ~fresh /\ Set(p, [pc |-> "fetch"]) /\ flight' = flight
    <3>1. proc'[p].pc = "fetch" /\ \A q \in Procs : q # p => proc'[q] = proc[q]
      BY <2>3, Facts, PcIs
    <3>2. schema.id = 0 \/ schema.expired
      BY <2>3 DEF fresh
    <3>3. \A q \in Procs : (flight' = q) <=> proc'[q].pc \in Flying
      BY <2>1, <2>3, <3>1 DEF Flying, OneFlight
    <3> QED
      BY <1>1, <2>1, <3>2, <3>3 DEF OneFlight, On
  <2> QED
    BY <1>3, <2>2, <2>3 DEF Lead
<1>4. CASE Fetch(p)
  <2>1. proc[p].pc = "fetch" /\ proc[p].pc \in Flying
    BY <1>4 DEF Fetch, On, Flying
  <2>2. CASE /\ schema' = [id |-> schema.id + 1, expired |-> FALSE]
             /\ Land(p, [pc |-> "judge", used |-> schema.id + 1])
    <3>1. schema.id = 0 \/ schema.expired
      BY <2>1 DEF OneFlight, On
    <3>2. schema'.id = schema.id + 1 /\ ~schema'.expired
      BY <2>2
    <3>3. schema'.id <= MaxSchemas
      BY <1>1, <3>1, <3>2
    <3> QED
      BY <2>1, <2>2, <3>2, <3>3, LandFlight DEF Flying
  <2>3. CASE schema' = schema /\ Land(p, [pc |-> "ended", outcome |-> "invalid", schemaFailed |-> TRUE])
    BY <1>1, <2>1, <2>3, LandFlight DEF Flying
  <2> QED
    BY <1>4, <2>2, <2>3 DEF Fetch
<1> QED
  BY <1>2, <1>3, <1>4

LEMMA OtherFlight ==
  ASSUME Inv, OneFlight, Publish \/ Install \/ ResetMapper \/ Expire \/ UNCHANGED vars
  PROVE  OneFlight'
<1>1. proc' = proc /\ flight' = flight
  BY DEF Publish, Install, ResetMapper, Expire, vars
<1>2. CASE schema' = schema
  BY <1>1, <1>2, FlightStays
<1>3. CASE Expire
  <2>1. schema'.id = schema.id /\ schema'.expired = TRUE /\ schema.id \in 1 .. MaxSchemas - 1
    BY <1>3 DEF Expire
  <2> QED
    BY <1>1, <2>1, AccessAssumption DEF OneFlight, On
<1> QED
  BY <1>2, <1>3 DEF Publish, Install, ResetMapper, vars

\* One flight fetches the schema at a time, and what is cached, chosen and counted has
\* its type: the schemas stay within their bound, as do configurations and answers.
THEOREM TypeCorrect == Spec => []TypeOK
<1>1. Init => OneFlight
  <2> SUFFICES ASSUME Init PROVE OneFlight
    OBVIOUS
  <2>1. \A p \in Procs : proc[p].pc = "idle"
    BY DEF Init, Idle
  <2>2. flight = NoProc /\ schema.id = 0 /\ ~schema.expired
    BY DEF Init
  <2> QED
    BY <2>1, <2>2, NobodyIsNoProc, AccessAssumption DEF OneFlight, On, Flying
<1>2. Inv /\ OneFlight /\ [Next]_vars => OneFlight'
  <2> SUFFICES ASSUME Inv, OneFlight, [Next]_vars PROVE OneFlight'
    OBVIOUS
  <2>1. ASSUME NEW p \in Procs, Arrive(p) \/ Step(p) \/ Answer(p) \/ Return(p) PROVE OneFlight'
    BY <2>1, ResolveFlight, ValidateFlight, RequestFlight, SchemaFlight, Zenon DEF Step
  <2> QED
    BY <2>1, OtherFlight, Zenon DEF Next
<1>3. Inv /\ OneFlight => TypeOK
  <2> SUFFICES ASSUME Inv, OneFlight PROVE TypeOK
    OBVIOUS
  <2>1. live \in Configs /\ valid \subseteq Configs
    BY DEF Inv, Configured
  <2>2. served \subseteq Entries /\ mapper \subseteq served /\ \A g \in DOMAIN raw : raw[g] \subseteq served
    BY DEF Inv, Discovered
  <2>3. schema.id \in 0 .. MaxSchemas
    BY AccessAssumption DEF Inv, SchemaNewer, OneFlight
  <2>4. schema.expired \in BOOLEAN
    BY DEF Inv, SchemaNewer
  <2>5. \A p \in Procs : (flight = p) <=> proc[p].pc \in {"lead", "fetch"}
    BY DEF OneFlight, Flying
  <2>6. \A p \in Active : proc[p].accepted \subseteq {"confirm", "eula"} /\ proc[p].used \in 0 .. schema.id
    BY ActiveIs DEF Sound, Formed, Inv, SchemaNewer
  <2> QED
    BY <2>1, <2>2, <2>3, <2>4, <2>5, <2>6, Zenon DEF TypeOK
<1> QED
  BY <1>1, <1>2, <1>3, Invariance, PTL DEF Spec
=============================================================================
