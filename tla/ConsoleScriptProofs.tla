------------------------- MODULE ConsoleScriptProofs -------------------------
(***************************************************************************)
(* Proof that scripts run to their first failure, for scripts of every     *)
(* length and every number of open files.                                  *)
(*                                                                         *)
(* What a script is to do is defined by recursion, on its lines and on the *)
(* files it may still open; the lemmas of the first two parts turn these   *)
(* definitions into equations.                                             *)
(***************************************************************************)
EXTENDS ConsoleProofs, WellFoundedInduction

\* Induction, of a set: NatInduction takes an operator.
LEMMA SetInduction ==
    ASSUME NEW S \in SUBSET Nat, 0 \in S, \A n \in S : n + 1 \in S
    PROVE  S = Nat
<1> DEFINE T == Nat \ S
           R == {ss \in Nat \X Nat : ss[1] < ss[2]}
<1>1. SUFFICES ASSUME T # {} PROVE FALSE
  OBVIOUS
<1>2. PICK n \in T : \A k \in T : <<k, n>> \notin R
  <2>1. T \subseteq Nat
    OBVIOUS
  <2>2. IsWellFoundedOn(R, Nat)
    BY ONLY NatLessThanWellFounded DEF OpToRel
  <2> HIDE DEF T, R
  <2> QED
    BY ONLY <1>1, <2>1, <2>2, WFMin
<1>3. \A k \in T : ~(k < n)
  BY <1>2
<1>4. n # 0 /\ n - 1 \in Nat
  OBVIOUS
<1>5. n - 1 \in T
  <2>1. n = (n - 1) + 1
    BY <1>4
  <2> QED
    BY <1>4, <2>1
<1> QED
  BY <1>3, <1>4, <1>5

Recurs(N, S, a, G, f) ==
    f \in [0 .. N -> S] /\ f[0] = a /\ \A n \in 1 .. N : f[n] = G[n][f[n - 1]]

Recursive(N, S, a, G) == \E f : Recurs(N, S, a, G, f)

\* A function can be defined up to N by what each value makes of the last.
LEMMA RecursionExists ==
    \A N, S, a, G : N \in Nat /\ a \in S /\ G \in [1 .. N -> [S -> S]] => Recursive(N, S, a, G)
<1> SUFFICES ASSUME NEW N, NEW S, NEW a, NEW G,
                    N \in Nat, a \in S, G \in [1 .. N -> [S -> S]]
             PROVE  Recursive(N, S, a, G)
  OBVIOUS
<1> DEFINE Upto(m) == \E f \in [0 .. m -> S] :
                          f[0] = a /\ \A n \in 1 .. m : f[n] = G[n][f[n - 1]]
           A == {m \in Nat : m <= N => Upto(m)}
<1>1. 0 \in A
  <2> DEFINE g == [n \in 0 .. 0 |-> a]
  <2>1. g \in [0 .. 0 -> S] /\ g[0] = a
    OBVIOUS
  <2> HIDE DEF g
  <2>2. Upto(0)
    BY <2>1
  <2> QED
    BY <2>2
<1>2. ASSUME NEW m \in A PROVE m + 1 \in A
  <2>1. SUFFICES ASSUME m + 1 <= N PROVE Upto(m + 1)
    OBVIOUS
  <2>2. m \in Nat /\ m <= N /\ Upto(m)
    BY <2>1
  <2>3. PICK f \in [0 .. m -> S] : f[0] = a /\ \A n \in 1 .. m : f[n] = G[n][f[n - 1]]
    BY <2>2
  <2> DEFINE g == [n \in 0 .. m + 1 |-> IF n = m + 1 THEN G[m + 1][f[m]] ELSE f[n]]
  <2>4. G[m + 1][f[m]] \in S
    BY <2>1, <2>2
  <2>5. g \in [0 .. m + 1 -> S]
    BY <2>2, <2>4
  <2>6. g[0] = a
    BY <2>2, <2>3
  <2>7. ASSUME NEW n \in 1 .. m + 1 PROVE g[n] = G[n][g[n - 1]]
    <3>1. n - 1 \in 0 .. m /\ g[n - 1] = f[n - 1]
      BY <2>2
    <3> QED
      BY <2>2, <2>3, <3>1
  <2> HIDE DEF g
  <2> QED
    BY <2>5, <2>6, <2>7
<1>3. A = Nat
  <2> HIDE DEF A
  <2>1. A \subseteq Nat
    BY DEF A
  <2> QED
    BY <1>1, <1>2, <2>1, SetInduction
<1> QED
  BY <1>3 DEF Recursive, Recurs

\* What holds of 0, and of the next with each, holds up to N.
LEMMA BoundedInduction ==
    ASSUME NEW N \in Nat, NEW S,
           0 \in S, \A n \in 1 .. N : n - 1 \in S => n \in S
    PROVE  \A n \in 0 .. N : n \in S
<1> DEFINE A == {m \in Nat : m <= N => m \in S}
<1>1. 0 \in A
  OBVIOUS
<1>2. ASSUME NEW m \in A PROVE m + 1 \in A
  <2>1. SUFFICES ASSUME m + 1 <= N PROVE m + 1 \in S
    OBVIOUS
  <2>2. m + 1 \in 1 .. N /\ (m + 1) - 1 = m /\ m \in S
    BY <2>1
  <2> QED
    BY <2>2
<1>3. A = Nat
  <2> HIDE DEF A
  <2>1. A \subseteq Nat
    BY DEF A
  <2> QED
    BY <1>1, <1>2, <2>1, SetInduction
<1> QED
  BY <1>3

-----------------------------------------------------------------------------

LEMMA ThenProperties ==
    /\ Nothing \in Result
    /\ \A r, s \in Result : Then(r, s) \in Result
    /\ \A r \in Result : Then(Nothing, r) = r
    /\ \A r \in Result : Then(r, Nothing) = r
    /\ \A r, s, t \in Result : Then(Then(r, s), t) = Then(r, Then(s, t))
<1>1. Nothing \in Result
  BY OkIsSigned, EmptySeq DEF Nothing, Result
<1>2. \A r, s \in Result : Then(r, s) \in Result
  BY DEF Then, Result
<1>3. ASSUME NEW r \in Result PROVE Then(Nothing, r) = r
  <2>1. <<>> \o r.done = r.done
    BY DEF Result
  <2> QED
    BY <2>1 DEF Then, Nothing, Result
<1>4. ASSUME NEW r \in Result PROVE Then(r, Nothing) = r
  <2>1. r.done \o <<>> = r.done
    BY DEF Result
  <2> QED
    BY <2>1 DEF Then, Nothing, Result
<1>5. ASSUME NEW r \in Result, NEW s \in Result, NEW t \in Result
      PROVE  Then(Then(r, s), t) = Then(r, Then(s, t))
  <2>1. (r.done \o s.done) \o t.done = r.done \o (s.done \o t.done)
    BY DEF Result
  <2> QED
    BY <2>1 DEF Then
<1> QED
  BY <1>1, <1>2, <1>3, <1>4, <1>5

Each(line, each) == IF line.kind = "comment" THEN Nothing ELSE each[line]

LEMMA LastsProperties ==
    ASSUME NEW lines \in Seq(Line), NEW each \in [Line -> Result]
    PROVE  LET L == Lasts(lines, each)
           IN  /\ L[0] = Nothing
               /\ \A n \in 1 .. Len(lines) :
                      L[n] = Then(Each(lines[Len(lines) - n + 1], each), L[n - 1])
               /\ \A n \in 0 .. Len(lines) : L[n] \in Result
<1> DEFINE N == Len(lines)
           At(n) == Each(lines[N - n + 1], each)
           G == [n \in 1 .. N |-> [r \in Result |-> Then(At(n), r)]]
<1>1. N \in Nat
  OBVIOUS
<1>2. \A n \in 1 .. N : At(n) \in Result
  <2>1. \A n \in 1 .. N : lines[N - n + 1] \in Line
    BY <1>1
  <2> QED
    BY <2>1, ThenProperties DEF Each
<1>3. G \in [1 .. N -> [Result -> Result]]
  <2> HIDE DEF At
  <2> QED
    BY <1>2, ThenProperties
<1>4. PICK f : Recurs(N, Result, Nothing, G, f)
  <2>1. Nothing \in Result
    BY ThenProperties
  <2> HIDE DEF G, N
  <2> QED
    BY <1>1, <1>3, <2>1, RecursionExists DEF Recursive
<1> DEFINE Defined(g) == [n \in 0 .. N |-> IF n = 0 THEN Nothing ELSE Then(At(n), g[n - 1])]
<1>5. f = Defined(f)
  <2>0. f \in [0 .. N -> Result]
    BY <1>4 DEF Recurs
  <2>1. ASSUME NEW n \in 0 .. N PROVE f[n] = Defined(f)[n]
    <3>1. CASE n = 0
      BY <1>4, <3>1 DEF Recurs
    <3>2. CASE n # 0
      <4>1. n \in 1 .. N /\ n - 1 \in 0 .. N
        BY <1>1, <3>2
      <4>2. f[n - 1] \in Result
        BY <1>4, <4>1 DEF Recurs
      <4> HIDE DEF At
      <4> QED
        BY <1>4, <3>2, <4>1, <4>2 DEF Recurs
    <3> QED
      BY <3>1, <3>2
  <2> HIDE DEF At
  <2> QED
    BY <2>0, <2>1
<1> DEFINE L == Lasts(lines, each)
<1>6. L = Defined(L)
  <2>1. \E g : g = Defined(g)
    BY <1>5
  <2> QED
    BY <2>1 DEF Lasts, Each
<1>7. L[0] = Nothing
  BY <1>1, <1>6
<1>8. \A n \in 1 .. N : L[n] = Then(At(n), L[n - 1])
  <2> HIDE DEF At
  <2> QED
    BY <1>1, <1>6
<1>9. \A n \in 0 .. N : L[n] \in Result
  <2> HIDE DEF At, L
  <2> DEFINE P == {n \in 0 .. N : L[n] \in Result}
  <2>1. 0 \in P
    BY <1>1, <1>7, ThenProperties
  <2>2. ASSUME NEW n \in 1 .. N, n - 1 \in P PROVE n \in P
    <3>1. n \in 0 .. N /\ L[n - 1] \in Result
      BY <1>1, <2>2
    <3>2. Then(At(n), L[n - 1]) \in Result
      BY <1>2, <3>1, ThenProperties
    <3> QED
      BY <1>8, <3>1, <3>2
  <2>3. \A n \in 0 .. N : n \in P
    <3> HIDE DEF P, N
    <3> QED
      BY ONLY <1>1, <2>1, <2>2, BoundedInduction
  <2> QED
    BY <2>3
<1> QED
  BY <1>7, <1>8, <1>9

\* What the console makes of a line is what the line is to do by itself.
LEMMA AnswerIsAlone ==
    ASSUME NEW known \in SUBSET Commands, NEW line \in Line, line.kind # "run"
    PROVE  Alone(known, line) = [value |-> Answer(known, line),
                                 done |-> Effect(known, line)]
<1>1. ASSUME NEW u \in Unsigned PROVE ToInt(u) = SameBits(u)
  <2>1. /\ ToInt(u) \in Signed
        /\ ToInt(u) = u \/ ToInt(u) = u - 2 * (IntMax + 1)
    BY IntMaxAssumption DEF Unsigned, Signed, ToInt
  <2>2. ASSUME NEW i \in Signed, i = u \/ i = u - 2 * (IntMax + 1)
        PROVE  i = ToInt(u)
    BY <2>2, IntMaxAssumption DEF Unsigned, Signed, ToInt
  <2>3. SameBits(u) \in Signed
        /\ (SameBits(u) = u \/ SameBits(u) = u - 2 * (IntMax + 1))
    BY <2>1 DEF SameBits
  <2> QED
    BY <2>2, <2>3
<1>2. CASE Registered(known, line)
  <2>1. CodeOf[line.of] \in Unsigned
    BY <1>2, CommandsAssumption DEF Registered
  <2>2. ToInt(CodeOf[line.of]) = SameBits(CodeOf[line.of])
    BY <1>1, <2>1
  <2> QED
    BY <1>2, <2>2 DEF Registered, Alone, Answer, Effect
<1>3. CASE ~Registered(known, line)
  BY <1>3 DEF Registered, Alone, Answer, Effect
<1> QED
  BY <1>2, <1>3

\* What each line comes to, if d files can still be opened.
IsOutcomes(O, known, files) ==
    \A d \in 0 .. MaxOpen :
        /\ O[d] \in [Line -> Result]
        /\ \A line \in Line :
             /\ line.kind # "run"
                    => O[d][line] = [value |-> Answer(known, line),
                                     done |-> Effect(known, line)]
             /\ line.kind = "run" /\ d = 0 => O[d][line] = Nothing
             /\ line.kind = "run" /\ d # 0
                    => O[d][line] = Lasts(files[line.of], O[d - 1])[Len(files[line.of])]

LEMMA OutcomesProperties ==
    ASSUME NEW known \in SUBSET Commands, NEW files \in [Files -> Seq(Line)]
    PROVE  IsOutcomes(Outcomes(known, files), known, files)
<1> DEFINE N == MaxOpen
           Plain(line) == Alone(known, line)
           Base == [line \in Line |-> IF line.kind # "run" THEN Plain(line) ELSE Nothing]
           Script(f, each) == Lasts(files[f], each)[Len(files[f])]
           Over(each) == [line \in Line |-> IF line.kind # "run" THEN Plain(line)
                                            ELSE Script(line.of, each)]
           Each0 == [Line -> Result]
           G == [n \in 1 .. N |-> [each \in Each0 |-> Over(each)]]
<1>1. N \in Nat
  BY BoundsAssumption
<1>2. \A line \in Line : line.kind # "run" => Plain(line) \in Result
  BY AnswerIsAlone, AnswerType DEF Result
<1>3. \A line \in Line : line.kind = "run" => line.of \in Files
  BY DEF Line
<1>4. ASSUME NEW f \in Files, NEW each \in Each0 PROVE Script(f, each) \in Result
  BY LastsProperties
<1>5. Base \in Each0
  <2> HIDE DEF Plain
  <2> QED
    BY <1>2, ThenProperties
<1>6. ASSUME NEW each \in Each0 PROVE Over(each) \in Each0
  <2> HIDE DEF Plain, Script
  <2> QED
    BY <1>2, <1>3, <1>4
<1> HIDE DEF Each0
<1>7. G \in [1 .. N -> [Each0 -> Each0]]
  <2> HIDE DEF Over
  <2> QED
    BY <1>6
<1>8. PICK f : Recurs(N, Each0, Base, G, f)
  <2> HIDE DEF G, N, Base
  <2> QED
    BY <1>1, <1>5, <1>7, RecursionExists DEF Recursive
<1> DEFINE Value(g, d, line) == IF line.kind # "run" THEN Plain(line)
                                ELSE IF d = 0 THEN Nothing
                                ELSE Script(line.of, g[d - 1])
           Defined(g) == [d \in 0 .. N |-> [line \in Line |-> Value(g, d, line)]]
<1>9. f = Defined(f)
  <2>1. ASSUME NEW d \in 0 .. N PROVE f[d] = [line \in Line |-> Value(f, d, line)]
    <3>1. CASE d = 0
      BY <1>8, <3>1 DEF Recurs
    <3>2. CASE d # 0
      <4>1. d \in 1 .. N /\ f[d - 1] \in Each0
        BY <1>1, <1>8, <3>2 DEF Recurs
      <4>2. f[d] = Over(f[d - 1])
        <5> HIDE DEF Over
        <5> QED
          BY <1>8, <4>1 DEF Recurs
      <4> HIDE DEF Plain, Script
      <4> QED
        BY <3>2, <4>2
    <3> QED
      BY <3>1, <3>2
  <2> HIDE DEF Value
  <2> QED
    BY <1>8, <2>1 DEF Recurs
<1> DEFINE O == Outcomes(known, files)
<1>10. O = Defined(O)
  <2>1. \E g : g = Defined(g)
    BY <1>9
  <2> QED
    BY <2>1 DEF Outcomes
<1> HIDE DEF O
<1>11. \A d \in 0 .. N : O[d] = [line \in Line |-> Value(O, d, line)]
  <2> HIDE DEF Value
  <2> QED
    BY <1>10
<1>12. \A d \in 0 .. N : O[d] \in Each0
  <2> DEFINE P == {d \in 0 .. N : O[d] \in Each0}
  <2>1. 0 \in P
    <3>1. O[0] = Base
      <4> HIDE DEF Plain, Script
      <4> QED
        BY <1>1, <1>11
    <3> QED
      BY <1>1, <1>5, <3>1
  <2>2. ASSUME NEW d \in 1 .. N, d - 1 \in P PROVE d \in P
    <3>1. d - 1 \in 0 .. N /\ d \in 0 .. N /\ d # 0
      BY <1>1
    <3>2. O[d - 1] \in Each0
      BY <2>2, <3>1
    <3>3. O[d] = Over(O[d - 1])
      <4> HIDE DEF Plain, Script
      <4> QED
        BY <1>11, <3>1
    <3> HIDE DEF Over
    <3> QED
      BY <1>6, <3>1, <3>2, <3>3
  <2>3. \A d \in 0 .. N : d \in P
    <3> HIDE DEF P, N
    <3> QED
      BY ONLY <1>1, <2>1, <2>2, BoundedInduction
  <2> QED
    BY <2>3
<1> HIDE DEF Plain, Script
<1>13. ASSUME NEW d \in 0 .. MaxOpen, NEW line \in Line
       PROVE  O[d][line] = Value(O, d, line)
  <2> HIDE DEF Value
  <2> QED
    BY <1>11, <1>13
<1>14. \A line \in Line : line.kind # "run"
           => Plain(line) = [value |-> Answer(known, line), done |-> Effect(known, line)]
  BY AnswerIsAlone DEF Plain
<1> QED
  BY <1>12, <1>13, <1>14 DEF IsOutcomes, Each0, O, Script

-----------------------------------------------------------------------------

Lines(frame) == scripts[frame.file]

\* What is still to be done in the n-th file that is open.
Owed(n, frame) ==
    Lasts(Lines(frame), Outcomes(registered[user], scripts)[MaxOpen - n])
         [Len(Lines(frame)) - frame.next + 1]

SoFar == [value |-> IF ret = Nil THEN Ok ELSE ret, done |-> done]

(***************************************************************************)
(* q[n] is what all will come to once the files from the n-th on are read: *)
(* what is done so far for the first that is not open, and the outcome     *)
(* that was asked for, for the first of all.                               *)
(***************************************************************************)
Sums(q) ==
    /\ q \in [1 .. Len(stack) + 1 -> Result]
    /\ q[1] = Outcome(user)[asked]
    /\ q[Len(stack) + 1] = SoFar
    /\ \A n \in 1 .. Len(stack) : q[n] = Then(q[n + 1], Owed(n, stack[n]))

ScriptInv ==
    /\ \A n \in 1 .. Len(stack) : stack[n].next <= Len(Lines(stack[n])) + 1
    /\ asked # Nil => \E q : Sums(q)

LEMMA LinesAreLines ==
    ASSUME ConsoleTypeOK
    PROVE  /\ scripts \in [Files -> Seq(Line)]
           /\ \A frame \in Frame : /\ Lines(frame) \in Seq(Line)
                                   /\ Len(Lines(frame)) \in Nat
                                   /\ frame.next \in Nat \ {0}
<1>1. scripts \in [Files -> Seq(Line)]
  BY ScriptsAssumption DEF ConsoleTypeOK
<1> QED
  BY <1>1 DEF Lines, Frame

LEMMA OwedProperties ==
    ASSUME ConsoleTypeOK, user \in Consoles,
           NEW n \in 1 .. MaxOpen, NEW frame \in Frame
    PROVE  LET O    == Outcomes(registered[user], scripts)
               next == [frame EXCEPT !.next = @ + 1]
           IN  /\ frame.next <= Len(Lines(frame)) + 1 => Owed(n, frame) \in Result
               /\ frame.next = Len(Lines(frame)) + 1 => Owed(n, frame) = Nothing
               /\ frame.next <= Len(Lines(frame))
                      => /\ Owed(n, frame) = Then(Each(Lines(frame)[frame.next], O[MaxOpen - n]),
                                                  Owed(n, next))
                         /\ Owed(n, next) \in Result
               /\ \A line \in Line : line.kind = "run"
                      => O[MaxOpen - n + 1][line] = Owed(n, Start(line.of))
<1> DEFINE O    == Outcomes(registered[user], scripts)
           next == [frame EXCEPT !.next = @ + 1]
           m    == Len(Lines(frame)) - frame.next + 1
           L    == Lasts(Lines(frame), O[MaxOpen - n])
<1>1. /\ scripts \in [Files -> Seq(Line)]
      /\ Lines(frame) \in Seq(Line) /\ Len(Lines(frame)) \in Nat /\ frame.next \in Nat \ {0}
  BY LinesAreLines
<1>2. registered[user] \in SUBSET Commands /\ MaxOpen \in Nat
  BY BoundsAssumption DEF ConsoleTypeOK
<1>3. \A d \in 0 .. MaxOpen :
          /\ O[d] \in [Line -> Result]
          /\ \A line \in Line : line.kind = "run" /\ d # 0
                 => O[d][line] = Lasts(scripts[line.of], O[d - 1])[Len(scripts[line.of])]
  <2>1. IsOutcomes(O, registered[user], scripts)
    BY <1>1, <1>2, OutcomesProperties
  <2> HIDE DEF O
  <2> QED
    BY <2>1 DEF IsOutcomes
<1> HIDE DEF O
<1>4. O[MaxOpen - n] \in [Line -> Result]
  BY <1>2, <1>3
<1>5. /\ L[0] = Nothing
      /\ \A i \in 1 .. Len(Lines(frame)) :
             L[i] = Then(Each(Lines(frame)[Len(Lines(frame)) - i + 1], O[MaxOpen - n]), L[i - 1])
      /\ \A i \in 0 .. Len(Lines(frame)) : L[i] \in Result
  BY <1>1, <1>4, LastsProperties
<1>6. Owed(n, frame) = L[m]
  BY DEF Owed, O
<1>7. frame.next <= Len(Lines(frame)) => Owed(n, next) = L[m - 1]
  <2>1. SUFFICES ASSUME frame.next <= Len(Lines(frame)) PROVE Owed(n, next) = L[m - 1]
    OBVIOUS
  <2>2. next.file = frame.file /\ next.next = frame.next + 1
    BY DEF Frame
  <2>3. Lines(next) = Lines(frame) /\ Len(Lines(frame)) - next.next + 1 = m - 1
    BY <1>1, <2>2 DEF Lines
  <2> QED
    BY <2>3 DEF Owed, O
<1> HIDE DEF L, next
<1>8. frame.next <= Len(Lines(frame)) + 1 => m \in 0 .. Len(Lines(frame))
  BY <1>1
<1>9. frame.next = Len(Lines(frame)) + 1 => m = 0
  BY <1>1
<1>10. frame.next <= Len(Lines(frame))
           => /\ m \in 1 .. Len(Lines(frame)) /\ m - 1 \in 0 .. Len(Lines(frame))
              /\ Len(Lines(frame)) - m + 1 = frame.next
  BY <1>1
<1>11. ASSUME NEW line \in Line, line.kind = "run"
       PROVE  O[MaxOpen - n + 1][line] = Owed(n, Start(line.of))
  <2>1. MaxOpen - n + 1 \in 0 .. MaxOpen /\ MaxOpen - n + 1 # 0
        /\ (MaxOpen - n + 1) - 1 = MaxOpen - n
    BY <1>2
  <2>2. O[MaxOpen - n + 1][line] = Lasts(scripts[line.of], O[MaxOpen - n])[Len(scripts[line.of])]
    BY <1>3, <1>11, <2>1
  <2>3. Lines(Start(line.of)) = scripts[line.of] /\ Start(line.of).next = 1
    BY DEF Lines, Start
  <2>4. line.of \in Files
    BY <1>11 DEF Line
  <2>5. Len(scripts[line.of]) - 1 + 1 = Len(scripts[line.of])
    BY <1>1, <2>4
  <2> QED
    BY <2>2, <2>3, <2>5 DEF Owed, O
<1> HIDE DEF m
<1>12. frame.next <= Len(Lines(frame)) + 1 => Owed(n, frame) \in Result
  BY <1>5, <1>6, <1>8
<1>13. frame.next = Len(Lines(frame)) + 1 => Owed(n, frame) = Nothing
  BY <1>5, <1>6, <1>9
<1>14. frame.next <= Len(Lines(frame))
           => /\ Owed(n, frame) = Then(Each(Lines(frame)[frame.next], O[MaxOpen - n]),
                                       Owed(n, next))
              /\ Owed(n, next) \in Result
  BY <1>5, <1>6, <1>7, <1>10
<1> QED
  BY <1>11, <1>12, <1>13, <1>14 DEF O, next

\* While a call lasts, what is owed depends on the stack alone.
LEMMA OwedStays ==
    ASSUME UNCHANGED <<scripts, user, registered>>
    PROVE  /\ \A n, frame : Owed(n, frame)' = Owed(n, frame)
           /\ \A frame : Lines(frame)' = Lines(frame)
           /\ Outcome(user)' = Outcome(user)
  BY DEF Owed, Lines, Outcome

-----------------------------------------------------------------------------

\* Below the last file nothing changes, and p sums up from there on.
Continues(q, p) ==
    /\ stack \in Seq(Frame) /\ stack' \in Seq(Frame)
    /\ Len(stack') + 1 >= Len(stack) /\ Len(stack) > 0
    /\ \A n \in 1 .. Len(stack) - 1 : stack'[n] = stack[n]
    /\ p \in [1 .. Len(stack') + 1 -> Result]
    /\ \A n \in 1 .. Len(stack) : p[n] = q[n]
    /\ p[Len(stack') + 1] = SoFar'
    /\ \A n \in Len(stack) .. Len(stack') : p[n] = Then(p[n + 1], Owed(n, stack'[n]))

LEMMA KeepsSums ==
    ASSUME UNCHANGED <<asked, scripts, user, registered>>,
           NEW q, Sums(q), NEW p, Continues(q, p)
    PROVE  (\E r : Sums(r))'
<1> DEFINE k == Len(stack)
           m == Len(stack')
<1>1. k \in Nat \ {0} /\ m \in Nat /\ m + 1 >= k
  BY DEF Continues
<1>2. p[1] = Outcome(user)[asked]
  BY <1>1 DEF Sums, Continues
<1>3. ASSUME NEW n \in 1 .. m PROVE p[n] = Then(p[n + 1], Owed(n, stack'[n]))
  <2>1. CASE n < k
    <3>1. n \in 1 .. k /\ n + 1 \in 1 .. k /\ n \in 1 .. k - 1
      BY <1>1, <2>1
    <3>2. q[n] = Then(q[n + 1], Owed(n, stack[n]))
      BY <3>1 DEF Sums
    <3> QED
      BY <3>1, <3>2 DEF Continues
  <2>2. CASE n >= k
    BY <1>1, <2>2 DEF Continues
  <2> QED
    BY <1>1, <2>1, <2>2
<1>4. Outcome(user)' = Outcome(user) /\ asked' = asked
      /\ \A n, frame : Owed(n, frame)' = Owed(n, frame)
  BY OwedStays
<1>5. Sums(p)'
  <2>1. p \in [1 .. Len(stack') + 1 -> Result]
    BY DEF Continues
  <2>2. p[1] = Outcome(user)'[asked']
    BY <1>2, <1>4
  <2>3. \A n \in 1 .. Len(stack') : p[n] = Then(p[n + 1], Owed(n, stack[n])')
    BY <1>3, <1>4 DEF Owed, Lines
  <2> QED
    BY <2>1, <2>2, <2>3 DEF Sums, Continues
<1> QED
  BY <1>5

\* What is known of the file that is read.
LEMMA TopOfStack ==
    ASSUME IInv, ScriptInv, stack # <<>>
    PROVE  /\ Len(stack) \in 1 .. MaxOpen /\ stack \in Seq(Frame)
           /\ Top = stack[Len(stack)] /\ Top \in Frame
           /\ Top.next <= Len(Lines(Top)) + 1
           /\ user \in Consoles /\ asked \in Line /\ asked # Nil
           /\ HasLine <=> Top.next <= Len(Lines(Top))
           /\ \E q : Sums(q)
<1>1. stack \in Seq(Frame) /\ Len(stack) <= MaxOpen /\ MaxOpen \in Nat
  BY BoundsAssumption DEF IInv, ConsoleTypeOK
<1>2. Len(stack) \in Nat /\ Len(stack) > 0 /\ Last(stack) \in Frame
  BY <1>1, FrontType
<1>3. Top = stack[Len(stack)] /\ Top \in Frame
  BY <1>2 DEF Top, Last
<1>4. Top.next <= Len(Lines(Top)) + 1
  BY <1>1, <1>2, <1>3 DEF ScriptInv
<1>5. user \in Consoles /\ asked \in Line /\ asked # Nil
  BY DEF IInv, CallInv, ConsoleTypeOK
<1> QED
  BY <1>1, <1>2, <1>3, <1>4, <1>5 DEF ScriptInv, HasLine, Lines

LEMMA SoFarType == ASSUME ConsoleTypeOK PROVE SoFar \in Result
  BY OkIsSigned DEF SoFar, Result, ConsoleTypeOK

\* The end of a file: what is owed for it was nothing, or is not to be done.
LEMMA ClosingSums ==
    ASSUME IInv, ScriptInv, stack # <<>>, UNCHANGED <<asked, scripts, user, registered, done>>,
           NEW code \in Signed, Close(code),
           SoFar' = SoFar,
           SoFar.value # Ok \/ ~HasLine
    PROVE  ScriptInv'
<1> DEFINE k == Len(stack)
<1>1. PICK q : Sums(q)
  BY TopOfStack
<1>2. /\ k \in 1 .. MaxOpen /\ stack \in Seq(Frame) /\ user \in Consoles
      /\ Top = stack[k] /\ Top \in Frame /\ Top.next <= Len(Lines(Top)) + 1
      /\ (HasLine <=> Top.next <= Len(Lines(Top)))
  BY TopOfStack
<1>3. stack' = Front(stack) /\ stack' \in Seq(Frame) /\ Len(stack') = k - 1
  BY <1>2, FrontType DEF Close
<1>4. \A n \in 1 .. k - 1 : stack'[n] = stack[n]
  BY <1>2, <1>3 DEF Front
<1>5. q[k] = SoFar
  <2>1. q[k] = Then(SoFar, Owed(k, Top))
    BY <1>1, <1>2 DEF Sums
  <2>2. CASE SoFar.value # Ok
    BY <2>1, <2>2 DEF Then
  <2>3. CASE ~HasLine
    <3>1. Top.next = Len(Lines(Top)) + 1
      BY <1>2, <2>3, LinesAreLines DEF IInv
    <3>2. Owed(k, Top) = Nothing
      BY <1>2, <3>1, OwedProperties DEF IInv
    <3> QED
      BY <2>1, <3>2, SoFarType, ThenProperties DEF IInv
  <2> QED
    BY <2>2, <2>3
<1> DEFINE p == [n \in 1 .. k |-> q[n]]
<1>6. p \in [1 .. k -> Result] /\ \A n \in 1 .. k : p[n] = q[n]
  BY <1>1, <1>2 DEF Sums
<1>7. p[k] = SoFar'
  BY <1>2, <1>5
<1> HIDE DEF p
<1>8. (\E r : Sums(r))'
  <2>1. Len(stack') + 1 = k /\ k .. Len(stack') = {}
    BY <1>2, <1>3
  <2>2. Continues(q, p)
    BY <1>2, <1>3, <1>4, <1>6, <1>7, <2>1 DEF Continues
  <2> QED
    BY <1>1, <2>2, KeepsSums
<1>9. ASSUME NEW n \in 1 .. Len(stack')
      PROVE  stack'[n].next <= Len(Lines(stack'[n])) + 1
  <2>1. n \in 1 .. k /\ stack'[n] = stack[n]
    BY <1>2, <1>3, <1>4
  <2> QED
    BY <2>1 DEF ScriptInv
<1> QED
  BY <1>8, <1>9, OwedStays DEF ScriptInv, Lines

LEMMA EndOfFileSums == ASSUME IInv, ScriptInv, EndOfFile PROVE ScriptInv'
<1>1. /\ stack # <<>> /\ ret = Nil /\ ~HasLine /\ Close(Ok)
      /\ UNCHANGED <<asked, done, scripts, user, registered>>
  BY DEF EndOfFile, Reading
<1>2. ret' = Ok
  BY <1>1, CloseType, OkIsSigned DEF IInv
<1>3. SoFar' = SoFar
  BY <1>1, <1>2, OkIsSigned, NilAssumption DEF SoFar
<1> QED
  BY <1>1, <1>3, OkIsSigned, ClosingSums

LEMMA AfterLineSums == ASSUME IInv, ScriptInv, AfterLine PROVE ScriptInv'
<1>1. /\ stack # <<>> /\ ret # Nil /\ ret \in Signed
      /\ UNCHANGED <<asked, done, scripts, user, registered>>
  BY DEF AfterLine, Reading, IInv, ConsoleTypeOK
<1>2. CASE Ends /\ Close(ret)
  <2>1. ret' = ret
    BY <1>1, <1>2, CloseType DEF IInv
  <2>2. SoFar' = SoFar /\ SoFar.value # Ok
    BY <1>1, <1>2, <2>1 DEF SoFar, Ends
  <2> QED
    BY <1>1, <1>2, <2>2, ClosingSums
<1>3. CASE ~Ends /\ ret' = Nil /\ UNCHANGED stack
  <2>1. SoFar' = SoFar
    BY <1>1, <1>3 DEF SoFar, Ends
  <2>2. \A q : Sums(q)' <=> Sums(q)
    <3>1. /\ Outcome(user)' = Outcome(user) /\ asked' = asked /\ stack' = stack
          /\ \A n, frame : Owed(n, frame)' = Owed(n, frame)
      BY <1>1, <1>3, OwedStays
    <3> QED
      BY <1>1, <1>3, <2>1 DEF Sums, SoFar, Owed, Lines, Outcome
  <2> QED
    BY <1>1, <1>3, <2>2 DEF ScriptInv, Lines
<1> QED
  BY <1>2, <1>3 DEF AfterLine

LEMMA NextFrame ==
    ASSUME NEW frame \in Frame
    PROVE  LET next == [frame EXCEPT !.next = @ + 1]
           IN  next \in Frame /\ next.file = frame.file /\ next.next = frame.next + 1
  BY DEF Frame

\* The stack once the line is read.
Advanced == [stack EXCEPT ![Len(stack)].next = @ + 1]

LEMMA AdvancedProperties ==
    ASSUME IInv, ScriptInv, stack # <<>>, HasLine
    PROVE  LET k    == Len(stack)
               next == [Top EXCEPT !.next = @ + 1]
               line == Lines(Top)[Top.next]
           IN  /\ Advanced \in Seq(Frame) /\ Len(Advanced) = k
               /\ Advanced[k] = next
               /\ \A n \in 1 .. k - 1 : Advanced[n] = stack[n]
               /\ next \in Frame /\ next.next <= Len(Lines(next)) + 1
               /\ \A n \in 1 .. k : Advanced[n].next <= Len(Lines(Advanced[n])) + 1
               /\ line \in Line
               /\ Owed(k, next) \in Result
               /\ Owed(k, Top) = Then(Each(line, Outcomes(registered[user], scripts)[MaxOpen - k]),
                                      Owed(k, next))
<1> DEFINE k    == Len(stack)
           next == [Top EXCEPT !.next = @ + 1]
           line == Lines(Top)[Top.next]
<1>1. /\ k \in 1 .. MaxOpen /\ stack \in Seq(Frame) /\ user \in Consoles
      /\ Top = stack[k] /\ Top \in Frame /\ Top.next <= Len(Lines(Top))
      /\ ConsoleTypeOK
  BY TopOfStack DEF IInv
<1>2. next \in Frame /\ next.file = Top.file /\ next.next = Top.next + 1
  BY <1>1, NextFrame
<1>3. next.next <= Len(Lines(next)) + 1
  BY <1>1, <1>2, LinesAreLines DEF Lines
<1>4. Advanced = [stack EXCEPT ![k] = next]
  BY <1>1 DEF Advanced
<1> HIDE DEF next
<1>5. /\ Advanced \in Seq(Frame) /\ Len(Advanced) = k /\ Advanced[k] = next
      /\ \A n \in 1 .. k - 1 : Advanced[n] = stack[n]
  BY <1>1, <1>2, <1>4, ExceptSeq
<1>6. ASSUME NEW n \in 1 .. k
      PROVE  Advanced[n].next <= Len(Lines(Advanced[n])) + 1
  <2>1. CASE n = k
    BY <1>3, <1>5, <2>1
  <2>2. CASE n # k
    <3>1. n \in 1 .. k - 1 /\ n \in 1 .. Len(stack)
      BY <1>1, <2>2
    <3>2. Advanced[n] = stack[n]
      BY <1>5, <3>1
    <3> QED
      BY <3>1, <3>2 DEF ScriptInv
  <2> QED
    BY <2>1, <2>2
<1>7. line \in Line
  BY <1>1, LinesAreLines
<1>8. /\ Owed(k, next) \in Result
      /\ Owed(k, Top) = Then(Each(line, Outcomes(registered[user], scripts)[MaxOpen - k]),
                             Owed(k, next))
  BY <1>1, OwedProperties DEF next
<1> QED
  BY <1>2, <1>3, <1>5, <1>6, <1>7, <1>8 DEF next

LEMMA NextLineSums == ASSUME IInv, ScriptInv, NextLine PROVE ScriptInv'
<1> DEFINE k    == Len(stack)
           next == [Top EXCEPT !.next = @ + 1]
           line == Lines(Top)[Top.next]
           O    == Outcomes(registered[user], scripts)
<1>1. /\ stack # <<>> /\ ret = Nil /\ HasLine
      /\ UNCHANGED <<asked, scripts, phase, user, registered>>
      /\ \/ /\ line.kind = "comment"
            /\ stack' = Advanced /\ UNCHANGED <<ret, done, quit>>
         \/ line.kind # "comment" /\ Execute(line, Advanced)
  BY DEF NextLine, Reading, Lines, Advanced
<1>2. PICK q : Sums(q)
  BY <1>1, TopOfStack
<1>3. /\ k \in 1 .. MaxOpen /\ MaxOpen \in Nat /\ stack \in Seq(Frame)
      /\ user \in Consoles /\ Top = stack[k] /\ ConsoleTypeOK
  BY <1>1, TopOfStack, BoundsAssumption DEF IInv
<1>4. /\ Advanced \in Seq(Frame) /\ Len(Advanced) = k
      /\ Advanced[k] = next
      /\ \A n \in 1 .. k - 1 : Advanced[n] = stack[n]
      /\ next \in Frame
      /\ \A n \in 1 .. k : Advanced[n].next <= Len(Lines(Advanced[n])) + 1
      /\ line \in Line /\ Owed(k, next) \in Result
      /\ Owed(k, Top) = Then(Each(line, O[MaxOpen - k]), Owed(k, next))
  BY <1>1, AdvancedProperties
<1> HIDE DEF next, line
<1>5. IsOutcomes(O, registered[user], scripts)
  <2>1. registered[user] \in SUBSET Commands /\ scripts \in [Files -> Seq(Line)]
    BY <1>3, LinesAreLines DEF ConsoleTypeOK
  <2> QED
    BY <2>1, OutcomesProperties
<1> HIDE DEF O
<1>6. /\ MaxOpen - k \in 0 .. MaxOpen
      /\ O[MaxOpen - k] \in [Line -> Result]
      /\ Each(line, O[MaxOpen - k]) \in Result
  BY <1>3, <1>4, <1>5, ThenProperties DEF IsOutcomes, Each
<1>7. /\ q \in [1 .. k + 1 -> Result] /\ q[k + 1] = SoFar
      /\ q[k] = Then(SoFar, Then(Each(line, O[MaxOpen - k]), Owed(k, next)))
  BY <1>2, <1>3, <1>4 DEF Sums
<1>8. SoFar \in Result /\ SoFar.value = Ok
  BY <1>1, <1>3, SoFarType DEF SoFar
<1>9. CASE stack' = Advanced /\ Each(line, O[MaxOpen - k]) = Nothing /\ SoFar' = SoFar
  <2>1. q[k] = Then(SoFar, Owed(k, next))
    BY <1>4, <1>7, <1>9, ThenProperties
  <2>2. Continues(q, q)
    <3>1. Len(stack) .. Len(stack') = {k} /\ k \in 1 .. k + 1
      BY <1>3, <1>4, <1>9
    <3> QED
      BY <1>3, <1>4, <1>7, <1>9, <2>1, <3>1 DEF Continues
  <2>3. (\E r : Sums(r))'
    BY <1>1, <1>2, <2>2, KeepsSums
  <2> QED
    BY <1>1, <1>4, <1>9, <2>3, OwedStays DEF ScriptInv, Lines
<1>10. CASE stack' = Advanced /\ SoFar' = Then(SoFar, Each(line, O[MaxOpen - k]))
  <2> DEFINE p == [q EXCEPT ![k + 1] = SoFar']
  <2>1. q[k] = Then(SoFar', Owed(k, next)) /\ SoFar' \in Result
    BY <1>4, <1>6, <1>7, <1>8, <1>10, ThenProperties
  <2>2. /\ p \in [1 .. k + 1 -> Result] /\ p[k + 1] = SoFar'
        /\ \A n \in 1 .. k : p[n] = q[n]
    BY <1>3, <1>7, <2>1
  <2> HIDE DEF p
  <2>3. Continues(q, p)
    <3>1. Len(stack) .. Len(stack') = {k} /\ k \in 1 .. k
      BY <1>3, <1>4, <1>10
    <3> QED
      BY <1>3, <1>4, <1>10, <2>1, <2>2, <3>1 DEF Continues
  <2>4. (\E r : Sums(r))'
    BY <1>1, <1>2, <2>3, KeepsSums
  <2> QED
    BY <1>1, <1>4, <1>10, <2>4, OwedStays DEF ScriptInv, Lines
<1>11. CASE /\ line.kind = "run" /\ k < MaxOpen
            /\ stack' = Append(Advanced, Start(line.of)) /\ SoFar' = SoFar
  <2> DEFINE each == Each(line, O[MaxOpen - k])
             p == [n \in 1 .. k + 2 |-> IF n = k + 1 THEN Then(SoFar, each)
                                        ELSE IF n = k + 2 THEN SoFar ELSE q[n]]
  <2>1. Start(line.of) \in Frame /\ Start(line.of).next = 1
    BY <1>4, <1>11 DEF Line, Start, Frame
  <2>2. each = Owed(k + 1, Start(line.of))
    <3>1. k + 1 \in 1 .. MaxOpen /\ MaxOpen - (k + 1) + 1 = MaxOpen - k
      BY <1>3, <1>11
    <3>2. O[MaxOpen - (k + 1) + 1][line] = Owed(k + 1, Start(line.of))
      BY <1>3, <1>4, <1>11, <2>1, <3>1, OwedProperties DEF O
    <3> QED
      BY <1>11, <3>1, <3>2 DEF Each
  <2>3. each \in Result /\ Then(SoFar, each) \in Result
    BY <1>6, <1>8, ThenProperties
  <2>4. q[k] = Then(Then(SoFar, each), Owed(k, next))
    BY <1>4, <1>7, <1>8, <2>3, ThenProperties
  <2> HIDE DEF each
  <2>5. /\ p \in [1 .. k + 2 -> Result]
        /\ p[k + 1] = Then(SoFar, each) /\ p[k + 2] = SoFar
        /\ \A n \in 1 .. k : p[n] = q[n]
    BY <1>3, <1>7, <1>8, <2>3
  <2> HIDE DEF p
  <2>6. /\ stack' \in Seq(Frame) /\ Len(stack') = k + 1
        /\ stack'[k + 1] = Start(line.of)
        /\ \A n \in 1 .. k : stack'[n] = Advanced[n]
    <3> DEFINE a == Advanced
               b == Start(line.of)
    <3>1. a \in Seq(Frame) /\ Len(a) = k /\ b \in Frame /\ stack' = Append(a, b)
      BY <1>4, <1>11, <2>1
    <3> HIDE DEF a, b
    <3>2. /\ Append(a, b) \in Seq(Frame) /\ Len(Append(a, b)) = Len(a) + 1
          /\ \A n \in 1 .. Len(a) : Append(a, b)[n] = a[n]
          /\ Append(a, b)[Len(a) + 1] = b
      BY <3>1, AppendProperties
    <3> QED
      BY <3>1, <3>2 DEF a, b
  <2>7. Continues(q, p)
    <3>1. /\ Len(stack) .. Len(stack') = {k, k + 1} /\ k \in 1 .. k
          /\ Len(stack') + 1 = k + 2 /\ k + 1 + 1 = k + 2
      BY <1>3, <2>6
    <3>2. p[k] = Then(p[k + 1], Owed(k, stack'[k]))
      BY <1>4, <2>4, <2>5, <2>6, <3>1
    <3>3. p[k + 1] = Then(p[k + 2], Owed(k + 1, stack'[k + 1]))
      BY <2>2, <2>5, <2>6
    <3>4. \A n \in Len(stack) .. Len(stack') : p[n] = Then(p[n + 1], Owed(n, stack'[n]))
      BY <3>1, <3>2, <3>3
    <3>5. \A n \in 1 .. k - 1 : stack'[n] = stack[n]
      BY <1>3, <1>4, <2>6
    <3> QED
      BY <1>3, <1>11, <2>5, <2>6, <3>1, <3>4, <3>5 DEF Continues
  <2>8. (\E r : Sums(r))'
    BY <1>1, <1>2, <2>7, KeepsSums
  <2>9. ASSUME NEW n \in 1 .. Len(stack')
        PROVE  stack'[n].next <= Len(Lines(stack'[n])) + 1
    <3>1. CASE n = k + 1
      BY <2>1, <2>6, <3>1, <1>3, LinesAreLines
    <3>2. CASE n # k + 1
      <4>1. n \in 1 .. k /\ stack'[n] = Advanced[n]
        BY <1>3, <2>6, <3>2
      <4> QED
        BY <1>4, <4>1
    <3> QED
      BY <3>1, <3>2
  <2> QED
    BY <1>1, <2>8, <2>9, OwedStays DEF ScriptInv, Lines
<1>12. CASE line.kind = "comment" /\ stack' = Advanced /\ UNCHANGED <<ret, done, quit>>
  BY <1>9, <1>12 DEF Each, SoFar
<1>13. CASE line.kind # "comment" /\ Execute(line, Advanced)
  <2>1. CASE line.kind = "run" /\ RunFile(line.of, Advanced)
    <3>1. CASE k < MaxOpen /\ stack' = Append(Advanced, Start(line.of)) /\ UNCHANGED ret
      BY <1>11, <2>1, <3>1 DEF RunFile, SoFar
    <3>2. CASE k = MaxOpen /\ stack' = Advanced /\ ret' = Converted(Ok)
      <4>1. SoFar' = SoFar
        BY <1>1, <2>1, <3>2, ConversionIsIdentity, OkIsSigned, NilAssumption
        DEF RunFile, SoFar
      <4>2. MaxOpen - k = 0
        BY <1>3, <3>2
      <4>3. O[MaxOpen - k][line] = Nothing
        BY <1>4, <1>5, <1>6, <2>1, <4>2 DEF IsOutcomes
      <4>4. Each(line, O[MaxOpen - k]) = Nothing
        BY <2>1, <4>3 DEF Each
      <4> QED
        BY <1>9, <3>2, <4>1, <4>4
    <3> QED
      BY <1>4, <2>1, <3>1, <3>2 DEF RunFile
  <2>2. CASE /\ line.kind # "run" /\ stack' = Advanced
             /\ ret' = Answer(registered[user], line)
             /\ done' = done \o Effect(registered[user], line)
    <3>1. Each(line, O[MaxOpen - k]) = [value |-> Answer(registered[user], line),
                                        done |-> Effect(registered[user], line)]
      BY <1>4, <1>5, <1>6, <1>13, <2>2 DEF IsOutcomes, Each
    <3>2. ret' # Nil
      <4>1. registered[user] \in SUBSET Commands
        BY <1>3 DEF ConsoleTypeOK
      <4> QED
        BY <1>4, <2>2, <4>1, AnswerType, NilAssumption
    <3>3. SoFar' = Then(SoFar, Each(line, O[MaxOpen - k]))
      BY <1>8, <2>2, <3>1, <3>2 DEF SoFar, Then
    <3> QED
      BY <1>10, <2>2, <3>3
  <2> QED
    BY <1>13, <2>1, <2>2 DEF Execute
<1> QED
  BY <1>1, <1>12, <1>13

-----------------------------------------------------------------------------

LEMMA UserOutcomes ==
    ASSUME ConsoleTypeOK, user \in Consoles
    PROVE  IsOutcomes(Outcomes(registered[user], scripts), registered[user], scripts)
<1>1. registered[user] \in SUBSET Commands /\ scripts \in [Files -> Seq(Line)]
  BY LinesAreLines DEF ConsoleTypeOK
<1> QED
  BY <1>1, OutcomesProperties

\* A call of a line that is no script has its outcome at once.
AtOnce == stack = <<>> /\ asked # Nil /\ SoFar = Outcome(user)[asked] /\ SoFar \in Result

LEMMA CallsAtOnce == AtOnce => ScriptInv
<1> SUFFICES ASSUME AtOnce PROVE ScriptInv
  OBVIOUS
<1> USE DEF AtOnce
<1> DEFINE q == [n \in 1 .. 1 |-> SoFar]
<1>1. q \in [1 .. 1 -> Result] /\ q[1] = SoFar
  OBVIOUS
<1> HIDE DEF q
<1>2. Len(stack) = 0
  OBVIOUS
<1>3. Sums(q)
  BY <1>1, <1>2 DEF Sums
<1> QED
  BY <1>2, <1>3 DEF ScriptInv

\* A call of a script begins with all of it to be done.
Begins ==
    /\ ConsoleTypeOK /\ user \in Consoles
    /\ asked \in Line /\ asked.kind = "run"
    /\ stack = <<Start(asked.of)>> /\ SoFar = Nothing

LEMMA ScriptBegins == Begins => ScriptInv
<1> SUFFICES ASSUME Begins PROVE ScriptInv
  OBVIOUS
<1> USE DEF Begins
<1> DEFINE start == Start(asked.of)
           q == [n \in 1 .. 2 |-> IF n = 1 THEN Outcome(user)[asked] ELSE Nothing]
<1>1. start \in Frame /\ start.next = 1
  BY DEF Line, Start, Frame
<1>2. MaxOpen \in Nat /\ 1 \in 1 .. MaxOpen /\ MaxOpen - 1 + 1 = MaxOpen /\ MaxOpen \in 0 .. MaxOpen
  BY BoundsAssumption
<1>3. Outcome(user)[asked] \in Result
  BY <1>2, UserOutcomes DEF IsOutcomes, Outcome
<1>4. Outcome(user)[asked] = Owed(1, start)
  BY <1>1, <1>2, OwedProperties DEF Outcome
<1>5. q \in [1 .. 2 -> Result] /\ q[1] = Outcome(user)[asked] /\ q[2] = Nothing
  BY <1>3, ThenProperties
<1> HIDE DEF q, start
<1>6. Len(stack) = 1 /\ stack[1] = start
  BY DEF start
<1>7. Sums(q)
  <2>1. q[1] = Then(q[2], Owed(1, start))
    BY <1>3, <1>4, <1>5, ThenProperties
  <2> QED
    BY <1>5, <1>6, <2>1 DEF Sums
<1>8. start.next <= Len(Lines(start)) + 1
  BY <1>1, LinesAreLines
<1> QED
  BY <1>6, <1>7, <1>8 DEF ScriptInv

LEMMA BeginsNext == (AtOnce \/ Begins)' => ScriptInv'
<1>1. AtOnce \/ Begins => ScriptInv
  BY CallsAtOnce, ScriptBegins
<1> QED
  BY <1>1, PTL

LEMMA TypeSums ==
    ASSUME IInv, ScriptInv, ConsoleTypeOK', NEW line \in Line, Type(line)
    PROVE  ScriptInv'
<1>1. /\ asked' = line /\ user \in Consoles /\ user' = user /\ Execute(line, <<>>)
      /\ UNCHANGED <<scripts, registered>>
      /\ ret = Nil /\ done = <<>> /\ asked' # Nil
  BY NilAssumption DEF Type, Prompting, IInv, CallInv, ConsoleTypeOK
<1>2. SoFar' \in Result
  <2>1. ConsoleTypeOK => SoFar \in Result
    BY SoFarType
  <2> QED
    BY OkIsSigned DEF SoFar, Result, ConsoleTypeOK
<1>3. CASE line.kind = "run" /\ RunFile(line.of, <<>>)
  <2>1. Len(<<>>) < MaxOpen /\ Len(<<>>) # MaxOpen
    BY BoundsAssumption
  <2>2. stack' = Append(<<>>, Start(line.of)) /\ ret' = Nil /\ done' = <<>>
    BY <1>1, <1>3, <2>1 DEF RunFile
  <2>3. stack' = <<Start(line.of)>>
    BY <2>2
  <2>4. SoFar' = Nothing
    BY <2>2 DEF SoFar, Nothing
  <2> QED
    BY <1>1, <1>3, <2>3, <2>4, BeginsNext DEF Begins
<1>4. CASE /\ line.kind # "run" /\ stack' = <<>>
           /\ ret' = Answer(registered[user], line)
           /\ done' = done \o Effect(registered[user], line)
  <2>1. /\ Answer(registered[user], line) \in Signed
        /\ Effect(registered[user], line) \in Seq(Commands)
    BY <1>1, AnswerType DEF IInv, ConsoleTypeOK
  <2>2. done' = Effect(registered[user], line) /\ ret' # Nil
    BY <1>1, <1>4, <2>1, NilAssumption
  <2>3. SoFar' = [value |-> Answer(registered[user], line),
                  done |-> Effect(registered[user], line)]
    BY <1>4, <2>2 DEF SoFar
  <2>4. MaxOpen \in 0 .. MaxOpen
    BY BoundsAssumption
  <2>5. Outcome(user)[line] = [value |-> Answer(registered[user], line),
                               done |-> Effect(registered[user], line)]
    BY <1>1, <1>4, <2>4, UserOutcomes DEF IsOutcomes, Outcome, IInv
  <2>6. (SoFar = Outcome(user)[asked])'
    BY <1>1, <2>3, <2>5 DEF Outcome
  <2> QED
    BY <1>1, <1>2, <1>4, <2>6, BeginsNext DEF AtOnce
<1> QED
  BY <1>1, <1>3, <1>4 DEF Execute

LEMMA EndOfInputSums == ASSUME IInv, ScriptInv, EndOfInput PROVE ScriptInv'
<1> DEFINE line == [kind |-> "quit", of |-> Nil]
<1>1. /\ asked' = line /\ user \in Consoles /\ ret' = Quit
      /\ UNCHANGED <<stack, done, user, scripts, registered>>
      /\ stack = <<>> /\ done = <<>>
  BY DEF EndOfInput, Prompting, IInv, CallInv, ConsoleTypeOK
<1>2. line \in Line /\ line.kind = "quit" /\ line # Nil
  BY NilAssumption DEF Line
<1> HIDE DEF line
<1>3. Quit # Nil
  BY OkIsSigned, NilAssumption
<1>4. SoFar' = [value |-> Quit, done |-> <<>>]
  BY <1>1, <1>3 DEF SoFar
<1>5. Outcome(user)[line] = [value |-> Quit, done |-> <<>>]
  <2>1. MaxOpen \in 0 .. MaxOpen
    BY BoundsAssumption
  <2>2. Answer(registered[user], line) = Quit /\ Effect(registered[user], line) = <<>>
    BY <1>2 DEF Answer, Effect, Registered
  <2> QED
    BY <1>1, <1>2, <2>1, <2>2, UserOutcomes DEF IsOutcomes, Outcome, IInv
<1>6. (SoFar = Outcome(user)[asked])'
  BY <1>1, <1>4, <1>5 DEF Outcome
<1>7. SoFar' \in Result
  BY <1>4, OkIsSigned, EmptySeq DEF Result
<1> QED
  BY <1>1, <1>2, <1>6, <1>7, BeginsNext DEF AtOnce

LEMMA ScriptInvInit == ConsoleInit => ScriptInv
<1> SUFFICES ASSUME ConsoleInit PROVE ScriptInv
  OBVIOUS
<1>1. CASE asked = Nil /\ stack = <<>>
  BY <1>1 DEF ScriptInv
<1>2. ASSUME NEW f \in Files, user = Main, asked = [kind |-> "run", of |-> f],
             stack = <<Start(f)>>
      PROVE  ScriptInv
  <2>1. asked \in Line /\ asked.kind = "run" /\ asked.of = f
    BY <1>2 DEF Line
  <2>2. SoFar = Nothing
    BY DEF ConsoleInit, SoFar, Nothing
  <2> QED
    BY <1>2, <2>1, <2>2, TypeInit, ConsolesAssumption, ScriptBegins DEF Begins
<1> QED
  BY <1>1, <1>2 DEF ConsoleInit

LEMMA ScriptInvStep ==
    ASSUME IInv, IInv', ScriptInv, [ConsoleNext]_consoleVars
    PROVE  ScriptInv'
<1>1. CASE NextLine
  BY <1>1, NextLineSums
<1>2. CASE EndOfFile
  BY <1>2, EndOfFileSums
<1>3. CASE AfterLine
  BY <1>3, AfterLineSums
<1>4. ASSUME NEW line \in Line, Type(line) PROVE ScriptInv'
  BY <1>4, TypeSums DEF IInv
<1>5. CASE EndOfInput
  BY <1>5, EndOfInputSums
<1>6. ASSUME asked' = Nil PROVE ScriptInv'
  <2>1. stack' = <<>>
    BY <1>6 DEF IInv, CallInv
  <2>2. Len(stack') = 0
    BY <2>1
  <2> QED
    BY <1>6, <2>2 DEF ScriptInv
<1>7. CASE MainGoesOn
  BY <1>6, <1>7 DEF MainGoesOn
<1>8. ASSUME NEW c \in Consoles,
             \/ ReadLine(c) \/ Construct(c) \/ Destroy(c)
             \/ \E command \in Commands : RegisterCommand(c, command)
      PROVE  ScriptInv'
  <2>1. asked = Nil /\ asked' = asked
    BY <1>8 DEF ReadLine, Construct, Destroy, RegisterCommand, Idle, callVars, IInv, CallInv
  <2> QED
    BY <1>6, <2>1
<1>9. CASE Complete \/ UNCHANGED consoleVars
  <2>1. UNCHANGED <<asked, stack, ret, done, scripts, user, registered>>
    BY <1>9 DEF Complete, consoleVars, callVars
  <2> QED
    BY <2>1 DEF ScriptInv, Sums, SoFar, Owed, Lines, Outcome
<1> QED
  BY <1>1, <1>2, <1>3, <1>4, <1>5, <1>7, <1>8, <1>9
  DEF ConsoleNext, Internal, External

LEMMA ScriptInvariance == ConsoleSpec => [](IInv /\ ScriptInv)
<1>1. ConsoleInit => IInv /\ ScriptInv
  BY InvInit, ScriptInvInit
<1>2. IInv /\ ScriptInv /\ [ConsoleNext]_consoleVars => IInv' /\ ScriptInv'
  <2>1. IInv /\ [ConsoleNext]_consoleVars => IInv'
    BY TypeStep, CallInvStep, HistoryInvStep, QuitInvStep DEF IInv
  <2> QED
    BY <2>1, ScriptInvStep
<1> QED
  BY <1>1, <1>2, PTL DEF ConsoleSpec

(***************************************************************************)
(* What is typed, and the script of main(), runs as it is defined to: up   *)
(* to the first line that fails, in whatever of the files, whose code      *)
(* comes back unchanged; for scripts of every length that run others, or   *)
(* themselves, to any depth, files that cannot be opened included.         *)
(***************************************************************************)
THEOREM ScriptsRunAsDefined == ConsoleSpec => []ScriptsRunToFirstFailure
<1>1. IInv /\ ScriptInv => ScriptsRunToFirstFailure
  <2> SUFFICES ASSUME IInv, ScriptInv, Delivered
               PROVE  [value |-> ret, done |-> done] = Outcome(user)[asked]
    BY DEF ScriptsRunToFirstFailure
  <2>1. stack = <<>> /\ ret # Nil /\ asked # Nil
    BY DEF Delivered, IInv, CallInv
  <2>2. PICK q : Sums(q)
    BY <2>1 DEF ScriptInv
  <2>3. q[1] = Outcome(user)[asked] /\ q[1] = SoFar
    BY <2>1, <2>2 DEF Sums
  <2> QED
    BY <2>1, <2>3 DEF SoFar
<1> QED
  BY <1>1, ScriptInvariance, PTL
-----------------------------------------------------------------------------
(***************************************************************************)
(* Calls draw to an end.                                                   *)
(***************************************************************************)
Shorter == \E d \in 1 .. MaxOpen + 1 : /\ Rest(d)' \in 0 .. Rest(d) - 1
                                       /\ \A i \in 1 .. d - 1 : Rest(i)' = Rest(i)

LEMMA RestOfFrames ==
    ASSUME IInv, ScriptInv, NEW d \in 1 .. Len(stack)
    PROVE  /\ Rest(d) = Len(Lines(stack[d])) - stack[d].next + 2
           /\ Rest(d) \in Nat \ {0}
<1>1. stack \in Seq(Frame) /\ stack[d] \in Frame
  BY DEF IInv, ConsoleTypeOK
<1>2. Len(Lines(stack[d])) \in Nat /\ stack[d].next \in Nat
  BY <1>1, LinesAreLines DEF IInv
<1>3. stack[d].next <= Len(Lines(stack[d])) + 1
  BY DEF ScriptInv
<1>4. Rest(d) = Len(Lines(stack[d])) - stack[d].next + 2
  BY DEF Rest, Lines
<1> QED
  BY <1>2, <1>3, <1>4

LEMMA RestStays ==
    ASSUME UNCHANGED scripts,
           NEW d \in 1 .. Len(stack), d \in 1 .. Len(stack'), stack'[d] = stack[d]
    PROVE  Rest(d)' = Rest(d)
  BY DEF Rest

\* The file that is left had something to do, and a file that is closed has not.
LEMMA ClosingIsShorter ==
    ASSUME IInv, ScriptInv, stack # <<>>, UNCHANGED scripts, NEW code, Close(code)
    PROVE  Shorter
<1>1. PICK k \in 1 .. MaxOpen : k = Len(stack) /\ stack \in Seq(Frame) /\ MaxOpen \in Nat
  BY TopOfStack, BoundsAssumption
<1>2. stack' = Front(stack) /\ Len(stack') = k - 1
  BY <1>1, FrontType DEF Close
<1>3. \A i \in 1 .. k - 1 : stack'[i] = stack[i]
  BY <1>1, <1>2 DEF Front
<1>4. Rest(k)' = 0
  <2>1. k \notin 1 .. Len(stack') /\ ~(k > MaxOpen)
    BY <1>1, <1>2
  <2> QED
    BY <2>1 DEF Rest
<1>5. Rest(k) \in Nat \ {0}
  BY <1>1, RestOfFrames
<1>6. \A i \in 1 .. k - 1 : Rest(i)' = Rest(i)
  BY <1>1, <1>2, <1>3, RestStays
<1>7. k \in 1 .. MaxOpen + 1 /\ Rest(k)' \in 0 .. Rest(k) - 1
  BY <1>1, <1>4, <1>5
<1> QED
  BY <1>6, <1>7 DEF Shorter

\* A line that is read is a line less, whatever it opens.
LEMMA ReadingIsShorter == ASSUME IInv, ScriptInv, NextLine PROVE Shorter
<1> DEFINE next == [Top EXCEPT !.next = @ + 1]
<1>1. stack # <<>> /\ HasLine /\ UNCHANGED scripts
  BY DEF NextLine, Reading
<1>2. PICK k \in 1 .. MaxOpen :
          /\ k = Len(stack) /\ stack \in Seq(Frame) /\ MaxOpen \in Nat
          /\ Top = stack[k] /\ Top \in Frame /\ Top.next <= Len(Lines(Top))
  BY <1>1, TopOfStack, BoundsAssumption
<1>3. /\ Advanced \in Seq(Frame) /\ Len(Advanced) = k /\ Advanced[k] = next
      /\ \A n \in 1 .. k - 1 : Advanced[n] = stack[n]
  BY <1>1, <1>2, AdvancedProperties
<1>4. next.file = Top.file /\ next.next = Top.next + 1
  BY <1>2, NextFrame
<1>5. \/ stack' = Advanced
      \/ \E f : stack' = Append(Advanced, Start(f))
  BY DEF NextLine, Execute, RunFile, Advanced
<1> HIDE DEF next
<1>6. Len(stack') >= k /\ \A n \in 1 .. k : stack'[n] = Advanced[n]
  <2>1. CASE stack' = Advanced
    BY <1>2, <1>3, <2>1
  <2>2. ASSUME NEW f, stack' = Append(Advanced, Start(f)) PROVE <1>6
    BY <1>2, <1>3, <2>2
  <2> QED
    BY <1>5, <2>1, <2>2
<1>7. k \in 1 .. Len(stack') /\ Len(stack') \in Nat
  BY <1>2, <1>3, <1>5, <1>6
<1>8. Rest(k)' = Rest(k) - 1
  <2>1. Rest(k) = Len(scripts[Top.file]) - Top.next + 2
    BY <1>2 DEF Rest
  <2>2. stack'[k] = next
    BY <1>2, <1>3, <1>6
  <2>3. Rest(k)' = Len(scripts[next.file]) - next.next + 2
    BY <1>1, <1>7, <2>2 DEF Rest
  <2>4. Len(scripts[Top.file]) \in Nat /\ Top.next \in Nat
    BY <1>2, LinesAreLines DEF IInv, Lines
  <2> QED
    BY <1>4, <2>1, <2>3, <2>4
<1>9. Rest(k) \in Nat \ {0}
  BY <1>2, RestOfFrames
<1>10. ASSUME NEW i \in 1 .. k - 1 PROVE Rest(i)' = Rest(i)
  <2>1. i \in 1 .. Len(stack) /\ i \in 1 .. Len(stack') /\ i \in 1 .. k
    BY <1>2, <1>7
  <2>2. stack'[i] = stack[i]
    BY <1>3, <1>6, <2>1
  <2> QED
    BY <1>1, <2>1, <2>2, RestStays
<1>11. k \in 1 .. MaxOpen + 1 /\ Rest(k)' \in 0 .. Rest(k) - 1
  BY <1>2, <1>8, <1>9
<1> QED
  BY <1>10, <1>11 DEF Shorter

\* A code that has arrived is not returned again.
LEMMA ReturningIsShorter ==
    ASSUME IInv, UNCHANGED <<stack, scripts>>, ret # Nil, ret' = Nil
    PROVE  Shorter
<1> DEFINE d == MaxOpen + 1
<1>1. Len(stack) \in Nat /\ Len(stack) <= MaxOpen /\ MaxOpen \in Nat
  BY BoundsAssumption DEF IInv, ConsoleTypeOK
<1>2. d \notin 1 .. Len(stack) /\ d > MaxOpen /\ d \in 1 .. MaxOpen + 1
  BY <1>1
<1>3. Rest(d) = 1 /\ Rest(d)' = 0
  BY <1>2 DEF Rest
<1>4. ASSUME NEW i \in 1 .. d - 1 PROVE Rest(i)' = Rest(i)
  <2>1. ~(i > MaxOpen)
    BY <1>1
  <2> QED
    BY <2>1 DEF Rest
<1>5. Rest(d)' \in 0 .. Rest(d) - 1
  BY <1>3
<1> QED
  BY <1>2, <1>4, <1>5 DEF Shorter

(***************************************************************************)
(* Scripts end, however they run each other or themselves: each step of a  *)
(* call leaves less to do in one of the open files, or nothing of a code   *)
(* that had to be returned, and touches none of the files around it.       *)
(***************************************************************************)
THEOREM LinesAlwaysDrawToAnEnd == ConsoleSpec => LinesDrawToAnEnd
<1>1. IInv /\ ScriptInv /\ [ConsoleNext]_consoleVars => [asked # Nil => Shorter]_consoleVars
  <2> SUFFICES ASSUME IInv, ScriptInv, ConsoleNext, asked # Nil
               PROVE  Shorter
    OBVIOUS
  <2>1. ~Idle /\ ~Prompting
    BY DEF Idle, Prompting, IInv, CallInv
  <2>2. CASE NextLine
    BY <2>2, ReadingIsShorter
  <2>3. CASE EndOfFile
    BY <2>3, ClosingIsShorter DEF EndOfFile, Reading
  <2>4. CASE AfterLine
    <3>1. stack # <<>> /\ ret # Nil /\ UNCHANGED scripts
      BY <2>4 DEF AfterLine, Reading
    <3>2. CASE Close(ret)
      BY <3>1, <3>2, ClosingIsShorter
    <3>3. CASE ret' = Nil /\ UNCHANGED stack
      BY <3>1, <3>3, ReturningIsShorter
    <3> QED
      BY <2>4, <3>2, <3>3 DEF AfterLine
  <2>5. CASE MainGoesOn
    BY <2>5, ReturningIsShorter DEF MainGoesOn, Delivered, Loop
  <2> QED
    BY <2>1, <2>2, <2>3, <2>4, <2>5
    DEF ConsoleNext, Internal, External, Complete, EndOfInput, Type,
        ReadLine, Construct, Destroy, RegisterCommand
<1> QED
  BY <1>1, ScriptInvariance, PTL DEF LinesDrawToAnEnd, Shorter, ConsoleSpec
=============================================================================
