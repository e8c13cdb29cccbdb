--------------------------- MODULE ConsoleProofs ----------------------------
(***************************************************************************)
(* Proofs about Console, for every number of consoles, scripts and lines.  *)
(***************************************************************************)
EXTENDS Console, SequenceTheorems, TLAPS

\* The history of a console that is not the current one.
Kept(c) == IF saved[c] = Nil THEN <<>> ELSE saved[c]

\* Whether current or put away, a console's history is its own.
HistoryInv ==
    /\ user # Nil => user \in alive
    /\ user # Nil /\ phase = "prompt" /\ fate = "up" => current = user
    /\ \A c \in alive \ heirs : typed[c] = IF current = c THEN active ELSE Kept(c)

\* Quit is on its way to main(), or has arrived.
QuitInv ==
    /\ quit /\ phase # "exited" => ret = Quit
    /\ phase = "exited" => stack = <<>> /\ user = Nil /\ ret = Nil

\* Between two calls nothing is left of the one before.
CallInv ==
    /\ stack # <<>> => user # Nil
    /\ asked = Nil => ret = Nil /\ stack = <<>> /\ done = <<>>
    /\ user = Nil => asked = Nil

IInv == ConsoleTypeOK /\ CallInv /\ HistoryInv /\ QuitInv

-----------------------------------------------------------------------------

\* An int survives the way through the unsigned that commands return.
LEMMA ConversionIsIdentity == \A i \in Signed : Converted(i) = i
  BY IntMaxAssumption DEF Signed, Converted, ToInt, ToUnsigned

LEMMA AnswerType ==
    ASSUME NEW known \in SUBSET Commands, NEW line \in Line
    PROVE  /\ Answer(known, line) \in Signed
           /\ Effect(known, line) \in Seq(Commands)
<1>1. Registered(known, line) => line.of \in Commands
  BY DEF Registered
<1>2. \A u \in Unsigned : ToInt(u) \in Signed
  BY IntMaxAssumption DEF Unsigned, Signed, ToInt
<1>3. Quit \in Signed /\ Error \in Signed
  BY IntMaxAssumption DEF Quit, Error, Signed
<1>4. Answer(known, line) \in Signed
  BY <1>1, <1>2, <1>3, CommandsAssumption DEF Answer
<1>5. Effect(known, line) \in Seq(Commands)
  BY <1>1 DEF Effect
<1> QED
  BY <1>4, <1>5

LEMMA FrontType ==
    ASSUME NEW s \in Seq(Frame), s # <<>>
    PROVE  /\ Front(s) \in Seq(Frame) /\ Len(Front(s)) = Len(s) - 1
           /\ Last(s) \in Frame /\ Len(s) > 0
<1>1. Len(s) \in Nat /\ Len(s) > 0
  BY EmptySeq
<1>2. \A i \in 1 .. Len(s) : s[i] \in Frame
  OBVIOUS
<1>3. Front(s) \in Seq(Frame) /\ Len(Front(s)) = Len(s) - 1
  <2> DEFINE n == Len(s) - 1
  <2>1. n \in Nat /\ \A i \in 1 .. n : s[i] \in Frame
    BY <1>1, <1>2
  <2>2. Front(s) = SubSeq(s, 1, n)
    BY DEF Front
  <2> HIDE DEF n
  <2>3. /\ SubSeq(s, 1, n) \in Seq(Frame)
        /\ Len(SubSeq(s, 1, n)) = IF 1 <= n THEN n - 1 + 1 ELSE 0
    BY ONLY <2>1, SubSeqProperties, SMT
  <2>4. Len(SubSeq(s, 1, n)) = n
    BY <2>1, <2>3
  <2> QED
    BY <2>2, <2>3, <2>4 DEF n
<1>4. Last(s) \in Frame
  BY <1>1, <1>2 DEF Last
<1> QED
  BY <1>1, <1>3, <1>4

LEMMA OkIsSigned == Ok \in Signed /\ Quit \in Signed
  BY IntMaxAssumption DEF Ok, Quit, Signed

\* What the steps of a call do to the four variables they change.
LEMMA ExecuteType ==
    ASSUME ConsoleTypeOK, user \in Consoles,
           NEW line \in Line, NEW at \in Seq(Frame), Len(at) <= MaxOpen,
           Execute(line, at)
    PROVE  /\ stack' \in Seq(Frame) /\ Len(stack') <= MaxOpen
           /\ ret' \in Signed \cup {Nil}
           /\ done' \in Seq(Commands)
           /\ quit' \in BOOLEAN
           /\ quit' => quit \/ ret' = Quit
<1>1. CASE line.kind = "run" /\ RunFile(line.of, at)
  <2>1. line.of \in Files
    BY <1>1 DEF Line
  <2>2. Start(line.of) \in Frame
    BY <2>1 DEF Start, Frame
  <2>3. Converted(Ok) \in Signed
    BY ConversionIsIdentity, OkIsSigned
  <2>4. stack' \in Seq(Frame) /\ Len(stack') <= MaxOpen
    <3>1. CASE Len(at) < MaxOpen /\ stack' = Append(at, Start(line.of))
      BY <2>2, <3>1, BoundsAssumption
    <3>2. CASE stack' = at
      BY <3>2
    <3> QED
      BY <1>1, <3>1, <3>2 DEF RunFile
  <2>5. ret' \in Signed \cup {Nil}
    BY <1>1, <2>3 DEF RunFile, ConsoleTypeOK
  <2>6. done' = done /\ quit' = quit
    BY <1>1 DEF RunFile
  <2> QED
    BY <2>4, <2>5, <2>6 DEF ConsoleTypeOK
<1>2. CASE /\ line.kind # "run"
           /\ stack' = at
           /\ ret' = Answer(registered[user], line)
           /\ done' = done \o Effect(registered[user], line)
           /\ quit' = (quit \/ ret' = Quit)
  <2>1. Answer(registered[user], line) \in Signed /\ Effect(registered[user], line) \in Seq(Commands)
    BY AnswerType DEF ConsoleTypeOK
  <2>2. done' \in Seq(Commands)
    BY <1>2, <2>1 DEF ConsoleTypeOK
  <2>3. quit' \in BOOLEAN /\ (quit' => quit \/ ret' = Quit)
    BY <1>2
  <2> QED
    BY <1>2, <2>1, <2>2, <2>3
<1> QED
  BY <1>1, <1>2 DEF Execute

LEMMA CloseType ==
    ASSUME ConsoleTypeOK, stack # <<>>, NEW code \in Signed, Close(code)
    PROVE  /\ stack' \in Seq(Frame) /\ Len(stack') <= MaxOpen
           /\ ret' = code
<1>1. ret' = code
  BY ConversionIsIdentity DEF Close
<1>2. stack' = Front(stack) /\ stack \in Seq(Frame) /\ Len(stack) <= MaxOpen
  BY DEF Close, ConsoleTypeOK
<1> QED
  BY <1>1, <1>2, FrontType, BoundsAssumption

LEMMA NextLineType ==
    ASSUME ConsoleTypeOK, user \in Consoles, NextLine
    PROVE  /\ stack' \in Seq(Frame) /\ Len(stack') <= MaxOpen
           /\ ret' \in Signed \cup {Nil}
           /\ done' \in Seq(Commands)
           /\ quit' \in BOOLEAN
           /\ quit' => quit \/ ret' = Quit
<1> DEFINE line == scripts[Top.file][Top.next]
           at   == [stack EXCEPT ![Len(stack)].next = @ + 1]
<1>1. /\ stack \in Seq(Frame) /\ stack # <<>> /\ Len(stack) <= MaxOpen
      /\ ret = Nil /\ HasLine
      /\ \/ /\ line.kind = "comment"
            /\ stack' = at /\ UNCHANGED <<ret, done, quit>>
         \/ line.kind # "comment" /\ Execute(line, at)
  BY DEF NextLine, Reading, ConsoleTypeOK
<1>2. Top \in Frame /\ Len(stack) > 0
  BY <1>1, FrontType DEF Top
<1>3. line \in Line
  BY <1>1, <1>2, ScriptsAssumption DEF HasLine, Frame, ConsoleTypeOK
<1>4. at \in Seq(Frame) /\ Len(at) = Len(stack)
  <2>1. [Top EXCEPT !.next = @ + 1] \in Frame
    BY <1>2 DEF Frame
  <2>2. Len(stack) \in 1 .. Len(stack) /\ Top = stack[Len(stack)]
    BY <1>1, <1>2 DEF Top, Last
  <2>3. at = [stack EXCEPT ![Len(stack)] = [Top EXCEPT !.next = @ + 1]]
    BY <2>2
  <2> QED
    BY <1>1, <2>1, <2>2, <2>3, ExceptSeq
<1> HIDE DEF line, at
<1>5. CASE /\ line.kind = "comment"
           /\ stack' = at /\ UNCHANGED <<ret, done, quit>>
  BY <1>1, <1>4, <1>5 DEF ConsoleTypeOK
<1>6. CASE line.kind # "comment" /\ Execute(line, at)
  BY <1>1, <1>3, <1>4, <1>6, ExecuteType
<1> QED
  BY <1>1, <1>5, <1>6
-----------------------------------------------------------------------------

LEMMA TypeInit == ConsoleInit => ConsoleTypeOK
<1> SUFFICES ASSUME ConsoleInit PROVE ConsoleTypeOK
  OBVIOUS
<1>1. stack \in Seq(Frame) /\ Len(stack) <= MaxOpen
  <2>1. CASE stack = <<>>
    BY <2>1, BoundsAssumption
  <2>2. ASSUME NEW f \in Files, stack = <<Start(f)>> PROVE stack \in Seq(Frame) /\ Len(stack) <= MaxOpen
    BY <2>2, BoundsAssumption DEF Start, Frame
  <2> QED
    BY <2>1, <2>2 DEF ConsoleInit
<1>2. asked \in Line \cup {Nil} /\ user \in Consoles \cup {Nil}
  BY ConsolesAssumption DEF ConsoleInit, Line
<1>3. saved \in [Consoles -> Seq(Entry) \cup {Nil}] /\ typed \in [Consoles -> Seq(Entry)]
  BY DEF ConsoleInit
<1>4. scripts \in Scripts /\ phase \in {"script", "prompt", "exited"}
  BY DEF ConsoleInit
<1>5. /\ ret = Nil /\ done = <<>> /\ quit = FALSE /\ fate = "up"
      /\ registered = CommandsOf /\ alive = Consoles
      /\ current = Nil /\ active = <<>> /\ heirs = {}
  BY DEF ConsoleInit
<1>6. done \in Seq(Commands) /\ active \in Seq(Entry)
  BY <1>5, EmptySeq
<1> QED
  BY <1>1, <1>2, <1>3, <1>4, <1>5, <1>6, CommandsAssumption DEF ConsoleTypeOK

LEMMA InvInit == ConsoleInit => IInv
<1> SUFFICES ASSUME ConsoleInit PROVE IInv
  OBVIOUS
<1>1. CallInv
  BY ConsolesAssumption, NilAssumption DEF ConsoleInit, CallInv, Line
<1>2. HistoryInv
  BY ConsolesAssumption DEF ConsoleInit, HistoryInv, Kept
<1> QED
  BY <1>1, <1>2, TypeInit DEF ConsoleInit, QuitInv, IInv

\* A step of executeFile(), to a line, from one, or to the end.
CallStep == NextLine \/ EndOfFile \/ AfterLine

LEMMA CallSteps ==
    ASSUME IInv, CallStep
    PROVE  /\ UNCHANGED <<asked, historyVars, scripts, phase, user, registered, fate>>
           /\ asked # Nil /\ user # Nil /\ user \in Consoles
           /\ stack' \in Seq(Frame) /\ Len(stack') <= MaxOpen
           /\ ret' \in Signed \cup {Nil}
           /\ done' \in Seq(Commands)
           /\ quit' \in BOOLEAN
           /\ quit' => ret' = Quit
           /\ phase # "exited"
           /\ quit => done' = done
<1>1. stack # <<>> /\ UNCHANGED <<asked, historyVars, scripts, phase, user, registered, fate>>
  BY DEF CallStep, NextLine, EndOfFile, AfterLine, Reading
<1>2. asked # Nil /\ user # Nil /\ user \in Consoles /\ phase # "exited"
  BY <1>1 DEF IInv, CallInv, QuitInv, ConsoleTypeOK
<1>3. quit => ret = Quit
  BY <1>2 DEF IInv, QuitInv
<1>4. Quit # Nil /\ Quit # Ok
  BY OkIsSigned, NilAssumption DEF Quit, Ok
<1>5. CASE NextLine
  <2>1. ret = Nil
    BY <1>5 DEF NextLine
  <2> QED
    BY <1>1, <1>2, <1>3, <1>4, <1>5, <2>1, NextLineType DEF IInv
<1>6. CASE EndOfFile
  <2>1. ret = Nil /\ Close(Ok) /\ UNCHANGED <<done, quit>>
    BY <1>6 DEF EndOfFile
  <2>2. stack' \in Seq(Frame) /\ Len(stack') <= MaxOpen /\ ret' = Ok
    BY <1>1, <2>1, CloseType, OkIsSigned DEF IInv
  <2> QED
    BY <1>1, <1>2, <1>3, <1>4, <2>1, <2>2, OkIsSigned DEF IInv, ConsoleTypeOK
<1>7. CASE AfterLine
  <2>1. ret # Nil /\ UNCHANGED <<done, quit>>
    BY <1>7 DEF AfterLine
  <2>2. ret \in Signed
    BY <2>1 DEF IInv, ConsoleTypeOK
  <2>3. CASE Ends /\ Close(ret)
    <3>1. stack' \in Seq(Frame) /\ Len(stack') <= MaxOpen /\ ret' = ret
      BY <1>1, <2>2, <2>3, CloseType DEF IInv
    <3> QED
      BY <1>1, <1>2, <1>3, <2>1, <2>2, <3>1 DEF IInv, ConsoleTypeOK
  <2>4. CASE ~Ends /\ ret' = Nil /\ UNCHANGED stack
    BY <1>1, <1>2, <1>3, <1>4, <2>1, <2>4 DEF Ends, IInv, ConsoleTypeOK
  <2> QED
    BY <1>7, <2>3, <2>4 DEF AfterLine
<1> QED
  BY <1>5, <1>6, <1>7 DEF CallStep

\* Every step keeps the types.
LEMMA TypeStep ==
    ASSUME IInv, [ConsoleNext]_consoleVars
    PROVE  ConsoleTypeOK'
<1> USE DEF IInv
<1>1. CASE CallStep
  BY <1>1, CallSteps DEF ConsoleTypeOK, historyVars
<1>2. CASE MainGoesOn
  <2>1. /\ phase' \in {"script", "prompt", "exited"}
        /\ ret' = Nil /\ asked' = Nil /\ done' = <<>> /\ user' = Nil
        /\ UNCHANGED <<stack, quit, historyVars, scripts, registered, fate>>
    BY <1>2 DEF MainGoesOn, Loop
  <2> QED
    BY <2>1 DEF ConsoleTypeOK, historyVars
<1>3. ASSUME NEW c \in Consoles, ReadLine(c) PROVE ConsoleTypeOK'
  <2>1. /\ user' = c
        /\ UNCHANGED <<callVars, alive, typed, heirs, scripts, phase, registered>>
        /\ ReserveConsole(c)
    BY <1>3 DEF ReadLine
  <2>2. /\ fate' \in {"up", "undefined"}
        /\ current' \in Consoles \cup {Nil}
    BY <2>1 DEF ReserveConsole, Restore, ConsoleTypeOK
  <2>4. active' \in Seq(Entry)
    <3>1. <<>> \in Seq(Entry) /\ (saved[c] # Nil => saved[c] \in Seq(Entry))
      BY EmptySeq DEF ConsoleTypeOK
    <3>2. active \in Seq(Entry)
      BY DEF ConsoleTypeOK
    <3> QED
      BY <2>1, <3>1, <3>2 DEF ReserveConsole, Restore
  <2>3. saved' \in [Consoles -> Seq(Entry) \cup {Nil}]
    BY <2>1 DEF ReserveConsole, SaveState, ConsoleTypeOK
  <2> QED
    BY <2>1, <2>2, <2>3, <2>4 DEF ConsoleTypeOK, callVars
<1>4. CASE Complete
  BY <1>4 DEF Complete, ConsoleTypeOK, callVars, historyVars
<1>5. ASSUME NEW line \in Line, Type(line) PROVE ConsoleTypeOK'
  <2>1. user \in Consoles /\ <<>> \in Seq(Frame) /\ Len(<<>>) <= MaxOpen
    BY <1>5, BoundsAssumption DEF Type, Prompting, ConsoleTypeOK
  <2>2. /\ stack' \in Seq(Frame) /\ Len(stack') <= MaxOpen
        /\ ret' \in Signed \cup {Nil}
        /\ done' \in Seq(Commands)
        /\ quit' \in BOOLEAN
    BY <1>5, <2>1, ExecuteType DEF Type
  <2>3. active' \in Seq(Entry) /\ typed' \in [Consoles -> Seq(Entry)]
    <3>1. CASE UNCHANGED <<active, typed>>
      BY <3>1 DEF ConsoleTypeOK
    <3>2. CASE /\ active' = Append(active, <<user, Len(typed[user]) + 1>>)
               /\ typed' = [typed EXCEPT ![user] =
                                Append(@, <<user, Len(typed[user]) + 1>>)]
      <4>1. typed[user] \in Seq(Entry) /\ active \in Seq(Entry)
        BY <2>1 DEF ConsoleTypeOK
      <4>2. <<user, Len(typed[user]) + 1>> \in Entry
        BY <2>1, <4>1 DEF Entry
      <4> QED
        BY <2>1, <3>2, <4>1, <4>2 DEF ConsoleTypeOK
    <3> QED
      BY <1>5, <3>1, <3>2 DEF Type
  <2>4. asked' = line
        /\ UNCHANGED <<alive, current, saved, heirs, scripts, phase, user, registered, fate>>
    BY <1>5 DEF Type
  <2> QED
    BY <2>2, <2>3, <2>4 DEF ConsoleTypeOK
<1>6. CASE EndOfInput
  <2>1. [kind |-> "quit", of |-> Nil] \in Line
    BY DEF Line
  <2> QED
    BY <1>6, <2>1, OkIsSigned DEF EndOfInput, ConsoleTypeOK, historyVars
<1>7. ASSUME NEW c \in Consoles, NEW command \in Commands, RegisterCommand(c, command)
      PROVE  ConsoleTypeOK'
  BY <1>7 DEF RegisterCommand, ConsoleTypeOK, callVars, historyVars
<1>8. ASSUME NEW c \in Consoles, Construct(c) PROVE ConsoleTypeOK'
  <2>1. typed' \in [Consoles -> Seq(Entry)]
    BY <1>8, EmptySeq DEF Construct, ConsoleTypeOK
  <2>2. /\ registered' \in [Consoles -> SUBSET Commands]
        /\ saved' \in [Consoles -> Seq(Entry) \cup {Nil}]
        /\ alive' \subseteq Consoles /\ heirs' \subseteq Consoles
    BY <1>8, CommandsAssumption DEF Construct, ConsoleTypeOK
  <2> QED
    BY <1>8, <2>1, <2>2 DEF Construct, ConsoleTypeOK, callVars
<1>9. ASSUME NEW c \in Consoles, Destroy(c) PROVE ConsoleTypeOK'
  BY <1>9 DEF Destroy, ConsoleTypeOK, callVars
<1>10. CASE UNCHANGED consoleVars
  BY <1>10 DEF ConsoleTypeOK, consoleVars, callVars, historyVars
<1> QED
  BY <1>1, <1>2, <1>3, <1>4, <1>5, <1>6, <1>7, <1>8, <1>9, <1>10
  DEF ConsoleNext, Internal, External, CallStep

-----------------------------------------------------------------------------

LEMMA CallInvStep ==
    ASSUME IInv, [ConsoleNext]_consoleVars
    PROVE  CallInv'
<1> USE DEF IInv, CallInv
<1>1. CASE CallStep
  BY <1>1, CallSteps
<1>2. CASE MainGoesOn
  BY <1>2 DEF MainGoesOn, Loop, Delivered
<1>3. ASSUME NEW c \in Consoles, ReadLine(c) PROVE CallInv'
  BY <1>3, ConsolesAssumption DEF ReadLine, Idle, callVars
<1>4. CASE Complete
  BY <1>4 DEF Complete, callVars
<1>5. ASSUME NEW line \in Line, Type(line) PROVE CallInv'
  BY <1>5, NilAssumption DEF Type, Prompting
<1>6. CASE EndOfInput
  <2>1. [kind |-> "quit", of |-> Nil] \in Line
    BY DEF Line
  <2> QED
    BY <1>6, <2>1, NilAssumption DEF EndOfInput, Prompting
<1>7. ASSUME NEW c \in Consoles,
             Construct(c) \/ Destroy(c)
                 \/ \E command \in Commands : RegisterCommand(c, command)
      PROVE  CallInv'
  BY <1>7 DEF Construct, Destroy, RegisterCommand, callVars
<1>8. CASE UNCHANGED consoleVars
  BY <1>8 DEF consoleVars, callVars
<1> QED
  BY <1>1, <1>2, <1>3, <1>4, <1>5, <1>6, <1>7, <1>8
  DEF ConsoleNext, Internal, External, CallStep

LEMMA QuitInvStep ==
    ASSUME IInv, [ConsoleNext]_consoleVars
    PROVE  QuitInv'
<1> USE DEF IInv, QuitInv
<1>1. CASE CallStep
  BY <1>1, CallSteps
<1>2. CASE MainGoesOn
  BY <1>2 DEF MainGoesOn, Loop, Delivered
<1>3. ASSUME NEW c \in Consoles, ReadLine(c) PROVE QuitInv'
  BY <1>3 DEF ReadLine, Idle, callVars
<1>4. CASE Complete
  BY <1>4 DEF Complete, callVars
<1>5. ASSUME NEW line \in Line, Type(line) PROVE QuitInv'
  <2>1. /\ asked = Nil /\ phase = "prompt" /\ phase' = phase
        /\ user \in Consoles
        /\ Execute(line, <<>>)
    BY <1>5 DEF Type, Prompting, ConsoleTypeOK
  <2>2. <<>> \in Seq(Frame) /\ Len(<<>>) <= MaxOpen
    BY BoundsAssumption
  <2>3. quit' => quit \/ ret' = Quit
    BY <2>1, <2>2, ExecuteType
  <2>4. ~quit
    BY <2>1, OkIsSigned, NilAssumption DEF CallInv
  <2> QED
    BY <2>1, <2>3, <2>4
<1>6. CASE EndOfInput
  BY <1>6 DEF EndOfInput, Prompting
<1>7. ASSUME NEW c \in Consoles,
             Construct(c) \/ Destroy(c)
                 \/ \E command \in Commands : RegisterCommand(c, command)
      PROVE  QuitInv'
  BY <1>7 DEF Construct, Destroy, RegisterCommand, callVars
<1>8. CASE UNCHANGED consoleVars
  BY <1>8 DEF consoleVars, callVars
<1> QED
  BY <1>1, <1>2, <1>3, <1>4, <1>5, <1>6, <1>7, <1>8
  DEF ConsoleNext, Internal, External, CallStep

\* No history is Nil.
LEMMA HistoriesAreNotNil == \A h \in Seq(Entry) : h # Nil
<1>1. Entry \subseteq Consoles \X Nat
  BY DEF Entry
<1>2. \A h \in Seq(Entry) : h \in Seq(Consoles \X Nat)
  BY <1>1
<1> QED
  BY <1>2, NilAssumption

LEMMA HistoryInvStep ==
    ASSUME IInv, [ConsoleNext]_consoleVars
    PROVE  HistoryInv'
<1> USE DEF IInv, HistoryInv
<1>1. CASE CallStep
  BY <1>1, CallSteps DEF historyVars, Kept
<1>2. CASE MainGoesOn
  BY <1>2 DEF MainGoesOn, historyVars, Kept
<1>3. ASSUME NEW c \in Consoles, ReadLine(c) PROVE HistoryInv'
  <2>1. /\ user' = c /\ c \in alive
        /\ UNCHANGED <<alive, typed, heirs>>
        /\ ReserveConsole(c)
    BY <1>3 DEF ReadLine
  <2>2. CASE current = c /\ UNCHANGED <<current, active, saved, fate>>
    BY <2>1, <2>2 DEF Kept
  <2>3. CASE current = Nil /\ Restore(c) /\ UNCHANGED <<saved, fate>>
    <3>1. c # Nil /\ Nil \notin alive
      BY ConsolesAssumption DEF ConsoleTypeOK
    <3> QED
      BY <2>1, <2>3, <3>1 DEF Restore, Kept
  <2>4. CASE current \in alive \ {c} /\ SaveState /\ Restore(c) /\ UNCHANGED fate
    <3>1. active # Nil /\ current \in Consoles /\ saved \in [Consoles -> Seq(Entry) \cup {Nil}]
      BY <2>4, HistoriesAreNotNil DEF ConsoleTypeOK
    <3>2. /\ saved'[current] = active
          /\ \A d \in Consoles \ {current} : saved'[d] = saved[d]
      BY <2>4, <3>1 DEF SaveState
    <3>3. current' = c /\ active' = Kept(c)
      BY <2>4 DEF Restore, Kept
    <3>4. ASSUME NEW d \in alive \ heirs
          PROVE  typed[d] = IF current' = d THEN active' ELSE Kept(d)'
      <4>1. d \in Consoles
        BY DEF ConsoleTypeOK
      <4>2. CASE d = c
        BY <2>4, <3>3, <4>2
      <4>3. CASE d = current
        BY <2>4, <3>1, <3>2, <3>3, <4>3 DEF Kept
      <4>4. CASE d # c /\ d # current
        BY <3>2, <3>3, <4>1, <4>4 DEF Kept
      <4> QED
        BY <4>2, <4>3, <4>4
    <3> QED
      BY <2>1, <3>3, <3>4
  <2>5. CASE fate' = "undefined" /\ UNCHANGED <<current, active, saved>>
    BY <2>1, <2>5 DEF Kept
  <2> QED
    BY <2>1, <2>2, <2>3, <2>4, <2>5 DEF ReserveConsole
<1>4. CASE Complete
  BY <1>4 DEF Complete, historyVars, Kept
<1>5. ASSUME NEW line \in Line, Type(line) PROVE HistoryInv'
  <2>1. /\ user \in Consoles /\ current = user
        /\ UNCHANGED <<alive, current, saved, heirs, user, phase, fate>>
    BY <1>5 DEF Type, Prompting, ConsoleTypeOK
  <2>2. CASE UNCHANGED <<active, typed>>
    BY <2>1, <2>2 DEF Kept
  <2>3. CASE /\ active' = Append(active, <<user, Len(typed[user]) + 1>>)
             /\ typed' = [typed EXCEPT ![user] =
                              Append(@, <<user, Len(typed[user]) + 1>>)]
    <3>1. typed \in [Consoles -> Seq(Entry)]
      BY DEF ConsoleTypeOK
    <3>2. /\ typed'[user] = Append(typed[user], <<user, Len(typed[user]) + 1>>)
          /\ \A d \in Consoles \ {user} : typed'[d] = typed[d]
      BY <2>1, <2>3, <3>1
    <3>3. ASSUME NEW d \in alive \ heirs
          PROVE  typed'[d] = IF current = d THEN active' ELSE Kept(d)
      <4>1. d \in Consoles
        BY DEF ConsoleTypeOK
      <4>2. CASE d = user
        BY <2>1, <2>3, <3>2, <4>2
      <4>3. CASE d # user
        BY <2>1, <3>2, <4>1, <4>3
      <4> QED
        BY <4>2, <4>3
    <3> QED
      BY <2>1, <3>3 DEF Kept
  <2> QED
    BY <1>5, <2>2, <2>3 DEF Type
<1>6. CASE EndOfInput
  BY <1>6 DEF EndOfInput, historyVars, Kept
<1>7. ASSUME NEW c \in Consoles, NEW command \in Commands, RegisterCommand(c, command)
      PROVE  HistoryInv'
  BY <1>7 DEF RegisterCommand, Idle, historyVars, Kept
<1>8. ASSUME NEW c \in Consoles, Construct(c) PROVE HistoryInv'
  <2>1. /\ user' = Nil /\ c \notin alive /\ alive' = alive \cup {c}
        /\ saved' = [saved EXCEPT ![c] = Nil]
        /\ typed' = [typed EXCEPT ![c] = <<>>]
        /\ heirs' = IF current = c THEN heirs \cup {c} ELSE heirs
        /\ UNCHANGED <<current, active>>
    BY <1>8 DEF Construct, Idle
  <2>2. /\ alive \subseteq Consoles
        /\ saved \in [Consoles -> Seq(Entry) \cup {Nil}]
        /\ typed \in [Consoles -> Seq(Entry)]
    BY DEF ConsoleTypeOK
  <2>3. ASSUME NEW d \in alive' \ heirs'
        PROVE  typed'[d] = IF current' = d THEN active' ELSE Kept(d)'
    <3>1. CASE d = c
      BY <2>1, <2>2, <2>3, <3>1 DEF Kept
    <3>2. CASE d # c
      BY <2>1, <2>2, <2>3, <3>2 DEF Kept
    <3> QED
      BY <3>1, <3>2
  <2> QED
    BY <2>1, <2>3
<1>9. ASSUME NEW c \in Consoles, Destroy(c) PROVE HistoryInv'
  <2>1. /\ user' = Nil /\ alive' = alive \ {c} /\ heirs' = heirs \ {c}
        /\ saved' = [saved EXCEPT ![c] = Nil]
        /\ typed' = [typed EXCEPT ![c] = <<>>]
        /\ UNCHANGED <<current, active>>
    BY <1>9 DEF Destroy, Idle
  <2>2. /\ alive \subseteq Consoles
        /\ saved \in [Consoles -> Seq(Entry) \cup {Nil}]
        /\ typed \in [Consoles -> Seq(Entry)]
    BY DEF ConsoleTypeOK
  <2> QED
    BY <2>1, <2>2 DEF Kept
<1>10. CASE UNCHANGED consoleVars
  BY <1>10 DEF consoleVars, historyVars, Kept
<1> QED
  BY <1>1, <1>2, <1>3, <1>4, <1>5, <1>6, <1>7, <1>8, <1>9, <1>10
  DEF ConsoleNext, Internal, External, CallStep

-----------------------------------------------------------------------------

\* The invariant of the theorems below.
LEMMA Invariance == ConsoleSpec => []IInv
<1>1. ConsoleInit => IInv
  BY InvInit
<1>2. IInv /\ [ConsoleNext]_consoleVars => IInv'
  BY TypeStep, CallInvStep, HistoryInvStep, QuitInvStep DEF IInv
<1> QED
  BY <1>1, <1>2, PTL DEF ConsoleSpec

(***************************************************************************)
(* Every variable keeps its type: a code that comes back through unsigned  *)
(* commands is an int again, and no more files are open than may be.       *)
(***************************************************************************)
THEOREM TypeCorrect == ConsoleSpec => []ConsoleTypeOK
  BY Invariance, PTL DEF IInv

(***************************************************************************)
(* While consoles take turns, a prompt offers the history of its own       *)
(* console.  It is not so of all that come and go: a console made in the   *)
(* place of the one last read goes on with that one's history, and nothing *)
(* is said once another console was read after the current one was         *)
(* destroyed, which is undefined.                                          *)
(***************************************************************************)
THEOREM HistoriesAreOwn == ConsoleSpec => []HistoryIsOwn
<1>1. IInv => HistoryIsOwn
  BY DEF IInv, HistoryInv, HistoryIsOwn, ConsoleTypeOK
<1> QED
  BY <1>1, Invariance, PTL

(***************************************************************************)
(* After Quit, from a line of the user or of any script, no command is     *)
(* called and no line is read.                                             *)
(***************************************************************************)
THEOREM NothingHappensAfterQuit == ConsoleSpec => NothingAfterQuit
<1>1. ASSUME IInv, [ConsoleNext]_consoleVars, quit
      PROVE  done' \in {done, <<>>} /\ (user' # Nil => user' = user)
  <2>1. phase = "exited" \/ ret # Nil
    BY <1>1, OkIsSigned, NilAssumption DEF IInv, QuitInv
  <2>2. ~Idle /\ ~Prompting
    <3>1. phase = "exited" => ~Idle /\ ~Prompting
      BY DEF Idle, Prompting
    <3>2. ret # Nil => asked # Nil /\ user # Nil
      BY <1>1 DEF IInv, CallInv
    <3> QED
      BY <2>1, <3>1, <3>2 DEF Idle, Prompting
  <2>3. CASE CallStep
    BY <1>1, <2>3, CallSteps
  <2>4. CASE MainGoesOn
    BY <2>4 DEF MainGoesOn
  <2>5. CASE UNCHANGED consoleVars
    BY <2>5 DEF consoleVars, callVars
  <2> QED
    BY <1>1, <2>2, <2>3, <2>4, <2>5
    DEF ConsoleNext, Internal, External, CallStep, Complete, EndOfInput, Type,
        ReadLine, Construct, Destroy, RegisterCommand
<1>2. IInv /\ [ConsoleNext]_consoleVars
          => [quit => done' \in {done, <<>>} /\ (user' # Nil => user' = user)]_consoleVars
  BY <1>1
<1> QED
  BY <1>2, Invariance, PTL DEF ConsoleSpec, NothingAfterQuit

=============================================================================
