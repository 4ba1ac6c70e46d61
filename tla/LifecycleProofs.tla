--------------------------- MODULE LifecycleProofs ---------------------------
(***************************************************************************)
(* The boot string goes to a ready card and the card is reset when philix  *)
(* exits, for any number of interrupts, in either mode and with either     *)
(* kind of state file; what the dumps of a booted card show; and the stack *)
(* of handlers is shallow.                                                 *)
(***************************************************************************)
EXTENDS Lifecycle, SequenceTheorems, TLAPS

(* What main and exit() do stands at the bottom of the stack; handlers and *)
(* the dump stand above.                                                   *)
Over == {"dump", "walk", "int", "segv", "int.sys", "segv.sys"}
Base == Frames \ Over

Stacked(s) ==
  /\ s \in Seq(Frames)
  /\ s # << >> => s[1] \in Base
  /\ \A i \in 2..Len(s) : s[i] \in Over

-----------------------------------------------------------------------------
(* Stacks. *)

LEMMA FrontOf ==
  ASSUME NEW S, NEW s \in Seq(S), s # << >>
  PROVE  /\ Front(s) \in Seq(S)
         /\ Len(Front(s)) = Len(s) - 1
         /\ \A i \in 1..(Len(s) - 1) : Front(s)[i] = s[i]
<1> DEFINE m == Len(s) - 1
<1>1. m \in Nat /\ \A i \in 1..m : s[i] \in S
  OBVIOUS
<1>2. 1 \in Int /\ m \in Int
  BY <1>1
<1> HIDE DEF m
<1>3. /\ SubSeq(s, 1, m) \in Seq(S)
      /\ Len(SubSeq(s, 1, m)) = IF 1 <= m THEN m - 1 + 1 ELSE 0
      /\ \A i \in 1..(m - 1 + 1) : SubSeq(s, 1, m)[i] = s[1 + i - 1]
  BY <1>1, <1>2, SubSeqProperties
<1>4. m - 1 + 1 = m /\ \A i \in 1..m : 1 + i - 1 = i
  BY <1>1
<1>5. Len(SubSeq(s, 1, m)) = m
  BY <1>1, <1>3, <1>4
<1> QED
  BY <1>3, <1>4, <1>5 DEF m, Front

(* A frame of main is alone on the stack, one above is not.                *)
LEMMA Alone ==
  ASSUME NEW s, Stacked(s), s # << >>
  PROVE  /\ Len(s) \in Nat \ {0}
         /\ Last(s) \in Frames
         /\ Last(s) \in Base => Len(s) = 1 /\ s[1] = Last(s)
         /\ Last(s) \in Over => Len(s) >= 2 /\ Len(s) # 1
<1>1. s \in Seq(Frames) /\ Len(s) \in Nat \ {0}
  BY DEF Stacked
<1>2. Last(s) \in Frames
  BY <1>1 DEF Last
<1>3. Len(s) = 1 => Last(s) = s[1] /\ Last(s) \notin Over
  BY <1>1 DEF Stacked, Last, Base
<1>4. ASSUME Len(s) >= 2 PROVE Last(s) \in Over
  <2>1. Len(s) \in 2..Len(s)
    BY <1>1, <1>4
  <2> QED
    BY <2>1 DEF Stacked, Last
<1>5. Len(s) = 1 \/ Len(s) >= 2
  BY <1>1
<1> QED
  BY <1>1, <1>2, <1>3, <1>4, <1>5 DEF Base

(* A frame above is replaced, called from or returned to without touching  *)
(* the bottom.                                                             *)
LEMMA Above ==
  ASSUME NEW s, Stacked(s), Len(s) >= 2, s # << >>,
         NEW f \in Over, NEW g \in Over
  PROVE  /\ Stacked(Append(Front(s), f)) /\ Append(Front(s), f) # << >>
         /\ Append(Front(s), f)[1] = s[1]
         /\ Stacked(Front(s)) /\ Front(s) # << >> /\ Front(s)[1] = s[1]
         /\ Stacked(Front(s) \o <<g, f>>) /\ Front(s) \o <<g, f>> # << >>
         /\ (Front(s) \o <<g, f>>)[1] = s[1]
<1>1. s \in Seq(Frames) /\ Len(s) \in Nat
  BY DEF Stacked
<1>2. PICK t : t = Front(s)
  OBVIOUS
<1>3. /\ t \in Seq(Frames) /\ Len(t) = Len(s) - 1
      /\ \A i \in 1..(Len(s) - 1) : t[i] = s[i]
  BY <1>1, <1>2, FrontOf
<1>4. Len(t) \in Nat \ {0} /\ t[1] = s[1]
  BY <1>1, <1>3
<1>5. \A i \in 2..Len(t) : t[i] \in Over
  <2>1. \A i \in 2..Len(t) : i \in 2..Len(s) /\ i \in 1..(Len(s) - 1)
    BY <1>1, <1>3
  <2> QED
    BY <1>3, <2>1 DEF Stacked
<1>6. Stacked(t) /\ t # << >>
  BY <1>3, <1>4, <1>5 DEF Stacked
<1>7. f \in Frames /\ g \in Frames
  BY DEF Over, Frames, InSystem
<1>8. Stacked(Append(t, f)) /\ Append(t, f) # << >> /\ Append(t, f)[1] = t[1]
  <2>1. /\ Append(t, f) \in Seq(Frames) /\ Len(Append(t, f)) = Len(t) + 1
        /\ \A i \in 1..Len(t) : Append(t, f)[i] = t[i]
        /\ Append(t, f)[Len(t) + 1] = f
    BY <1>3, <1>7
  <2>2. Append(t, f)[1] = t[1]
    BY <1>4, <2>1
  <2>3. ASSUME NEW i \in 2..(Len(t) + 1) PROVE Append(t, f)[i] \in Over
    <3>1. i \in 2..Len(t) \/ i = Len(t) + 1
      BY <1>4
    <3>2. i \in 2..Len(t) => i \in 1..Len(t)
      BY <1>4
    <3> QED
      BY <1>5, <2>1, <3>1, <3>2
  <2> QED
    BY <1>4, <1>6, <2>1, <2>2, <2>3 DEF Stacked
<1>9. /\ Stacked(t \o <<g, f>>) /\ t \o <<g, f>> # << >>
      /\ (t \o <<g, f>>)[1] = t[1]
  <2>1. /\ t \o <<g, f>> \in Seq(Frames) /\ Len(t \o <<g, f>>) = Len(t) + 2
        /\ \A i \in 1..Len(t) : (t \o <<g, f>>)[i] = t[i]
        /\ (t \o <<g, f>>)[Len(t) + 1] = g
        /\ (t \o <<g, f>>)[Len(t) + 2] = f
    BY <1>3, <1>7
  <2>2. (t \o <<g, f>>)[1] = t[1]
    BY <1>4, <2>1
  <2>3. ASSUME NEW i \in 2..(Len(t) + 2) PROVE (t \o <<g, f>>)[i] \in Over
    <3>1. i \in 2..Len(t) \/ i = Len(t) + 1 \/ i = Len(t) + 2
      BY <1>4
    <3>2. i \in 2..Len(t) => i \in 1..Len(t)
      BY <1>4
    <3> QED
      BY <1>5, <2>1, <3>1, <3>2
  <2> QED
    BY <1>4, <1>6, <2>1, <2>2, <2>3 DEF Stacked
<1> QED
  BY <1>2, <1>4, <1>6, <1>8, <1>9

(* A handler is pushed on anything.                                        *)
LEMMA Pushed ==
  ASSUME NEW s, Stacked(s), s # << >>, NEW f \in Over
  PROVE  Stacked(Append(s, f)) /\ Append(s, f) # << >> /\ Append(s, f)[1] = s[1]
<1>1. s \in Seq(Frames) /\ Len(s) \in Nat \ {0} /\ f \in Frames
  BY DEF Stacked, Over, Frames, InSystem
<1>2. /\ Append(s, f) \in Seq(Frames) /\ Len(Append(s, f)) = Len(s) + 1
      /\ \A i \in 1..Len(s) : Append(s, f)[i] = s[i]
      /\ Append(s, f)[Len(s) + 1] = f
  BY <1>1
<1>3. Append(s, f)[1] = s[1]
  BY <1>1, <1>2
<1>4. ASSUME NEW i \in 2..(Len(s) + 1) PROVE Append(s, f)[i] \in Over
  <2>1. i \in 2..Len(s) \/ i = Len(s) + 1
    BY <1>1
  <2>2. i \in 2..Len(s) => i \in 1..Len(s)
    BY <1>1
  <2> QED
    BY <1>2, <2>1, <2>2 DEF Stacked
<1> QED
  BY <1>1, <1>2, <1>3, <1>4 DEF Stacked

(* main goes from frame to frame, and calls the dump.                      *)
LEMMA Bottom ==
  ASSUME NEW s, Stacked(s), Len(s) = 1, s # << >>,
         NEW g \in Base, NEW f \in Over
  PROVE  /\ Append(Front(s), g) = <<g>> /\ Stacked(<<g>>)
         /\ Front(s) \o <<g, f>> = <<g, f>> /\ Stacked(<<g, f>>)
<1>1. Front(s) = << >>
  <2>1. Front(s) \in Seq(Frames) /\ Len(Front(s)) = 0
    BY FrontOf DEF Stacked
  <2> QED
    BY <2>1
<1>2. g \in Frames /\ f \in Frames
  BY DEF Base, Over, Frames, InSystem
<1>3. Append(<< >>, g) = <<g>> /\ << >> \o <<g, f>> = <<g, f>>
  OBVIOUS
<1>4. Stacked(<<g>>)
  BY <1>2 DEF Stacked
<1>5. Stacked(<<g, f>>)
  <2>1. <<g, f>> \in Seq(Frames) /\ Len(<<g, f>>) = 2
    BY <1>2
  <2>2. \A i \in 2..2 : i = 2
    OBVIOUS
  <2> QED
    BY <2>1, <2>2 DEF Stacked
<1> QED
  BY <1>1, <1>3, <1>4, <1>5

-----------------------------------------------------------------------------
Early  == {"options", "map", "stat", "open", "read", "boot.sys", "wait", "write"}
Leaves == {"exit", "exit.sys", "last"}

(* Until the boot string is written nothing is installed, nothing can come *)
(* on top, and the card is not ours; it is ready when the string is        *)
(* written, because what "wait" has read is the card's state or is not     *)
(* "ready".                                                                *)
Booting ==
  stack # << >> =>
    /\ stack[1] \in Early \union {"atexit"} => installed = {} /\ Len(stack) = 1
    /\ stack[1] \in Early => card # "ours"
    /\ stack[1] \in Early \ {"wait", "write"} => buffered = "none"
    /\ stack[1] = "wait" => buffered # "ready"
    /\ stack[1] = "write" => card = "ready"
    /\ stack[1] = "atexit" => card = "ours" \/ (card = "ready" /\ refused)

(* From then on the exit handler stands by, until it runs; once it has run *)
(* the card is reset.                                                      *)
StandsBy ==
  stack # << >> =>
    /\ stack[1] \notin Early \union {"atexit"} \union Leaves => "exit" \in installed
    /\ stack[1] = "last" => card # "ours" \/ lost

Alive == (end = "alive") = (stack # << >>)

CardInv == Stacked(stack) /\ Alive /\ Booting /\ StandsBy /\ ResetOnExit

(* The card has not become ours again.                                     *)
Tidy == (card' = card /\ lost' = lost) \/ card' # "ours" \/ lost'

LEMMA InitCard == Init => CardInv
<1> SUFFICES ASSUME Init PROVE CardInv
  OBVIOUS
<1>1. stack = <<"options">> /\ installed = {} /\ end = "alive" /\ card # "ours"
      /\ buffered = "none"
  BY DEF Init
<1>2. Stacked(stack) /\ stack[1] = "options" /\ stack # << >> /\ Len(stack) = 1
  BY <1>1 DEF Stacked, Base, Over, Frames, InSystem
<1> QED
  BY <1>1, <1>2 DEF CardInv, Alive, Booting, StandsBy, ResetOnExit, Early, Leaves

(* What happens above the bottom.                                          *)
LEMMA Climb ==
  ASSUME CardInv, stack # << >>, stack[1] \notin Early \union {"atexit"},
         Stacked(stack'), stack' # << >>, stack'[1] = stack[1],
         installed' = installed, end' = end, Tidy
  PROVE  CardInv'
<1>1. Booting'
  BY DEF Booting, Early
<1>2. StandsBy'
  BY DEF CardInv, StandsBy, Tidy
<1>3. Alive' /\ ResetOnExit'
  BY DEF CardInv, Alive, ResetOnExit
<1> QED
  BY <1>1, <1>2, <1>3 DEF CardInv

(* exit(), from anywhere but between the boot and atexit().                *)
LEMMA ExitStep ==
  ASSUME CardInv, stack # << >>, stack[1] # "atexit", Exit, UNCHANGED <<card, lost>>
  PROVE  CardInv'
<1>1. CASE "exit" \in installed
  <2>1. stack' = <<"exit">> /\ end' = end
    BY <1>1 DEF Exit
  <2>2. Stacked(stack') /\ stack' # << >> /\ stack'[1] = "exit"
    BY <2>1 DEF Stacked, Base, Over, Frames, InSystem
  <2>3. Booting' /\ StandsBy'
    BY <2>2 DEF Booting, StandsBy, Early, Leaves
  <2>4. Alive' /\ ResetOnExit'
    BY <2>1, <2>2 DEF CardInv, Alive, ResetOnExit
  <2> QED
    BY <2>2, <2>3, <2>4 DEF CardInv
<1>2. CASE "exit" \notin installed
  <2>1. /\ stack' = << >>
        /\ end' = IF stack[1] \in Leaves THEN "nested" ELSE "exit"
    BY <1>2 DEF Exit, Dies, Leaves
  <2>2. Stacked(stack') /\ Booting' /\ StandsBy'
    BY <2>1 DEF Stacked, Booting, StandsBy
  <2>3. Alive'
    BY <2>1 DEF Alive
  <2>4. stack[1] \in Early \union Leaves
    BY <1>2 DEF CardInv, StandsBy
  <2>5. ResetOnExit'
    BY <2>1, <2>4 DEF CardInv, Booting, ResetOnExit
  <2> QED
    BY <2>2, <2>3, <2>5 DEF CardInv
<1> QED
  BY <1>1, <1>2

(* A process that is killed, or ends after its reset.                      *)
LEMMA Death ==
  ASSUME CardInv, NEW how, Dies(how), how # "alive", UNCHANGED <<card, lost>>,
         how = "exit" => stack # << >> /\ stack[1] = "last"
  PROVE  CardInv'
<1>1. stack' = << >> /\ end' = how
  BY DEF Dies
<1>2. Stacked(stack') /\ Booting' /\ StandsBy' /\ Alive'
  BY <1>1 DEF Stacked, Booting, StandsBy, Alive
<1>3. ResetOnExit'
  BY <1>1 DEF CardInv, StandsBy, ResetOnExit
<1> QED
  BY <1>2, <1>3 DEF CardInv

LEMMA FaultStep ==
  ASSUME CardInv, stack # << >>, Segfault, UNCHANGED <<card, lost>>
  PROVE  CardInv'
<1>1. CASE "SEGV" \in installed \ masked
  <2>1. stack' = Append(stack, "segv") /\ UNCHANGED <<installed, end>>
    BY <1>1 DEF Segfault
  <2>2. stack[1] \notin Early \union {"atexit"}
    BY <1>1 DEF CardInv, Booting
  <2>3. Stacked(stack') /\ stack' # << >> /\ stack'[1] = stack[1]
    BY <2>1, Pushed DEF CardInv, Over
  <2> QED
    BY <2>1, <2>2, <2>3, Climb DEF Tidy
<1>2. CASE "SEGV" \notin installed \ masked
  BY <1>2, Death DEF Segfault
<1> QED
  BY <1>1, <1>2

-----------------------------------------------------------------------------
(* A step of main: f alone on the stack is replaced by g.                  *)
LEMMA MainStep ==
  ASSUME CardInv, NEW f \in Base, NEW g \in Base, At(f), Goto(g)
  PROVE  /\ stack # << >> /\ stack[1] = f
         /\ stack' # << >> /\ stack'[1] = g /\ Len(stack') = 1 /\ Stacked(stack')
<1>1. stack # << >> /\ Last(stack) = f
  BY DEF At
<1>2. Len(stack) = 1 /\ stack[1] = f
  BY <1>1, Alone DEF CardInv
<1>3. "dump" \in Over
  BY DEF Over
<1>4. stack' = <<g>> /\ Stacked(<<g>>)
  BY <1>1, <1>2, <1>3, Bottom DEF CardInv, Goto
<1> QED
  BY <1>1, <1>2, <1>4

(* A step of a handler or of the dump: replaced, returned from, or calling.*)
LEMMA OverStep ==
  ASSUME CardInv, NEW f \in Over, NEW g \in Over, NEW r \in Over, At(f),
         Goto(g) \/ Return \/ Call(g, r)
  PROVE  /\ stack # << >> /\ stack[1] \notin Early \union {"atexit"}
         /\ stack' # << >> /\ stack'[1] = stack[1] /\ Stacked(stack')
<1>1. stack # << >> /\ Last(stack) = f /\ Stacked(stack)
  BY DEF At, CardInv
<1>2. Len(stack) >= 2 /\ Len(stack) # 1
  BY <1>1, Alone
<1>3. stack[1] \notin Early \union {"atexit"}
  BY <1>1, <1>2 DEF CardInv, Booting
<1>4. stack' # << >> /\ stack'[1] = stack[1] /\ Stacked(stack')
  <2>1. CASE Goto(g)
    BY <1>1, <1>2, <2>1, Above DEF Goto
  <2>2. CASE Return
    BY <1>1, <1>2, <2>2, Above DEF Return
  <2>3. CASE Call(g, r)
    BY <1>1, <1>2, <2>3, Above DEF Call
  <2> QED
    BY <2>1, <2>2, <2>3
<1> QED
  BY <1>1, <1>3, <1>4

(* The frames by their place.                                              *)
LEMMA Places ==
  /\ Over \subseteq Frames
  /\ Early \union Leaves \union {"atexit", "sigint", "sigsegv", "sbox", "screen",
                                 "loop", "leave"} \subseteq Base
BY DEF Over, Base, Frames, InSystem, Early, Leaves

LEMMA BootStep == CardInv /\ Boot => CardInv'
<1> SUFFICES ASSUME CardInv, Boot PROVE CardInv'
  OBVIOUS
<1> USE Places DEF Early, Leaves
<1>1. CASE Options
  <2>1. CASE Step("options", "map")
    <3>1. /\ stack # << >> /\ stack[1] = "options"
          /\ stack' # << >> /\ stack'[1] = "map" /\ Len(stack') = 1 /\ Stacked(stack')
      BY <2>1, MainStep DEF Step
    <3> QED
      BY <1>1, <2>1, <3>1
      DEF Options, Step, outside, device, CardInv, Alive, Booting, StandsBy, ResetOnExit
  <2>2. CASE Fails("options")
    <3>1. stack # << >> /\ stack[1] = "options"
      BY <2>2, Alone DEF Fails, At, CardInv
    <3> QED
      BY <1>1, <2>2, <3>1, ExitStep DEF Options, Fails, outside, device
  <2> QED
    BY <1>1, <2>1, <2>2 DEF Options
<1>2. CASE MapPhi
  <2>1. /\ stack # << >> /\ stack[1] = "map"
        /\ stack' # << >> /\ stack'[1] = "stat" /\ Len(stack') = 1 /\ Stacked(stack')
    BY <1>2, MainStep DEF MapPhi, Step
  <2> QED
    BY <1>2, <2>1
    DEF MapPhi, Step, device, CardInv, Alive, Booting, StandsBy, ResetOnExit
<1>3. CASE StatImages
  <2>1. CASE Step("stat", "open")
    <3>1. /\ stack # << >> /\ stack[1] = "stat"
          /\ stack' # << >> /\ stack'[1] = "open" /\ Len(stack') = 1 /\ Stacked(stack')
      BY <2>1, MainStep DEF Step
    <3> QED
      BY <1>3, <2>1, <3>1
      DEF StatImages, Step, outside, device, CardInv, Alive, Booting, StandsBy, ResetOnExit
  <2>2. CASE Fails("stat")
    <3>1. stack # << >> /\ stack[1] = "stat"
      BY <2>2, Alone DEF Fails, At, CardInv
    <3> QED
      BY <1>3, <2>2, <3>1, ExitStep DEF StatImages, Fails, outside, device
  <2> QED
    BY <1>3, <2>1, <2>2 DEF StatImages
<1>4. CASE OpenState
  <2>1. CASE Step("open", "read")
    <3>1. /\ stack # << >> /\ stack[1] = "open"
          /\ stack' # << >> /\ stack'[1] = "read" /\ Len(stack') = 1 /\ Stacked(stack')
      BY <2>1, MainStep DEF Step
    <3> QED
      BY <1>4, <2>1, <3>1
      DEF OpenState, Step, outside, device, CardInv, Alive, Booting, StandsBy, ResetOnExit
  <2>2. CASE At("open") /\ Segfault
    BY <1>4, <2>2, FaultStep DEF OpenState, At, outside, device
  <2> QED
    BY <1>4, <2>1, <2>2 DEF OpenState
<1>5. CASE ReadState
  <2>1. CASE card = "ready"
    <3>1. /\ stack # << >> /\ stack[1] = "read"
          /\ stack' # << >> /\ stack'[1] = "write" /\ Len(stack') = 1 /\ Stacked(stack')
      BY <1>5, <2>1, MainStep DEF ReadState, Step
    <3> QED
      BY <1>5, <2>1, <3>1
      DEF ReadState, Step, outside, device, CardInv, Alive, Booting, StandsBy, ResetOnExit
  <2>2. CASE card # "ready"
    <3>1. /\ stack # << >> /\ stack[1] = "read"
          /\ stack' # << >> /\ stack'[1] = "boot.sys" /\ Len(stack') = 1 /\ Stacked(stack')
      BY <1>5, <2>2, MainStep DEF ReadState, Step
    <3> QED
      BY <1>5, <2>2, <3>1
      DEF ReadState, Step, outside, device, CardInv, Alive, Booting, StandsBy, ResetOnExit
  <2> QED
    BY <2>1, <2>2
<1>6. CASE RereadState
  <2> DEFINE state == IF buffered = "none" THEN card ELSE buffered
  <2>1. CASE state = "ready"
    <3>1. /\ stack # << >> /\ stack[1] = "wait"
          /\ stack' # << >> /\ stack'[1] = "write" /\ Len(stack') = 1 /\ Stacked(stack')
      BY <1>6, <2>1, MainStep DEF RereadState, Step
    <3>2. card = "ready"
      BY <2>1, <3>1 DEF CardInv, Booting
    <3> QED
      BY <1>6, <2>1, <3>1, <3>2
      DEF RereadState, Step, device, CardInv, Alive, Booting, StandsBy, ResetOnExit
  <2>2. CASE state # "ready"
    <3>1. /\ stack # << >> /\ stack[1] = "wait"
          /\ stack' # << >> /\ stack'[1] = "wait" /\ Len(stack') = 1 /\ Stacked(stack')
      BY <1>6, <2>2, MainStep DEF RereadState, Step
    <3> QED
      BY <1>6, <2>2, <3>1
      DEF RereadState, Step, device, CardInv, Alive, Booting, StandsBy, ResetOnExit
  <2> QED
    BY <2>1, <2>2
<1>7. CASE WriteBoot
  <2>1. /\ stack # << >> /\ stack[1] = "write"
        /\ stack' # << >> /\ stack'[1] = "atexit" /\ Len(stack') = 1 /\ Stacked(stack')
    BY <1>7, MainStep DEF WriteBoot, Step, Install
  <2> QED
    BY <1>7, <2>1
    DEF WriteBoot, Step, Install, outside, device, CardInv, Alive, Booting, StandsBy, ResetOnExit
<1>8. CASE AtExit
  <2>1. /\ stack # << >> /\ stack[1] = "atexit"
        /\ stack' # << >> /\ stack'[1] = "sigint" /\ Len(stack') = 1 /\ Stacked(stack')
    BY <1>8, MainStep DEF AtExit, Step, Install
  <2> QED
    BY <1>8, <2>1
    DEF AtExit, Step, Install, outside, device, CardInv, Alive, Booting, StandsBy, ResetOnExit
<1>9. CASE SignalInt
  <2>1. /\ stack # << >> /\ stack[1] = "sigint"
        /\ stack' # << >> /\ stack'[1] = "sigsegv" /\ Len(stack') = 1 /\ Stacked(stack')
    BY <1>9, MainStep DEF SignalInt, Step, Install
  <2> QED
    BY <1>9, <2>1
    DEF SignalInt, Step, Install, outside, device, CardInv, Alive, Booting, StandsBy, ResetOnExit
<1>10. CASE SignalSegv
  <2>1. /\ stack # << >> /\ stack[1] = "sigsegv"
        /\ stack' # << >> /\ stack'[1] = "sbox" /\ Len(stack') = 1 /\ Stacked(stack')
    BY <1>10, MainStep DEF SignalSegv, Step, Install
  <2> QED
    BY <1>10, <2>1
    DEF SignalSegv, Step, Install, outside, device, CardInv, Alive, Booting, StandsBy, ResetOnExit
<1>11. CASE MapSbox
  <2>1. PICK g \in {"loop", "screen"} : Step("sbox", g)
    BY <1>11 DEF MapSbox
  <2>2. /\ stack # << >> /\ stack[1] = "sbox"
        /\ stack' # << >> /\ stack'[1] = g /\ Len(stack') = 1 /\ Stacked(stack')
    BY <2>1, MainStep DEF Step
  <2> QED
    BY <1>11, <2>1, <2>2
    DEF MapSbox, Step, device, CardInv, Alive, Booting, StandsBy, ResetOnExit
<1>12. CASE SetupScreen
  <2>1. CASE Step("screen", "loop")
    <3>1. /\ stack # << >> /\ stack[1] = "screen"
          /\ stack' # << >> /\ stack'[1] = "loop" /\ Len(stack') = 1 /\ Stacked(stack')
      BY <2>1, MainStep DEF Step
    <3> QED
      BY <1>12, <2>1, <3>1
      DEF SetupScreen, Step, outside, device, CardInv, Alive, Booting, StandsBy, ResetOnExit
  <2>2. CASE Fails("screen")
    <3>1. stack # << >> /\ stack[1] = "screen"
      BY <2>2, Alone DEF Fails, At, CardInv
    <3> QED
      BY <1>12, <2>2, <3>1, ExitStep DEF SetupScreen, Fails, outside, device
  <2> QED
    BY <1>12, <2>1, <2>2 DEF SetupScreen
<1> QED
  BY <1>1, <1>2, <1>3, <1>4, <1>5, <1>6, <1>7, <1>8, <1>9, <1>10, <1>11, <1>12
  DEF Boot, ConsoleInit

(* system() returns, the command done or killed.                           *)
LEMMA SystemStep ==
  ASSUME CardInv, AfterSystem, UNCHANGED <<installed, end, buffered>>,
         (card' = "resetting" /\ lost' = FALSE) \/ (card' = card /\ lost' = TRUE)
  PROVE  CardInv'
<1> USE Places DEF Early, Leaves
<1>1. CASE At("boot.sys") /\ Goto("wait")
  <2>1. /\ stack # << >> /\ stack[1] = "boot.sys"
        /\ stack' # << >> /\ stack'[1] = "wait" /\ Len(stack') = 1 /\ Stacked(stack')
    BY <1>1, MainStep
  <2> QED
    BY <2>1 DEF CardInv, Alive, Booting, StandsBy, ResetOnExit
<1>2. CASE At("exit.sys") /\ Goto("last")
  <2>1. /\ stack # << >> /\ stack[1] = "exit.sys"
        /\ stack' # << >> /\ stack'[1] = "last" /\ Len(stack') = 1 /\ Stacked(stack')
    BY <1>2, MainStep
  <2> QED
    BY <2>1 DEF CardInv, Alive, Booting, StandsBy, ResetOnExit
<1>3. CASE (At("int.sys") \/ At("segv.sys")) /\ Return
  <2>1. "int.sys" \in Over /\ "segv.sys" \in Over
    BY DEF Over
  <2>2. /\ stack # << >> /\ stack[1] \notin Early \union {"atexit"}
        /\ stack' # << >> /\ stack'[1] = stack[1] /\ Stacked(stack')
    BY <1>3, <2>1, OverStep
  <2> QED
    BY <2>2, Climb DEF Tidy
<1> QED
  BY <1>1, <1>2, <1>3 DEF AfterSystem

LEMMA LoopStep == CardInv /\ (MainLoop \/ LoopFaults) => CardInv'
<1> SUFFICES ASSUME CardInv, MainLoop \/ LoopFaults PROVE CardInv'
  OBVIOUS
<1> USE Places DEF Early, Leaves
<1>1. stack # << >> /\ stack[1] = "loop" /\ Len(stack) = 1
  <2>1. At("loop")
    BY DEF MainLoop, Loops, LineSaved, LoopFails, LoopAborts, LoopShutdown, KeyInterrupt,
           KeyDump, LoopFaults
  <2> QED
    BY <2>1, Alone DEF At, CardInv
<1>2. CASE LineSaved
  BY <1>2 DEF LineSaved, process, device, CardInv, Alive, Booting, StandsBy, ResetOnExit
<1>3. CASE LoopFails
  BY <1>1, <1>3, ExitStep DEF LoopFails, outside, device
<1>4. CASE LoopAborts
  BY <1>4, Death DEF LoopAborts, outside, device
<1>5. CASE KeyInterrupt \/ LoopFaults
  BY <1>1, <1>5, FaultStep DEF KeyInterrupt, LoopFaults, outside, device
<1>6. CASE LoopShutdown /\ Goto("leave")
  <2>1. /\ stack' # << >> /\ stack'[1] = "leave" /\ Stacked(stack')
    BY <1>6, MainStep DEF LoopShutdown, Loops
  <2> QED
    BY <1>1, <1>6, <2>1 DEF LoopShutdown, outside, device, CardInv, Alive, Booting, StandsBy, ResetOnExit
<1>7. CASE (LoopShutdown \/ KeyDump) /\ (Call("dump", "leave") \/ Call("dump", "loop"))
  <2>1. PICK g \in {"leave", "loop"} : Call("dump", g)
    BY <1>7
  <2>2. "dump" \in Over /\ g \in Base
    BY DEF Over
  <2>3. stack' = <<g, "dump">> /\ Stacked(stack')
    <3>1. Stacked(stack)
      BY DEF CardInv
    <3>2. /\ Front(stack) \o <<g, "dump">> = <<g, "dump">>
          /\ Stacked(<<g, "dump">>)
      BY <1>1, <2>2, <3>1, Bottom
    <3>3. stack' = Front(stack) \o <<g, "dump">>
      BY <2>1 DEF Call
    <3> QED
      BY <3>2, <3>3
  <2>4. stack' # << >> /\ stack'[1] = g
    BY <2>3
  <2> QED
    BY <1>1, <1>7, <2>3, <2>4
    DEF LoopShutdown, KeyDump, outside, device, CardInv, Alive, Booting, StandsBy, ResetOnExit
<1> QED
  BY <1>2, <1>3, <1>4, <1>5, <1>6, <1>7 DEF MainLoop, LoopShutdown, KeyDump

LEMMA DumpStep == CardInv /\ (DumpOpen \/ DumpWrite \/ DumpFaults) => CardInv'
<1> SUFFICES ASSUME CardInv, DumpOpen \/ DumpWrite \/ DumpFaults PROVE CardInv'
  OBVIOUS
<1>1. {"dump", "walk"} \subseteq Over
  BY DEF Over
<1>2. CASE Step("dump", "walk") /\ DumpOpen
  <2>1. /\ stack # << >> /\ stack[1] \notin Early \union {"atexit"}
        /\ stack' # << >> /\ stack'[1] = stack[1] /\ Stacked(stack')
    BY <1>1, <1>2, OverStep DEF Step
  <2> QED
    BY <1>2, <2>1, Climb DEF Step, DumpOpen, device, Tidy
<1>3. CASE Fails("dump") /\ DumpOpen
  <2>1. stack # << >> /\ Len(stack) # 1
    BY <1>1, <1>3, Alone DEF Fails, At, CardInv
  <2>2. stack[1] # "atexit"
    BY <2>1 DEF CardInv, Booting
  <2> QED
    BY <1>3, <2>1, <2>2, ExitStep DEF Fails, DumpOpen, device
<1>4. CASE DumpWrite
  <2>1. /\ stack # << >> /\ stack[1] \notin Early \union {"atexit"}
        /\ stack' # << >> /\ stack'[1] = stack[1] /\ Stacked(stack')
    BY <1>1, <1>4, OverStep DEF DumpWrite
  <2> QED
    BY <1>4, <2>1, Climb DEF DumpWrite, device, Tidy
<1>5. CASE DumpFaults
  BY <1>5, FaultStep DEF DumpFaults, At, outside, device
<1> QED
  BY <1>2, <1>3, <1>4, <1>5 DEF DumpOpen

LEMMA HandlerStep == CardInv /\ Handler => CardInv'
<1> SUFFICES ASSUME CardInv, Handler PROVE CardInv'
  OBVIOUS
<1>1. {"int", "segv", "int.sys", "segv.sys", "dump"} \subseteq Over
  BY DEF Over
<1>2. CASE CursesSigint \/ CursesSigsegv
  <2>1. stack # << >> /\ Len(stack) # 1
    BY <1>1, <1>2, Alone DEF CursesSigint, CursesSigsegv, At, CardInv
  <2>2. stack[1] # "atexit"
    BY <2>1 DEF CardInv, Booting
  <2> QED
    BY <1>2, <2>1, <2>2, ExitStep DEF CursesSigint, CursesSigsegv, Handler, outside, device
<1>3. CASE NocursesSigint \/ NocursesSigsegv
  <2>1. /\ stack # << >> /\ stack[1] \notin Early \union {"atexit"}
        /\ stack' # << >> /\ stack'[1] = stack[1] /\ Stacked(stack')
    BY <1>1, <1>3, OverStep DEF NocursesSigint, NocursesSigsegv, Step
  <2>2. UNCHANGED <<installed, end, card, lost>>
    BY <1>3 DEF NocursesSigint, NocursesSigsegv, Step, Handler, outside, device
  <2> QED
    BY <2>1, <2>2, Climb DEF Tidy
<1> QED
  BY <1>2, <1>3 DEF Handler

LEMMA LeavingStep == CardInv /\ Leaving => CardInv'
<1> SUFFICES ASSUME CardInv, Leaving PROVE CardInv'
  OBVIOUS
<1> USE Places DEF Early, Leaves
<1>1. UNCHANGED <<card, lost, buffered>>
  BY DEF Leaving, outside, device
<1>2. CASE Fails("leave")
  <2>1. stack # << >> /\ stack[1] = "leave"
    BY <1>2, Alone DEF Fails, At, CardInv
  <2> QED
    BY <1>1, <1>2, <2>1, ExitStep DEF Fails
<1>3. CASE Step("exit", "exit.sys")
  <2>1. /\ stack # << >> /\ stack[1] = "exit"
        /\ stack' # << >> /\ stack'[1] = "exit.sys" /\ Len(stack') = 1 /\ Stacked(stack')
    BY <1>3, MainStep DEF Step
  <2> QED
    BY <1>1, <1>3, <2>1 DEF Step, CardInv, Alive, Booting, StandsBy, ResetOnExit
<1>4. CASE At("last") /\ Dies("exit")
  <2>1. stack # << >> /\ stack[1] = "last"
    BY <1>4, Alone DEF At, CardInv
  <2> QED
    BY <1>1, <1>4, <2>1, Death
<1> QED
  BY <1>2, <1>3, <1>4 DEF Leaving

LEMMA InterruptStep == CardInv /\ Interrupt => CardInv'
<1> SUFFICES ASSUME CardInv, Interrupt PROVE CardInv'
  OBVIOUS
<1>1. UNCHANGED <<card, lost, installed>> /\ stack # << >>
  BY DEF Interrupt, device
<1>2. CASE "INT" \in installed
  <2>1. stack' = Append(stack, "int") /\ end' = end
    BY <1>2 DEF Interrupt, Caught
  <2>2. Stacked(stack') /\ stack' # << >> /\ stack'[1] = stack[1]
    BY <1>1, <2>1, Pushed DEF CardInv, Over
  <2>3. stack[1] \notin Early \union {"atexit"}
    BY <1>1, <1>2 DEF CardInv, Booting
  <2> QED
    BY <1>1, <2>1, <2>2, <2>3, Climb DEF Tidy
<1>3. CASE "INT" \notin installed
  BY <1>1, <1>3, Death DEF Interrupt, Caught
<1> QED
  BY <1>2, <1>3

LEMMA CardStep == CardInv /\ [Next]_vars => CardInv'
<1> SUFFICES ASSUME CardInv, [Next]_vars PROVE CardInv'
  OBVIOUS
<1>1. CASE Boot
  BY <1>1, BootStep
<1>2. CASE ResetPhi
  BY <1>2, SystemStep DEF ResetPhi, Micctrl
<1>3. CASE InterruptMicctrl
  BY <1>3, SystemStep DEF InterruptMicctrl
<1>4. CASE LoopFaults \/ MainLoop
  BY <1>4, LoopStep
<1>5. CASE DumpOpen \/ DumpWrite \/ DumpFaults
  BY <1>5, DumpStep
<1>6. CASE Handler
  BY <1>6, HandlerStep
<1>7. CASE Leaving
  BY <1>7, LeavingStep
<1>8. CASE Interrupt
  BY <1>8, InterruptStep
<1>9. CASE CardReady
  BY <1>9 DEF CardReady, process, CardInv, Alive, Booting, StandsBy, ResetOnExit
<1>10. CASE UNCHANGED vars
  BY <1>10 DEF vars, process, outside, device, CardInv, Alive, Booting, StandsBy, ResetOnExit
<1> QED
  BY <1>1, <1>2, <1>3, <1>4, <1>5, <1>6, <1>7, <1>8, <1>9, <1>10 DEF Next, Process

(* Every reachable state keeps the invariant. *)
LEMMA CardAlways == Spec => []CardInv
BY InitCard, CardStep, PTL DEF Spec

(* A process that ends by exit() leaves the card reset, unless micctrl has *)
(* failed: for any number of interrupts, in the middle of whatever.        *)
THEOREM CardLeftReset == Spec => []ResetOnExit
<1>1. CardInv => ResetOnExit
  BY DEF CardInv
<1> QED
  BY <1>1, CardAlways, PTL

(* The boot string is written to a card that is ready, whatever was read   *)
(* before: boot_phi returns to main with the card running the kernel, or   *)
(* ready and with a string refused that nobody misses.                     *)
THEOREM BootsACard == Spec => []ConsoleHasCard
<1>1. CardInv => ConsoleHasCard
  BY DEF CardInv, Booting, ConsoleHasCard
<1> QED
  BY <1>1, CardAlways, PTL

-----------------------------------------------------------------------------
(* As long as no handler has come to its end, a card that has taken the    *)
(* boot string runs our kernel from then on.                               *)
LogInv ==
  ~returned /\ ~refused =>
    /\ log # "dead"
    /\ stack # << >> /\ stack[1] \notin Early => card = "ours"

(* The bottom of the stack after a step, and the card under it.            *)
Bottoms ==
  /\ returned => returned'
  /\ refused => refused'
  /\ \/ returned' \/ refused'
     \/ stack' = << >>
     \/ stack'[1] \in Early
     \/ card' = "ours"
     \/ stack # << >> /\ stack[1] \notin Early /\ (card = "ours" => card' = "ours")

LEMMA ExitBottom ==
  ASSUME CardInv, stack # << >>, Exit, UNCHANGED <<card, refused, returned>>
  PROVE  Bottoms
<1>1. CASE "exit" \in installed
  <2>1. stack[1] \notin Early
    BY <1>1 DEF CardInv, Booting
  <2> QED
    BY <2>1 DEF Bottoms
<1>2. CASE "exit" \notin installed
  BY <1>2 DEF Exit, Dies, Bottoms
<1> QED
  BY <1>1, <1>2

LEMMA FaultBottom ==
  ASSUME CardInv, stack # << >>, Segfault, UNCHANGED <<card, refused, returned>>
  PROVE  Bottoms
<1>1. CASE "SEGV" \in installed \ masked
  <2>1. stack[1] \notin Early
    BY <1>1 DEF CardInv, Booting
  <2> QED
    BY <2>1 DEF Bottoms
<1>2. CASE "SEGV" \notin installed \ masked
  BY <1>2 DEF Segfault, Dies, Bottoms
<1> QED
  BY <1>1, <1>2

(* A frame that is not one of the boot's.                                  *)
LEMMA LateFrame ==
  ASSUME CardInv, NEW f, At(f), f \notin Early
  PROVE  stack # << >> /\ stack[1] \notin Early
<1>1. stack # << >> /\ Last(stack) = f /\ Stacked(stack)
  BY DEF At, CardInv
<1>2. CASE Len(stack) = 1
  BY <1>1, <1>2 DEF Last
<1>3. CASE Len(stack) # 1
  BY <1>1, <1>3 DEF CardInv, Booting
<1> QED
  BY <1>1, <1>2, <1>3

LEMMA BootBottom == CardInv /\ Boot => Bottoms
<1> SUFFICES ASSUME CardInv, Boot PROVE Bottoms
  OBVIOUS
<1> USE Places
<1>1. CASE Options \/ StatImages \/ SetupScreen
  <2>1. UNCHANGED <<card, refused, returned>>
    BY <1>1 DEF Options, StatImages, SetupScreen, outside, device
  <2>2. CASE Fails("options") \/ Fails("stat") \/ Fails("screen")
    BY <2>1, <2>2, ExitBottom DEF Fails, At
  <2>3. CASE Step("options", "map") \/ Step("stat", "open")
    <3>1. stack'[1] \in Early
      BY <2>3, MainStep DEF Step, Early
    <3> QED
      BY <2>1, <3>1 DEF Bottoms
  <2>4. CASE Step("screen", "loop")
    BY <2>1, <2>4, LateFrame DEF Step, Bottoms, Early
  <2> QED
    BY <1>1, <2>2, <2>3, <2>4 DEF Options, StatImages, SetupScreen
<1>2. CASE OpenState
  <2>1. UNCHANGED <<card, refused, returned>>
    BY <1>2 DEF OpenState, outside, device
  <2>2. CASE At("open") /\ Segfault
    BY <2>1, <2>2, FaultBottom DEF At
  <2>3. CASE Step("open", "read")
    <3>1. stack'[1] \in Early
      BY <2>3, MainStep DEF Step, Early
    <3> QED
      BY <2>1, <3>1 DEF Bottoms
  <2> QED
    BY <1>2, <2>2, <2>3 DEF OpenState
<1>3. CASE MapPhi
  <2>1. stack'[1] \in Early /\ UNCHANGED <<refused, returned>>
    BY <1>3, MainStep DEF MapPhi, Step, Early, device
  <2> QED
    BY <2>1 DEF Bottoms
<1>4. CASE ReadState
  <2>1. PICK g \in {"write", "boot.sys"} : Step("read", g)
    BY <1>4 DEF ReadState
  <2>2. stack'[1] \in Early
    BY <2>1, MainStep DEF Step, Early
  <2>3. UNCHANGED <<refused, returned>>
    BY <1>4 DEF ReadState, outside, device
  <2> QED
    BY <2>2, <2>3 DEF Bottoms
<1>5. CASE RereadState
  <2>1. PICK g \in {"write", "wait"} : Step("wait", g)
    BY <1>5 DEF RereadState
  <2>2. stack'[1] \in Early
    BY <2>1, MainStep DEF Step, Early
  <2>3. UNCHANGED <<refused, returned>>
    BY <1>5 DEF RereadState, device
  <2> QED
    BY <2>2, <2>3 DEF Bottoms
<1>6. CASE WriteBoot
  <2>1. "write" \in Base /\ "atexit" \in Base /\ Goto("atexit") /\ At("write")
    BY <1>6 DEF WriteBoot, Step, Early
  <2>2. stack # << >> /\ stack[1] = "write"
    BY <2>1, MainStep
  <2>3. card' = "ours" \/ refused'
    BY <1>6, <2>2 DEF CardInv, Booting, WriteBoot
  <2> QED
    BY <1>6, <2>3 DEF Bottoms, WriteBoot
<1>7. CASE ConsoleInit
  <2>1. stack # << >> /\ stack[1] \notin Early
    BY <1>7, LateFrame DEF ConsoleInit, AtExit, SignalInt, SignalSegv, Install, Early
  <2>2. UNCHANGED <<card, refused, returned>>
    BY <1>7 DEF ConsoleInit, AtExit, SignalInt, SignalSegv, Install, outside, device
  <2> QED
    BY <2>1, <2>2 DEF Bottoms
<1>8. CASE MapSbox
  BY <1>8, LateFrame DEF MapSbox, Step, device, Early, Bottoms
<1> QED
  BY <1>1, <1>2, <1>3, <1>4, <1>5, <1>6, <1>7, <1>8 DEF Boot

LEMMA SystemBottom ==
  ASSUME CardInv, ResetPhi \/ InterruptMicctrl
  PROVE  Bottoms
<1>r. refused' = refused
  BY DEF ResetPhi, InterruptMicctrl
<1>1. CASE At("boot.sys") /\ Goto("wait") /\ UNCHANGED returned
  <2>1. stack'[1] = "wait"
    BY <1>1, Places, MainStep DEF Early
  <2> QED
    BY <1>r, <1>1, <2>1 DEF Bottoms, Early
<1>2. CASE returned'
  BY <1>r, <1>2 DEF Bottoms
<1> QED
  BY <1>1, <1>2 DEF ResetPhi, InterruptMicctrl, AfterSystem

LEMMA StepBottom == CardInv /\ [Next]_vars => Bottoms
<1> SUFFICES ASSUME CardInv, [Next]_vars PROVE Bottoms
  OBVIOUS
<1>1. CASE Boot
  BY <1>1, BootBottom
<1>2. CASE ResetPhi \/ InterruptMicctrl
  BY <1>2, SystemBottom
<1>3. CASE LoopFaults \/ MainLoop \/ DumpOpen \/ DumpWrite \/ DumpFaults \/ Handler \/ Leaving
  <2>1. PICK f \in {"loop", "dump", "walk", "int", "segv", "leave", "exit", "last"} : At(f)
    <3>1. CASE LoopFaults \/ MainLoop
      BY <3>1 DEF LoopFaults, MainLoop, Loops, LineSaved, LoopFails, LoopAborts,
                  LoopShutdown, KeyInterrupt, KeyDump
    <3>2. CASE DumpOpen \/ DumpWrite \/ DumpFaults
      BY <3>2 DEF DumpOpen, DumpWrite, DumpFaults, Step, Fails
    <3>3. CASE Handler \/ Leaving
      BY <3>3 DEF Handler, CursesSigint, NocursesSigint, CursesSigsegv, NocursesSigsegv,
                  Leaving, Step, Fails
    <3> QED
      BY <1>3, <3>1, <3>2, <3>3
  <2>2. stack # << >> /\ stack[1] \notin Early
    BY <2>1, LateFrame DEF Early
  <2>3. UNCHANGED <<card, refused, returned>>
    BY <1>3 DEF LoopFaults, MainLoop, LineSaved, LoopFails, LoopAborts, LoopShutdown,
                KeyInterrupt, KeyDump, DumpOpen, DumpWrite, DumpFaults, Handler, Leaving,
                outside, device
  <2> QED
    BY <2>2, <2>3 DEF Bottoms
<1>4. CASE Interrupt
  <2>1. UNCHANGED <<card, refused, returned>> /\ stack # << >>
    BY <1>4 DEF Interrupt, device
  <2>2. CASE "INT" \in installed
    BY <2>1, <2>2 DEF CardInv, Booting, Bottoms
  <2>3. CASE "INT" \notin installed
    BY <1>4, <2>1, <2>3 DEF Interrupt, Caught, Dies, Bottoms
  <2> QED
    BY <2>2, <2>3
<1>5. CASE CardReady
  <2>1. card # "ours" /\ UNCHANGED <<stack, refused, returned>>
    BY <1>5 DEF CardReady, process
  <2> QED
    BY <2>1 DEF Bottoms
<1>6. CASE UNCHANGED vars
  BY <1>6 DEF vars, process, outside, device, Bottoms
<1> QED
  BY <1>1, <1>2, <1>3, <1>4, <1>5, <1>6 DEF Next, Process

LEMMA LogStep == CardInv /\ LogInv /\ [Next]_vars => LogInv'
<1> SUFFICES ASSUME CardInv, LogInv, [Next]_vars, ~returned', ~refused' PROVE LogInv'
  BY DEF LogInv
<1>1. Bottoms /\ ~returned /\ ~refused
  BY StepBottom DEF Bottoms
<1>2. stack' # << >> /\ stack'[1] \notin Early => card' = "ours"
  BY <1>1 DEF Bottoms, LogInv
<1>3. log' # "dead"
  <2>1. CASE DumpWrite
    <3>1. stack # << >> /\ stack[1] \notin Early
      BY <2>1, LateFrame DEF DumpWrite, Early
    <3> QED
      BY <1>1, <2>1, <3>1 DEF LogInv, DumpWrite
  <2>2. CASE DumpOpen
    BY <1>1, <2>2 DEF LogInv, DumpOpen
  <2>3. CASE ~ DumpWrite /\ ~ DumpOpen
    <3> SUFFICES log' = log
      BY <1>1 DEF LogInv
    <3>1. CASE Boot
      BY <3>1 DEF Boot, Options, MapPhi, StatImages, OpenState, ReadState, RereadState,
                  WriteBoot, ConsoleInit, AtExit, SignalInt, SignalSegv, Install,
                  MapSbox, SetupScreen, outside
    <3>2. CASE ResetPhi \/ InterruptMicctrl \/ Interrupt \/ CardReady
      BY <3>2 DEF ResetPhi, InterruptMicctrl, Interrupt, CardReady
    <3>3. CASE MainLoop \/ LoopFaults
      BY <3>3 DEF MainLoop, LineSaved, LoopFails, LoopAborts, LoopShutdown, KeyInterrupt,
                  KeyDump, LoopFaults, outside
    <3>4. CASE DumpFaults \/ Handler \/ Leaving \/ UNCHANGED vars
      BY <3>4 DEF DumpFaults, Handler, Leaving, vars, outside
    <3> QED
      BY <2>3, <3>1, <3>2, <3>3, <3>4 DEF Next, Process
  <2> QED
    BY <2>1, <2>2, <2>3
<1> QED
  BY <1>2, <1>3 DEF LogInv

(* What a step puts on top of the stack.                                   *)
LEMMA Tops ==
  ASSUME NEW s \in Seq(Frames), NEW f \in Frames
  PROVE  /\ Last(Append(s, f)) = f
         /\ \A g \in Frames : Last(s \o <<g, f>>) = f
         /\ Last(<<f>>) = f
<1>1. Last(Append(s, f)) = f
  BY DEF Last
<1>2. ASSUME NEW g \in Frames PROVE Last(s \o <<g, f>>) = f
  <2>1. Len(s \o <<g, f>>) = Len(s) + 2 /\ (s \o <<g, f>>)[Len(s) + 2] = f
    OBVIOUS
  <2> QED
    BY <2>1 DEF Last
<1>3. Last(<<f>>) = f
  BY DEF Last
<1> QED
  BY <1>1, <1>2, <1>3

LEMMA TopAfter ==
  ASSUME CardInv, stack # << >>, NEW f \in Frames, NEW g \in Frames,
         Goto(f) \/ Call(f, g) \/ stack' = Append(stack, f) \/ stack' = <<f>>
  PROVE  Last(stack') = f
<1>1. Stacked(stack) /\ stack \in Seq(Frames)
  BY DEF CardInv, Stacked
<1>2. Front(stack) \in Seq(Frames)
  BY <1>1, FrontOf
<1>3. CASE Goto(f)
  BY <1>2, <1>3, Tops DEF Goto
<1>4. CASE Call(f, g)
  BY <1>2, <1>4, Tops DEF Call
<1>5. CASE stack' = Append(stack, f) \/ stack' = <<f>>
  BY <1>1, <1>5, Tops
<1> QED
  BY <1>3, <1>4, <1>5

(* Before any handler has returned, nothing but the end of its dump takes  *)
(* the SIGINT handler to its reset.                                        *)
LEMMA NothingElseAnswers ==
  ASSUME CardInv, [Next]_vars, ~returned', ~DumpWrite
  PROVE  \/ stack' = << >> \/ Last(stack') # "int.sys"
         \/ UNCHANGED <<stack, log>>
<1> DEFINE Other == stack' = << >> \/ Last(stack') # "int.sys"
<1> USE DEF Frames, InSystem
<1>1. ASSUME stack # << >>, NEW f \in Frames \ {"int.sys"}, NEW g \in Frames,
             Goto(f) \/ Call(f, g) \/ stack' = Append(stack, f) \/ stack' = <<f>>
      PROVE  Other
  BY <1>1, TopAfter
<1>2. ASSUME stack # << >>, Exit PROVE Other
  BY <1>1, <1>2 DEF Exit, Dies
<1>3. ASSUME stack # << >>, Segfault PROVE Other
  BY <1>1, <1>3 DEF Segfault, Dies
<1>4. ASSUME NEW f, NEW g \in Frames \ {"int.sys"}, Step(f, g) PROVE Other
  BY <1>1, <1>4 DEF Step, At
<1>5. ASSUME NEW f, Fails(f) PROVE Other
  BY <1>2, <1>5 DEF Fails, At
<1>6. CASE Options \/ MapPhi \/ StatImages \/ OpenState \/ WriteBoot \/ SetupScreen
  BY <1>3, <1>4, <1>5, <1>6
  DEF Options, MapPhi, StatImages, OpenState, WriteBoot, SetupScreen, At
<1>7. CASE ReadState \/ RereadState \/ MapSbox
  <2>1. PICK f \in {"read", "wait", "sbox"},
             g \in {"write", "boot.sys", "wait", "loop", "screen"} : Step(f, g)
    BY <1>7 DEF ReadState, RereadState, MapSbox
  <2> QED
    BY <1>4, <2>1
<1>8. CASE ConsoleInit
  BY <1>1, <1>8 DEF ConsoleInit, AtExit, SignalInt, SignalSegv, Install, At
<1>9. CASE ResetPhi \/ InterruptMicctrl
  <2>1. At("boot.sys") /\ Goto("wait")
    BY <1>9 DEF ResetPhi, InterruptMicctrl, AfterSystem
  <2> QED
    BY <1>1, <2>1 DEF At
<1>10. CASE LoopFaults \/ KeyInterrupt \/ DumpFaults
  BY <1>3, <1>10 DEF LoopFaults, KeyInterrupt, DumpFaults, Loops, At
<1>11. CASE LoopFails \/ LoopAborts
  BY <1>2, <1>11 DEF LoopFails, LoopAborts, Dies, Loops, At
<1>12. CASE LoopShutdown \/ KeyDump
  BY <1>1, <1>12 DEF LoopShutdown, KeyDump, Loops, At
<1>13. CASE DumpOpen
  BY <1>4, <1>5, <1>13 DEF DumpOpen
<1>14. CASE Handler
  <2>1. CASE CursesSigint \/ CursesSigsegv
    BY <1>2, <2>1 DEF CursesSigint, CursesSigsegv, At
  <2>2. CASE NocursesSigint
    BY <1>1, <2>2 DEF NocursesSigint, At
  <2>3. CASE NocursesSigsegv
    BY <1>4, <2>3 DEF NocursesSigsegv
  <2> QED
    BY <1>14, <2>1, <2>2, <2>3 DEF Handler
<1>15. CASE Leaving
  BY <1>4, <1>5, <1>15 DEF Leaving, Dies
<1>16. CASE Interrupt
  <2>1. stack # << >> /\ (stack' = Append(stack, "int") \/ stack' = << >>)
    BY <1>16 DEF Interrupt, Dies
  <2> QED
    BY <1>1, <2>1
<1>17. CASE LineSaved \/ CardReady \/ UNCHANGED vars
  BY <1>17 DEF LineSaved, CardReady, vars, process, outside
<1> QED
  BY <1>6, <1>7, <1>8, <1>9, <1>10, <1>11, <1>12, <1>13, <1>14, <1>15, <1>16, <1>17
  DEF Next, Process, Boot, MainLoop

(* The first interrupt answered by a reset has dumped a live card.         *)
AnswerInv == ~returned /\ ~refused /\ At("int.sys") => log = "live"

LEMMA AnswerStep ==
  CardInv /\ LogInv /\ AnswerInv /\ [Next]_vars => AnswerInv'
<1> SUFFICES ASSUME CardInv, LogInv, AnswerInv, [Next]_vars,
                    ~returned', ~refused', At("int.sys")'
             PROVE  log' = "live"
  BY DEF AnswerInv
<1>1. ~returned /\ ~refused
  BY StepBottom DEF Bottoms
<1>2. CASE DumpWrite
  <2>1. stack # << >> /\ stack[1] \notin Early
    BY <1>2, LateFrame DEF DumpWrite, Early
  <2> QED
    BY <1>1, <1>2, <2>1 DEF LogInv, DumpWrite
<1>3. CASE ~DumpWrite
  <2>1. stack' # << >> /\ Last(stack') = "int.sys"
    BY DEF At
  <2>2. UNCHANGED <<stack, log>>
    BY <1>3, <2>1, NothingElseAnswers
  <2> QED
    BY <1>1, <2>1, <2>2 DEF AnswerInv, At
<1> QED
  BY <1>2, <1>3

-----------------------------------------------------------------------------
(* The frames above the bottom.                                            *)
High(s) == {s[i] : i \in 2..Len(s)}

LEMMA HighOf ==
  ASSUME NEW s, Stacked(s), s # << >>, NEW f \in Over
  PROVE  /\ High(Append(s, f)) \subseteq High(s) \union {f}
         /\ Len(s) >= 2 => /\ High(Front(s)) \subseteq High(s)
                           /\ High(Append(Front(s), f)) \subseteq High(s) \union {f}
                           /\ Last(s) \in High(s)
<1>1. f \in Frames /\ s \in Seq(Frames) /\ Len(s) \in Nat \ {0}
  BY DEF Stacked, Over, Frames, InSystem
<1>2. ASSUME NEW t \in Seq(Frames), NEW n \in Nat, n <= Len(s), Len(t) = n,
             \A i \in 1..n : t[i] = s[i]
      PROVE  /\ High(t) \subseteq High(s)
             /\ High(Append(t, f)) \subseteq High(s) \union {f}
  <2>1. \A i \in 2..n : i \in 1..n /\ i \in 2..Len(s)
    BY <1>1, <1>2
  <2>2. High(t) \subseteq High(s)
    BY <1>2, <2>1 DEF High
  <2>3. PICK u : u = Append(t, f)
    OBVIOUS
  <2>4. /\ Len(u) = n + 1 /\ u[n + 1] = f
        /\ \A i \in 1..n : u[i] = s[i]
    BY <1>1, <1>2, <2>3
  <2>5. \A i \in 2..(n + 1) : i = n + 1 \/ i \in 2..n
    OBVIOUS
  <2>6. High(u) \subseteq High(s) \union {f}
    BY <2>1, <2>4, <2>5 DEF High
  <2> QED
    BY <2>2, <2>3, <2>6
<1>3. High(Append(s, f)) \subseteq High(s) \union {f}
  BY <1>1, <1>2
<1>4. ASSUME Len(s) >= 2
      PROVE  /\ High(Front(s)) \subseteq High(s)
             /\ High(Append(Front(s), f)) \subseteq High(s) \union {f}
             /\ Last(s) \in High(s)
  <2>1. /\ Front(s) \in Seq(Frames) /\ Len(s) - 1 \in Nat /\ Len(s) - 1 <= Len(s)
        /\ Len(Front(s)) = Len(s) - 1 /\ \A i \in 1..(Len(s) - 1) : Front(s)[i] = s[i]
    BY <1>1, FrontOf
  <2>2. Last(s) = s[Len(s)] /\ Len(s) \in 2..Len(s)
    BY <1>1, <1>4 DEF Last
  <2> QED
    BY <1>2, <2>1, <2>2 DEF High
<1> QED
  BY <1>3, <1>4

LEMMA HighTiny ==
  /\ \A s : Len(s) \in {0, 1} => High(s) = {}
  /\ \A g : High(<<g, "dump">>) \subseteq {"dump"}
<1>1. \A s : Len(s) \in {0, 1} => High(s) = {}
  BY DEF High
<1>2. ASSUME NEW g PROVE High(<<g, "dump">>) \subseteq {"dump"}
  <2>1. Len(<<g, "dump">>) = 2 /\ <<g, "dump">>[2] = "dump" /\ \A i \in 2..2 : i = 2
    OBVIOUS
  <2> QED
    BY <2>1 DEF High
<1> QED
  BY <1>1, <1>2

(* The exit handler is called once; in curses mode no handler resets the   *)
(* card but that one, and a dump stands on the main loop alone.            *)
CursesInv ==
  /\ stack # << >> /\ stack[1] \in Leaves => "exit" \notin installed
  /\ ~opts.nocurses =>
       /\ High(stack) \cap {"int.sys", "segv.sys"} = {}
       /\ High(stack) \cap {"dump", "walk"} # {} => stack[1] \in {"loop", "leave"}
       /\ returned /\ stack # << >> => stack[1] = "last"

LEMMA CursesStep == CardInv /\ CursesInv /\ [Next]_vars => CursesInv'
<1> SUFFICES ASSUME CardInv, CursesInv, [Next]_vars PROVE CursesInv'
  OBVIOUS
<1> USE Places DEF Early, Leaves
<1>o. opts' = opts
  BY DEF Next, Process, Boot, Options, MapPhi, StatImages, OpenState, ReadState,
         RereadState, WriteBoot, ConsoleInit, AtExit, SignalInt, SignalSegv, Install,
         MapSbox, SetupScreen, ResetPhi, LoopFaults, DumpOpen, DumpWrite, DumpFaults,
         Handler, Leaving, CardReady, MainLoop, LineSaved, LoopFails, LoopAborts,
         LoopShutdown, KeyInterrupt, KeyDump, Interrupt, InterruptMicctrl, vars, outside
<1>d. ASSUME stack' = << >> PROVE CursesInv'
  BY <1>d, HighTiny DEF CursesInv
<1>e. ASSUME stack # << >>, Exit, returned' = returned PROVE CursesInv'
  <2>1. CASE "exit" \in installed
    <3>1. stack' = <<"exit">> /\ installed' = installed \ {"exit"}
      BY <1>e, <2>1 DEF Exit
    <3>2. Len(stack') = 1 /\ stack'[1] = "exit" /\ High(stack') = {}
      BY <3>1, HighTiny
    <3>3. ~opts.nocurses => ~returned
      BY <1>e, <2>1 DEF CursesInv
    <3> QED
      BY <1>e, <1>o, <3>1, <3>2, <3>3 DEF CursesInv
  <2>2. CASE "exit" \notin installed
    BY <1>d, <1>e, <2>2 DEF Exit, Dies
  <2> QED
    BY <2>1, <2>2
<1>h. ASSUME stack # << >>, stack' # << >>, stack'[1] = stack[1],
             UNCHANGED <<installed, returned>>,
             ~opts.nocurses =>
               \/ High(stack') \subseteq High(stack) \union {"int", "segv"}
               \/ High(stack') \subseteq High(stack) \union {"walk"} /\ "dump" \in High(stack)
      PROVE  CursesInv'
  BY <1>h, <1>o DEF CursesInv
<1>s. ASSUME stack # << >>, Segfault, returned' = returned PROVE CursesInv'
  <2>1. CASE "SEGV" \in installed \ masked
    <3>1. stack' = Append(stack, "segv") /\ UNCHANGED installed /\ "segv" \in Over
      BY <1>s, <2>1 DEF Segfault, Over
    <3>2. /\ stack' # << >> /\ stack'[1] = stack[1]
          /\ High(stack') \subseteq High(stack) \union {"segv"}
      BY <1>s, <3>1, Pushed, HighOf DEF CardInv
    <3> QED
      BY <1>h, <1>s, <3>1, <3>2
  <2>2. CASE "SEGV" \notin installed \ masked
    BY <1>d, <1>s, <2>2 DEF Segfault, Dies
  <2> QED
    BY <2>1, <2>2
<1>m. ASSUME NEW f \in Base, NEW g \in Base, At(f), Goto(g), f # "last",
             \/ g \notin Leaves /\ returned' = returned
             \/ f \in Leaves /\ g \in Leaves /\ UNCHANGED <<installed, returned>>
             \/ f \in Leaves /\ g = "last" /\ UNCHANGED installed
      PROVE  CursesInv'
  <2>1. /\ stack # << >> /\ stack[1] = f
        /\ stack' # << >> /\ stack'[1] = g /\ Len(stack') = 1
    BY <1>m, MainStep
  <2>2. High(stack') = {}
    BY <2>1, HighTiny
  <2>3. ~opts.nocurses => ~returned
    BY <1>m, <2>1 DEF CursesInv
  <2> QED
    BY <1>m, <1>o, <2>1, <2>2, <2>3 DEF CursesInv
<1>1. CASE Options \/ StatImages \/ SetupScreen
  BY <1>1, <1>e, <1>m
  DEF Options, StatImages, SetupScreen, Step, Fails, At, outside
<1>2. CASE MapPhi \/ WriteBoot
  BY <1>2, <1>m DEF MapPhi, WriteBoot, Step
<1>3. CASE OpenState
  BY <1>3, <1>m, <1>s DEF OpenState, Step, At, outside
<1>4. CASE ReadState \/ RereadState \/ MapSbox
  <2>1. PICK f \in {"read", "wait", "sbox"},
             g \in {"write", "boot.sys", "wait", "loop", "screen"} : Step(f, g)
    BY <1>4 DEF ReadState, RereadState, MapSbox
  <2>2. returned' = returned
    BY <1>4 DEF ReadState, RereadState, MapSbox, outside
  <2> QED
    BY <1>m, <2>1, <2>2 DEF Step
<1>5. CASE ConsoleInit
  BY <1>5, <1>m DEF ConsoleInit, AtExit, SignalInt, SignalSegv, Install, outside
<1>6. CASE ResetPhi \/ InterruptMicctrl
  <2>1. AfterSystem /\ UNCHANGED installed
    BY <1>6 DEF ResetPhi, InterruptMicctrl
  <2>2. CASE At("boot.sys") /\ Goto("wait") /\ UNCHANGED <<masked, returned>>
    BY <1>m, <2>2
  <2>3. CASE At("exit.sys") /\ Goto("last")
    BY <1>m, <2>1, <2>3
  <2>4. CASE (At("int.sys") \/ At("segv.sys")) /\ Return
    <3>1. "int.sys" \in Over /\ "segv.sys" \in Over
      BY DEF Over
    <3>2. /\ stack # << >> /\ Stacked(stack) /\ Len(stack) >= 2
          /\ Last(stack) \in {"int.sys", "segv.sys"}
      BY <2>4, <3>1, Alone DEF At, CardInv
    <3>3. opts.nocurses
      BY <3>1, <3>2, HighOf DEF CursesInv
    <3>4. stack' # << >> /\ stack'[1] = stack[1]
      BY <2>4, <3>1, OverStep
    <3> QED
      BY <1>o, <2>1, <3>2, <3>3, <3>4 DEF CursesInv
  <2> QED
    BY <2>1, <2>2, <2>3, <2>4 DEF AfterSystem
<1>7. CASE LoopFaults \/ KeyInterrupt \/ DumpFaults
  BY <1>7, <1>s DEF LoopFaults, KeyInterrupt, DumpFaults, Loops, At, outside
<1>8. CASE LineSaved \/ CardReady \/ UNCHANGED vars
  BY <1>8, <1>o DEF LineSaved, CardReady, vars, process, outside, CursesInv
<1>9. CASE LoopFails \/ LoopAborts
  BY <1>9, <1>d, <1>e DEF LoopFails, LoopAborts, Dies, Loops, At, outside
<1>10. CASE LoopShutdown \/ KeyDump
  <2>1. At("loop") /\ UNCHANGED <<installed, returned>>
    BY <1>10 DEF LoopShutdown, KeyDump, Loops, outside
  <2>2. CASE Goto("leave")
    BY <1>m, <2>1, <2>2
  <2>3. CASE Call("dump", "leave") \/ Call("dump", "loop")
    <3>1. PICK g \in {"leave", "loop"} : Call("dump", g)
      BY <2>3
    <3>2. Stacked(stack) /\ stack # << >> /\ Len(stack) = 1 /\ stack[1] = "loop"
      BY <2>1, Alone DEF At, CardInv
    <3>3. "dump" \in Over /\ g \in Base
      BY DEF Over
    <3>4. stack' = <<g, "dump">>
      BY <3>1, <3>2, <3>3, Bottom DEF Call
    <3>5. stack'[1] = g /\ stack' # << >> /\ High(stack') \subseteq {"dump"}
      BY <3>4, HighTiny
    <3>6. ~opts.nocurses => ~returned
      BY <3>2 DEF CursesInv
    <3> QED
      BY <1>o, <2>1, <3>5, <3>6 DEF CursesInv
  <2> QED
    BY <1>10, <2>2, <2>3 DEF LoopShutdown, KeyDump
<1>11. CASE DumpOpen
  <2>1. CASE Fails("dump")
    BY <1>11, <1>e, <2>1 DEF DumpOpen, Fails, At
  <2>2. CASE Step("dump", "walk")
    <3>1. "dump" \in Over /\ "walk" \in Over
      BY DEF Over
    <3>2. stack # << >> /\ Stacked(stack) /\ Len(stack) >= 2 /\ Last(stack) = "dump"
      BY <2>2, <3>1, Alone DEF Step, At, CardInv
    <3>3. /\ stack' = Append(Front(stack), "walk")
          /\ High(stack') \subseteq High(stack) \union {"walk"} /\ "dump" \in High(stack)
      BY <2>2, <3>1, <3>2, HighOf DEF Step, Goto
    <3>4. stack' # << >> /\ stack'[1] = stack[1]
      BY <2>2, <3>1, OverStep DEF Step
    <3> QED
      BY <1>11, <1>h, <2>2, <3>2, <3>3, <3>4 DEF Step, DumpOpen
  <2> QED
    BY <1>11, <2>1, <2>2 DEF DumpOpen
<1>12. CASE DumpWrite
  <2>1. "walk" \in Over
    BY DEF Over
  <2>2. stack # << >> /\ Stacked(stack) /\ Len(stack) >= 2
    BY <1>12, <2>1, Alone DEF DumpWrite, At, CardInv
  <2>3. High(stack') \subseteq High(stack)
    BY <1>12, <2>1, <2>2, HighOf DEF DumpWrite, Return
  <2>4. stack' # << >> /\ stack'[1] = stack[1]
    BY <1>12, <2>1, OverStep DEF DumpWrite
  <2> QED
    BY <1>12, <1>h, <2>2, <2>3, <2>4 DEF DumpWrite
<1>13. CASE Handler
  <2>1. returned' = returned
    BY <1>13 DEF Handler, outside
  <2>2. CASE CursesSigint \/ CursesSigsegv
    BY <1>e, <2>1, <2>2 DEF CursesSigint, CursesSigsegv, At
  <2>3. CASE NocursesSigint \/ NocursesSigsegv
    <3>1. {"int", "segv", "int.sys", "segv.sys", "dump"} \subseteq Over
      BY DEF Over
    <3>2. stack # << >> /\ stack' # << >> /\ stack'[1] = stack[1]
      BY <2>3, <3>1, OverStep DEF NocursesSigint, NocursesSigsegv, Step
    <3>3. opts.nocurses /\ UNCHANGED installed
      BY <2>3 DEF NocursesSigint, NocursesSigsegv, Step
    <3> QED
      BY <1>h, <2>1, <3>2, <3>3
  <2> QED
    BY <1>13, <2>2, <2>3 DEF Handler
<1>14. CASE Leaving
  <2>1. returned' = returned
    BY <1>14 DEF Leaving, outside
  <2>2. CASE Fails("leave")
    BY <1>e, <2>1, <2>2 DEF Fails, At
  <2>3. CASE Step("exit", "exit.sys")
    BY <1>m, <2>1, <2>3 DEF Step
  <2>4. CASE Dies("exit")
    BY <1>d, <2>4 DEF Dies
  <2> QED
    BY <1>14, <2>2, <2>3, <2>4 DEF Leaving
<1>15. CASE Interrupt
  <2>1. stack # << >> /\ UNCHANGED <<installed, returned>>
    BY <1>15 DEF Interrupt
  <2>2. CASE stack' = Append(stack, "int")
    <3>1. "int" \in Over
      BY DEF Over
    <3>2. /\ stack' # << >> /\ stack'[1] = stack[1]
          /\ High(stack') \subseteq High(stack) \union {"int"}
      BY <2>1, <2>2, <3>1, Pushed, HighOf DEF CardInv
    <3> QED
      BY <1>h, <2>1, <3>2
  <2>3. CASE stack' = << >>
    BY <1>d, <2>3
  <2> QED
    BY <1>15, <2>2, <2>3 DEF Interrupt, Dies
<1> QED
  BY <1>1, <1>2, <1>3, <1>4, <1>5, <1>6, <1>7, <1>8, <1>9, <1>10, <1>11, <1>12,
     <1>13, <1>14, <1>15
  DEF Next, Process, Boot, MainLoop

(* What is in the file.                                                    *)
FileInv == log = "dead" => refused \/ (opts.nocurses /\ returned)

LEMMA FileStep ==
  CardInv /\ LogInv /\ CursesInv /\ FileInv /\ [Next]_vars => FileInv'
<1> SUFFICES ASSUME CardInv, LogInv, CursesInv, FileInv, [Next]_vars,
                    log' = "dead", ~refused'
             PROVE  opts'.nocurses /\ returned'
  BY DEF FileInv
<1>1. (returned => returned') /\ ~refused
  BY StepBottom DEF Bottoms
<1>2. CASE DumpWrite
  <2>1. card # "ours" /\ opts' = opts
    BY <1>2 DEF DumpWrite
  <2>2. stack # << >> /\ stack[1] \notin Early
    BY <1>2, LateFrame DEF DumpWrite, Early
  <2>3. returned
    BY <1>1, <2>1, <2>2 DEF LogInv
  <2>4. "walk" \in High(stack)
    <3>1. "walk" \in Over
      BY DEF Over
    <3>2. Stacked(stack) /\ Len(stack) >= 2 /\ Last(stack) = "walk"
      BY <1>2, <2>2, <3>1, Alone DEF DumpWrite, At, CardInv
    <3> QED
      BY <2>2, <3>1, <3>2, HighOf
  <2> QED
    BY <1>1, <2>1, <2>2, <2>3, <2>4 DEF CursesInv
<1>3. CASE ~DumpWrite
  <2>1. log = "dead" /\ opts' = opts
    BY <1>3 DEF Next, Process, Boot, Options, MapPhi, StatImages, OpenState, ReadState,
         RereadState, WriteBoot, ConsoleInit, AtExit, SignalInt, SignalSegv, Install,
         MapSbox, SetupScreen, ResetPhi, LoopFaults, DumpOpen, DumpFaults,
         Handler, Leaving, CardReady, MainLoop, LineSaved, LoopFails, LoopAborts,
         LoopShutdown, KeyInterrupt, KeyDump, Interrupt, InterruptMicctrl, vars, outside
  <2> QED
    BY <1>1, <2>1 DEF FileInv
<1> QED
  BY <1>2, <1>3

(* If the card was booted, a dump in curses mode shows its output and not  *)
(* what a reset has left of it, in whatever the dump is called,            *)
(* interrupted or faults; and in batch mode the first reset by a SIGINT    *)
(* handler comes after its dump of the live card.                          *)
THEOREM LogShowsLiveCard == Spec => []LogOfLiveCard
<1> DEFINE IInv == LogInv /\ AnswerInv /\ CursesInv /\ FileInv
<1>1. Init => IInv
  <2> SUFFICES ASSUME Init PROVE IInv
    OBVIOUS
  <2>1. /\ stack = <<"options">> /\ log = "none" /\ ~returned
        /\ Len(stack) = 1 /\ stack[1] = "options" /\ Last(stack) = "options"
    BY DEF Init, Last
  <2>2. High(stack) = {}
    BY <2>1, HighTiny
  <2> QED
    BY <2>1, <2>2 DEF LogInv, AnswerInv, CursesInv, FileInv, At, Early, Leaves
<1>2. CardInv /\ IInv /\ [Next]_vars => IInv'
  BY LogStep, AnswerStep, CursesStep, FileStep
<1>3. IInv => LogOfLiveCard
  BY DEF LogInv, AnswerInv, FileInv, LogOfLiveCard
<1> HIDE DEF IInv
<1> QED
  BY <1>1, <1>2, <1>3, CardAlways, PTL DEF Spec

-----------------------------------------------------------------------------
(* How deep it gets: a handler is not interrupted by its own signal, and a *)
(* dump is called by the main loop or by the SIGINT handler.               *)
IntFrames  == {"int", "int.sys"}
SegvFrames == {"segv", "segv.sys"}
DumpFrames == {"dump", "walk"}

Nested(s, m) ==
  /\ \A i, j \in 2..Len(s) : s[i] \in IntFrames /\ s[j] \in IntFrames => i = j
  /\ \A i, j \in 2..Len(s) : s[i] \in SegvFrames /\ s[j] \in SegvFrames => i = j
  /\ \A i \in 3..Len(s) : s[i] \in DumpFrames => s[i - 1] = "int.sys"
  /\ \A i \in 2..Len(s) : s[i] \in IntFrames => "INT" \in m
  /\ \A i \in 2..Len(s) : s[i] \in SegvFrames => "SEGV" \in m

LEMMA NestedShort ==
  ASSUME NEW s, NEW m, Stacked(s), Nested(s, m)
  PROVE  Len(s) <= 5
<1> SUFFICES ASSUME Len(s) >= 6 PROVE FALSE
  BY DEF Stacked
<1>1. /\ Len(s) \in Nat
      /\ \A i \in 3..6 : s[i] \in IntFrames \union SegvFrames \union DumpFrames
  BY DEF Stacked, Over, IntFrames, SegvFrames, DumpFrames
<1>2. ASSUME NEW i \in 3..6, NEW j \in 3..6, i # j,
             s[i] \in DumpFrames, s[j] \in DumpFrames
      PROVE  FALSE
  <2>1. Len(s) \in Nat /\ i \in Nat /\ j \in Nat
    BY <1>1
  <2>2. /\ i - 1 \in 2..Len(s) /\ j - 1 \in 2..Len(s) /\ i - 1 # j - 1
        /\ i \in 3..Len(s) /\ j \in 3..Len(s)
    BY <1>2, <2>1
  <2>3. s[i - 1] = "int.sys" /\ s[j - 1] = "int.sys"
    BY <1>2, <2>2 DEF Nested
  <2> QED
    BY <2>2, <2>3 DEF Nested, IntFrames
<1>3. ASSUME NEW i \in 3..6, NEW j \in 3..6, i # j
      PROVE  /\ ~(s[i] \in IntFrames /\ s[j] \in IntFrames)
             /\ ~(s[i] \in SegvFrames /\ s[j] \in SegvFrames)
             /\ ~(s[i] \in DumpFrames /\ s[j] \in DumpFrames)
  <2>1. i \in 2..Len(s) /\ j \in 2..Len(s)
    BY <1>1
  <2> QED
    BY <1>2, <1>3, <2>1 DEF Nested
<1>4. 3 \in 3..6 /\ 4 \in 3..6 /\ 5 \in 3..6 /\ 6 \in 3..6
  OBVIOUS
<1> QED
  BY <1>1, <1>3, <1>4

LEMMA NestedTiny ==
  ASSUME NEW s, NEW m, Len(s) \in {0, 1}
  PROVE  Nested(s, m)
BY DEF Nested

LEMMA NestedDump ==
  ASSUME NEW g, NEW m
  PROVE  Nested(<<g, "dump">>, m)
<1>1. Len(<<g, "dump">>) = 2 /\ <<g, "dump">>[2] = "dump"
  OBVIOUS
<1>2. \A i \in 2..2 : i = 2
  OBVIOUS
<1> QED
  BY <1>1, <1>2 DEF Nested, IntFrames, SegvFrames

(* A handler is pushed, and its signal masked.                             *)
LEMMA NestedPush ==
  ASSUME NEW s, NEW m, Stacked(s), s # << >>, Nested(s, m)
  PROVE  /\ "INT" \notin m => Nested(Append(s, "int"), m \union {"INT"})
         /\ "SEGV" \notin m => Nested(Append(s, "segv"), m \union {"SEGV"})
<1>1. s \in Seq(Frames) /\ Len(s) \in Nat \ {0} /\ "int" \in Frames /\ "segv" \in Frames
  BY DEF Stacked, Frames, InSystem
<1>2. ASSUME NEW f \in {"int", "segv"}
      PROVE  /\ Len(Append(s, f)) = Len(s) + 1
             /\ \A i \in 1..Len(s) : Append(s, f)[i] = s[i]
             /\ Append(s, f)[Len(s) + 1] = f
  BY <1>1
<1>3. ASSUME NEW i \in 2..(Len(s) + 1)
      PROVE  (i \in 2..Len(s) /\ i \in 1..Len(s)) \/ i = Len(s) + 1
  BY <1>1
<1>4. ASSUME "INT" \notin m PROVE Nested(Append(s, "int"), m \union {"INT"})
  <2> DEFINE t == Append(s, "int")
  <2>1. \A i \in 2..Len(s) : s[i] \notin IntFrames
    BY <1>4 DEF Nested
  <2>2. Len(t) = Len(s) + 1 /\ t[Len(s) + 1] = "int" /\ \A i \in 1..Len(s) : t[i] = s[i]
    BY <1>2
  <2>3. \A i \in 3..Len(t) : t[i] \in DumpFrames => t[i - 1] = "int.sys"
    <3> SUFFICES ASSUME NEW i \in 3..(Len(s) + 1), t[i] \in DumpFrames PROVE t[i - 1] = "int.sys"
      BY <2>2
    <3>1. i \in 3..Len(s) /\ i \in 1..Len(s) /\ i - 1 \in 1..Len(s)
      BY <1>1, <2>2 DEF DumpFrames
    <3> QED
      BY <2>2, <3>1 DEF Nested
  <2> HIDE DEF t
  <2> QED
    BY <1>1, <1>3, <2>1, <2>2, <2>3 DEF Nested, IntFrames, SegvFrames, t
<1>5. ASSUME "SEGV" \notin m PROVE Nested(Append(s, "segv"), m \union {"SEGV"})
  <2> DEFINE t == Append(s, "segv")
  <2>1. \A i \in 2..Len(s) : s[i] \notin SegvFrames
    BY <1>5 DEF Nested
  <2>2. Len(t) = Len(s) + 1 /\ t[Len(s) + 1] = "segv" /\ \A i \in 1..Len(s) : t[i] = s[i]
    BY <1>2
  <2>3. \A i \in 3..Len(t) : t[i] \in DumpFrames => t[i - 1] = "int.sys"
    <3> SUFFICES ASSUME NEW i \in 3..(Len(s) + 1), t[i] \in DumpFrames PROVE t[i - 1] = "int.sys"
      BY <2>2
    <3>1. i \in 3..Len(s) /\ i \in 1..Len(s) /\ i - 1 \in 1..Len(s)
      BY <1>1, <2>2 DEF DumpFrames
    <3> QED
      BY <2>2, <3>1 DEF Nested
  <2> HIDE DEF t
  <2> QED
    BY <1>1, <1>3, <2>1, <2>2, <2>3 DEF Nested, IntFrames, SegvFrames, t
<1> QED
  BY <1>4, <1>5

(* The rest of a stack below its top, as indices.                          *)
LEMMA Below ==
  ASSUME NEW s, Stacked(s), Len(s) >= 2
  PROVE  /\ s \in Seq(Frames) /\ s # << >> /\ Len(s) \in Nat
         /\ Front(s) \in Seq(Frames) /\ Len(Front(s)) = Len(s) - 1
         /\ \A i \in 1..(Len(s) - 1) : Front(s)[i] = s[i]
         /\ Last(s) = s[Len(s)]
         /\ \A i \in 2..(Len(s) - 1) : i \in 2..Len(s) /\ i \in 1..(Len(s) - 1) /\ i # Len(s)
<1>1. s \in Seq(Frames) /\ Len(s) \in Nat
  BY DEF Stacked
<1>2. s # << >>
  BY <1>1
<1> QED
  BY <1>1, <1>2, FrontOf DEF Last

(* A return; the handler's signal is no longer masked.                     *)
LEMMA NestedPop ==
  ASSUME NEW s, NEW m, Stacked(s), Len(s) >= 2, Nested(s, m)
  PROVE  /\ Nested(Front(s), m)
         /\ Last(s) = "int.sys" => Nested(Front(s), m \ {"INT"})
         /\ Last(s) = "segv.sys" => Nested(Front(s), m \ {"SEGV"})
<1>1. PICK t : t = Front(s)
  OBVIOUS
<1>2. /\ Len(s) \in Nat /\ Len(t) = Len(s) - 1
      /\ \A i \in 1..(Len(s) - 1) : t[i] = s[i]
      /\ \A i \in 2..(Len(s) - 1) : i \in 2..Len(s) /\ i \in 1..(Len(s) - 1) /\ i # Len(s)
      /\ Last(s) = s[Len(s)] /\ Len(s) \in 2..Len(s)
  <2>1. Len(s) \in Nat /\ Len(s) \in 2..Len(s)
    BY Below
  <2> QED
    BY <1>1, <2>1, Below
<1>3. \A i \in 3..Len(t) : t[i] \in DumpFrames => t[i - 1] = "int.sys"
  <2> SUFFICES ASSUME NEW i \in 3..Len(t), t[i] \in DumpFrames PROVE t[i - 1] = "int.sys"
    OBVIOUS
  <2>1. i \in 3..Len(s) /\ i \in 1..(Len(s) - 1) /\ i - 1 \in 1..(Len(s) - 1)
    BY <1>2
  <2> QED
    BY <1>2, <2>1 DEF Nested
<1>4. Nested(t, m)
  BY <1>2, <1>3 DEF Nested
<1>5. Last(s) = "int.sys" => Nested(t, m \ {"INT"})
  <2> SUFFICES ASSUME Last(s) = "int.sys" PROVE \A i \in 2..Len(t) : t[i] \notin IntFrames
    BY <1>4 DEF Nested
  <2> QED
    BY <1>2 DEF Nested, IntFrames
<1>6. Last(s) = "segv.sys" => Nested(t, m \ {"SEGV"})
  <2> SUFFICES ASSUME Last(s) = "segv.sys" PROVE \A i \in 2..Len(t) : t[i] \notin SegvFrames
    BY <1>4 DEF Nested
  <2> QED
    BY <1>2 DEF Nested, SegvFrames
<1> QED
  BY <1>1, <1>4, <1>5, <1>6

(* A frame gives way to the next of its kind: the dump goes from opening   *)
(* the file to the lines, a SIGSEGV handler to its reset.                  *)
LEMMA NestedTurn ==
  ASSUME NEW s, NEW m, Stacked(s), Len(s) >= 2, Nested(s, m)
  PROVE  /\ Last(s) = "dump" => Nested(Append(Front(s), "walk"), m)
         /\ Last(s) = "segv" => Nested(Append(Front(s), "segv.sys"), m)
<1>1. PICK t : t = Front(s)
  OBVIOUS
<1> DEFINE n == Len(s)
<1>2. /\ n \in Nat /\ t \in Seq(Frames) /\ Len(t) = n - 1
      /\ \A i \in 1..(n - 1) : t[i] = s[i]
      /\ Last(s) = s[n] /\ n \in 2..n
  BY <1>1, Below
<1>3. ASSUME NEW f \in {"walk", "segv.sys"}
      PROVE  /\ Len(Append(t, f)) = n /\ Append(t, f)[n] = f
             /\ \A i \in 1..(n - 1) : Append(t, f)[i] = s[i]
  <2>1. f \in Frames
    BY DEF Frames, InSystem
  <2>2. /\ Len(Append(t, f)) = (n - 1) + 1 /\ Append(t, f)[(n - 1) + 1] = f
        /\ \A i \in 1..(n - 1) : Append(t, f)[i] = t[i]
    BY <1>2, <2>1
  <2>3. (n - 1) + 1 = n
    BY <1>2
  <2> QED
    BY <1>2, <2>2, <2>3
<1>4. ASSUME NEW u, NEW f, Len(u) = n, u[n] = f, \A i \in 1..(n - 1) : u[i] = s[i],
             \/ f \in DumpFrames /\ s[n] \in DumpFrames
             \/ f \in SegvFrames /\ s[n] \in SegvFrames
      PROVE  Nested(u, m)
  <2>1. /\ DumpFrames \cap IntFrames = {} /\ DumpFrames \cap SegvFrames = {}
        /\ SegvFrames \cap IntFrames = {} /\ "int.sys" \in IntFrames
    BY DEF DumpFrames, IntFrames, SegvFrames
  <2>2. \A i \in 2..n : /\ u[i] \in IntFrames <=> s[i] \in IntFrames
                        /\ u[i] \in SegvFrames <=> s[i] \in SegvFrames
                        /\ u[i] \in DumpFrames <=> s[i] \in DumpFrames
    <3> SUFFICES ASSUME NEW i \in 2..n
                 PROVE  /\ u[i] \in IntFrames <=> s[i] \in IntFrames
                        /\ u[i] \in SegvFrames <=> s[i] \in SegvFrames
                        /\ u[i] \in DumpFrames <=> s[i] \in DumpFrames
      OBVIOUS
    <3>1. CASE i = n
      BY <1>4, <2>1, <3>1
    <3>2. CASE i # n
      <4>1. i \in 1..(n - 1)
        BY <1>2, <3>2
      <4> QED
        BY <1>4, <4>1
    <3> QED
      BY <3>1, <3>2
  <2>3. \A i \in 3..n : i \in 2..n /\ i - 1 \in 1..(n - 1)
    BY <1>2
  <2> HIDE DEF n
  <2>4. \A i \in 3..n : u[i] \in DumpFrames => u[i - 1] = "int.sys"
    BY <1>4, <2>2, <2>3 DEF Nested, n
  <2> QED
    BY <1>4, <2>2, <2>4 DEF Nested, n
<1>5. Last(s) = "dump" => Nested(Append(t, "walk"), m)
  <2>1. "walk" \in DumpFrames /\ "dump" \in DumpFrames
    BY DEF DumpFrames
  <2> QED
    BY <1>2, <1>3, <1>4, <2>1
<1>6. Last(s) = "segv" => Nested(Append(t, "segv.sys"), m)
  <2>1. "segv" \in SegvFrames /\ "segv.sys" \in SegvFrames
    BY DEF SegvFrames
  <2> QED
    BY <1>2, <1>3, <1>4, <2>1
<1> QED
  BY <1>1, <1>5, <1>6

(* The SIGINT handler calls the dump, to reset the card afterwards.        *)
LEMMA NestedCall ==
  ASSUME NEW s, NEW m, Stacked(s), Len(s) >= 2, Nested(s, m), Last(s) = "int"
  PROVE  Nested(Front(s) \o <<"int.sys", "dump">>, m)
<1>1. PICK t : t = Front(s)
  OBVIOUS
<1> DEFINE n == Len(s)
<1>2. /\ n \in Nat /\ t \in Seq(Frames) /\ Len(t) = n - 1
      /\ \A i \in 1..(n - 1) : t[i] = s[i]
      /\ s[n] = "int" /\ n \in 2..n
  BY <1>1, Below
<1>3. PICK u : u = t \o <<"int.sys", "dump">>
  OBVIOUS
<1>4. /\ Len(u) = n + 1 /\ u[n] = "int.sys" /\ u[n + 1] = "dump"
      /\ \A i \in 1..(n - 1) : u[i] = s[i]
  <2>1. "int.sys" \in Frames /\ "dump" \in Frames
    BY DEF Frames, InSystem
  <2>2. /\ Len(u) = (n - 1) + 2 /\ u[(n - 1) + 1] = "int.sys" /\ u[(n - 1) + 2] = "dump"
        /\ \A i \in 1..(n - 1) : u[i] = t[i]
    BY <1>2, <1>3, <2>1
  <2>3. (n - 1) + 1 = n /\ (n - 1) + 2 = n + 1
    BY <1>2
  <2> QED
    BY <1>2, <2>2, <2>3
<1>5. ASSUME NEW i \in 2..(n + 1)
      PROVE  /\ u[i] \in IntFrames <=> i = n
             /\ u[i] \in SegvFrames => i \in 2..n /\ s[i] \in SegvFrames
  <2>1. CASE i = n \/ i = n + 1
    BY <1>2, <1>4, <2>1 DEF IntFrames, SegvFrames
  <2>2. CASE i # n /\ i # n + 1
    <3>1. i \in 1..(n - 1) /\ i \in 2..n
      BY <1>2, <2>2
    <3>2. s[i] \notin IntFrames
      BY <1>2, <2>2, <3>1 DEF Nested, IntFrames
    <3> QED
      BY <1>4, <2>2, <3>1, <3>2
  <2> QED
    BY <2>1, <2>2
<1>6. ASSUME NEW i \in 3..(n + 1), u[i] \in DumpFrames
      PROVE  u[i - 1] = "int.sys"
  <2>1. CASE i = n + 1
    BY <1>2, <1>4, <2>1
  <2>2. CASE i # n + 1
    <3>1. i # n
      BY <1>4, <1>6 DEF DumpFrames
    <3>2. i \in 3..n /\ i \in 1..(n - 1) /\ i - 1 \in 1..(n - 1)
      BY <1>2, <2>2, <3>1
    <3>3. s[i] \in DumpFrames /\ u[i - 1] = s[i - 1]
      BY <1>4, <1>6, <3>2
    <3> QED
      BY <3>2, <3>3 DEF Nested
  <2> QED
    BY <2>1, <2>2
<1>7. "INT" \in m
  BY <1>2 DEF Nested, IntFrames
<1>8. Nested(u, m)
  <2>1. \A i, j \in 2..Len(u) : u[i] \in SegvFrames /\ u[j] \in SegvFrames => i = j
    BY <1>4, <1>5 DEF Nested
  <2>2. \A i \in 2..Len(u) : u[i] \in SegvFrames => "SEGV" \in m
    BY <1>4, <1>5 DEF Nested
  <2> HIDE DEF n
  <2>3. \A i, j \in 2..Len(u) : u[i] \in IntFrames /\ u[j] \in IntFrames => i = j
    BY <1>4, <1>5
  <2> QED
    BY <1>4, <1>6, <1>7, <2>1, <2>2, <2>3 DEF Nested
<1> QED
  BY <1>1, <1>3, <1>8

(* What becomes of the stack in a step of main. *)
LEMMA BootShape ==
  ASSUME CardInv, Boot
  PROVE  \/ Len(stack') \in {0, 1}
         \/ stack # << >> /\ Segfault
<1> USE Places DEF Early
<1>1. ASSUME Exit PROVE Len(stack') \in {0, 1}
  BY <1>1 DEF Exit, Dies
<1>2. ASSUME NEW f \in Base, NEW g \in Base, At(f), Goto(g) PROVE Len(stack') \in {0, 1}
  BY <1>2, MainStep
<1>3. CASE Options \/ StatImages \/ SetupScreen
  BY <1>1, <1>2, <1>3 DEF Options, StatImages, SetupScreen, Step, Fails
<1>4. CASE MapPhi \/ WriteBoot
  BY <1>2, <1>4 DEF MapPhi, WriteBoot, Step
<1>5. CASE OpenState
  BY <1>2, <1>5 DEF OpenState, Step, At
<1>6. CASE ReadState
  <2>1. PICK g \in {"write", "boot.sys"} : Step("read", g)
    BY <1>6 DEF ReadState
  <2> QED
    BY <1>2, <2>1 DEF Step
<1>7. CASE RereadState
  <2>1. PICK g \in {"write", "wait"} : Step("wait", g)
    BY <1>7 DEF RereadState
  <2> QED
    BY <1>2, <2>1 DEF Step
<1>8. CASE ConsoleInit
  BY <1>2, <1>8 DEF ConsoleInit, AtExit, SignalInt, SignalSegv, Install
<1>9. CASE MapSbox
  <2>1. PICK g \in {"loop", "screen"} : Step("sbox", g)
    BY <1>9 DEF MapSbox
  <2> QED
    BY <1>2, <2>1 DEF Step
<1> QED
  BY <1>3, <1>4, <1>5, <1>6, <1>7, <1>8, <1>9 DEF Boot

LEMMA NestedFault ==
  ASSUME CardInv, stack # << >>, Nested(stack, masked), Segfault
  PROVE  Nested(stack', masked')
<1>1. CASE "SEGV" \in installed \ masked
  BY <1>1, NestedPush DEF Segfault, CardInv
<1>2. CASE "SEGV" \notin installed \ masked
  <2>1. Len(stack') \in {0, 1}
    BY <1>2 DEF Segfault, Dies
  <2> QED
    BY <2>1, NestedTiny
<1> QED
  BY <1>1, <1>2

(* A handler's or the dump's frame is not the only one.                    *)
LEMMA NotAlone ==
  ASSUME CardInv, NEW f \in Over, At(f)
  PROVE  Stacked(stack) /\ Len(stack) >= 2 /\ Last(stack) = f
<1>1. stack # << >> /\ Last(stack) = f /\ Stacked(stack)
  BY DEF At, CardInv
<1> QED
  BY <1>1, Alone

LEMMA NestedStep == CardInv /\ Nested(stack, masked) /\ [Next]_vars => Nested(stack', masked')
<1> SUFFICES ASSUME CardInv, Nested(stack, masked), [Next]_vars
             PROVE  Nested(stack', masked')
  OBVIOUS
<1> USE Places DEF Early, Leaves
<1>1. ASSUME Len(stack') \in {0, 1} PROVE Nested(stack', masked')
  BY <1>1, NestedTiny
<1>2. ASSUME Exit PROVE Nested(stack', masked')
  <2>1. Len(stack') \in {0, 1}
    BY <1>2 DEF Exit, Dies
  <2> QED
    BY <2>1, <1>1
<1>3. ASSUME NEW how, Dies(how) PROVE Nested(stack', masked')
  <2>1. Len(stack') \in {0, 1}
    BY <1>3 DEF Dies
  <2> QED
    BY <2>1, <1>1
<1>4. ASSUME NEW f \in Base, NEW g \in Base, At(f), Goto(g) PROVE Nested(stack', masked')
  BY <1>1, <1>4, MainStep
<1>5. CASE Boot
  BY <1>1, <1>5, BootShape, NestedFault
<1>6. CASE ResetPhi \/ InterruptMicctrl
  <2>1. AfterSystem
    BY <1>6 DEF ResetPhi, InterruptMicctrl
  <2>2. CASE At("boot.sys") /\ Goto("wait") /\ UNCHANGED <<masked, returned>>
    BY <1>4, <2>2
  <2>3. CASE At("exit.sys") /\ Goto("last") /\ returned' = TRUE /\ UNCHANGED masked
    BY <1>4, <2>3
  <2>4. CASE At("int.sys") /\ Return /\ masked' = masked \ {"INT"} /\ returned' = TRUE
    <3>1. "int.sys" \in Over
      BY DEF Over
    <3> QED
      BY <2>4, <3>1, NotAlone, NestedPop DEF Return
  <2>5. CASE At("segv.sys") /\ Return /\ masked' = masked \ {"SEGV"} /\ returned' = TRUE
    <3>1. "segv.sys" \in Over
      BY DEF Over
    <3> QED
      BY <2>5, <3>1, NotAlone, NestedPop DEF Return
  <2> QED
    BY ONLY <2>1, <2>2, <2>3, <2>4, <2>5 DEF AfterSystem
<1>7. CASE LoopFaults \/ KeyInterrupt \/ DumpFaults
  <2>1. stack # << >> /\ Segfault
    BY <1>7 DEF LoopFaults, KeyInterrupt, DumpFaults, Loops, At
  <2> QED
    BY <2>1, NestedFault
<1>8. CASE LineSaved
  BY <1>8 DEF LineSaved, process
<1>9. CASE LoopFails
  BY <1>2, <1>9 DEF LoopFails
<1>10. CASE LoopAborts
  BY <1>3, <1>10 DEF LoopAborts
<1>11. CASE LoopShutdown \/ KeyDump
  <2>1. At("loop")
    BY <1>11 DEF LoopShutdown, KeyDump, Loops
  <2>2. CASE Goto("leave")
    BY <1>4, <2>1, <2>2
  <2>3. CASE Call("dump", "leave") \/ Call("dump", "loop")
    <3>1. PICK g \in {"leave", "loop"} : Call("dump", g)
      BY <2>3
    <3>2. Stacked(stack) /\ stack # << >> /\ Len(stack) = 1
      BY <2>1, Alone DEF At, CardInv
    <3>3. "dump" \in Over /\ g \in Base
      BY DEF Over
    <3>4. stack' = <<g, "dump">>
      BY <3>1, <3>2, <3>3, Bottom DEF Call
    <3> QED
      BY <3>4, NestedDump
  <2> QED
    BY <1>11, <2>2, <2>3 DEF LoopShutdown, KeyDump
<1>12. CASE DumpOpen
  <2>1. CASE Fails("dump")
    BY <1>2, <2>1 DEF Fails
  <2>2. CASE Step("dump", "walk")
    <3>1. "dump" \in Over
      BY DEF Over
    <3> QED
      BY <2>2, <3>1, NotAlone, NestedTurn DEF Step, Goto
  <2> QED
    BY <1>12, <2>1, <2>2 DEF DumpOpen
<1>13. CASE DumpWrite
  <2>1. "walk" \in Over
    BY DEF Over
  <2> QED
    BY <1>13, <2>1, NotAlone, NestedPop DEF DumpWrite, Return
<1>14. CASE Handler
  <2>1. CASE CursesSigint \/ CursesSigsegv
    BY <1>2, <2>1 DEF CursesSigint, CursesSigsegv
  <2>2. CASE NocursesSigint
    <3>1. "int" \in Over
      BY DEF Over
    <3> QED
      BY <2>2, <3>1, NotAlone, NestedCall DEF NocursesSigint, Call
  <2>3. CASE NocursesSigsegv
    <3>1. "segv" \in Over
      BY DEF Over
    <3> QED
      BY <2>3, <3>1, NotAlone, NestedTurn DEF NocursesSigsegv, Step, Goto
  <2> QED
    BY <1>14, <2>1, <2>2, <2>3 DEF Handler
<1>15. CASE Leaving
  <2>1. CASE Fails("leave")
    BY <1>2, <2>1 DEF Fails
  <2>2. CASE Step("exit", "exit.sys")
    BY <1>4, <2>2 DEF Step
  <2>3. CASE At("last") /\ Dies("exit")
    BY <1>3, <2>3
  <2> QED
    BY <1>15, <2>1, <2>2, <2>3 DEF Leaving
<1>16. CASE Interrupt
  <2>1. CASE Caught("INT")
    BY <1>16, <2>1, NestedPush DEF Interrupt, CardInv
  <2>2. CASE ~Caught("INT")
    BY <1>3, <1>16, <2>2 DEF Interrupt
  <2> QED
    BY <2>1, <2>2
<1>17. CASE CardReady \/ UNCHANGED vars
  BY <1>17 DEF CardReady, vars, process
<1> QED
  BY <1>5, <1>6, <1>7, <1>8, <1>9, <1>10, <1>11, <1>12, <1>13, <1>14, <1>15, <1>16, <1>17
  DEF Next, Process, MainLoop


(* The types of what is not the stack. *)
ProcessTyped ==
  /\ installed \subseteq Signals \union {"exit"} /\ masked \subseteq Signals
  /\ end \in {"alive", "exit", "nested", "sigint", "segv", "abort"}

OutsideTyped ==
  /\ opts \in [nocurses: BOOLEAN, dumponexit: BOOLEAN, newline: BOOLEAN]
  /\ card \in {"busy", "ready", "resetting", "ours"}
  /\ buffered \in {"none", "busy", "ready", "resetting"}
  /\ mapped \subseteq {"gddr", "sbox"} /\ log \in {"none", "part", "live", "dead"}
  /\ hist \in BOOLEAN /\ lost \in BOOLEAN /\ refused \in BOOLEAN
  /\ returned \in BOOLEAN
  /\ ints \in 0..MaxInt

LEMMA TypedStep ==
  ProcessTyped /\ [Next]_vars => ProcessTyped'
<1> SUFFICES ASSUME ProcessTyped, [Next]_vars PROVE ProcessTyped'
  OBVIOUS
<1> USE DEF Signals
<1>1. ASSUME UNCHANGED <<installed, masked, end>> PROVE ProcessTyped'
  BY <1>1 DEF ProcessTyped
<1>2. ASSUME Exit PROVE ProcessTyped'
  BY <1>2 DEF ProcessTyped, Exit, Dies
<1>3. ASSUME Segfault PROVE ProcessTyped'
  BY <1>3 DEF ProcessTyped, Segfault, Dies
<1>4. CASE Options \/ MapPhi \/ StatImages \/ OpenState
  BY <1>1, <1>2, <1>3, <1>4
  DEF Options, MapPhi, StatImages, OpenState, Step, Fails
<1>5. CASE ReadState \/ RereadState \/ WriteBoot \/ MapSbox \/ SetupScreen
  BY <1>1, <1>2, <1>5
  DEF ReadState, RereadState, WriteBoot, MapSbox, SetupScreen, Step, Fails
<1>6. CASE ConsoleInit
  BY <1>6 DEF ProcessTyped, ConsoleInit, AtExit, SignalInt, SignalSegv, Install
<1>7. CASE ResetPhi \/ InterruptMicctrl
  BY <1>7 DEF ProcessTyped, ResetPhi, InterruptMicctrl, AfterSystem
<1>8. CASE LoopFaults \/ LineSaved \/ LoopFails \/ KeyInterrupt \/ KeyDump \/ LoopShutdown
  BY <1>1, <1>2, <1>3, <1>8
  DEF LoopFaults, LineSaved, LoopFails, KeyInterrupt, KeyDump, LoopShutdown, process
<1>9. CASE LoopAborts
  BY <1>9 DEF ProcessTyped, LoopAborts, Dies
<1>10. CASE DumpOpen \/ DumpWrite \/ DumpFaults
  BY <1>1, <1>2, <1>3, <1>10 DEF DumpOpen, DumpWrite, DumpFaults, Step, Fails
<1>11. CASE Handler
  BY <1>1, <1>2, <1>11
  DEF Handler, CursesSigint, CursesSigsegv, NocursesSigint, NocursesSigsegv, Step
<1>12. CASE Leaving
  <2>1. CASE At("last") /\ Dies("exit") /\ UNCHANGED <<installed, masked>>
    BY <2>1 DEF ProcessTyped, Dies
  <2> QED
    BY <1>1, <1>2, <1>12, <2>1 DEF Leaving, Step, Fails
<1>13. CASE Interrupt
  BY <1>13 DEF ProcessTyped, Interrupt, Dies
<1>14. CASE CardReady \/ UNCHANGED vars
  BY <1>1, <1>14 DEF CardReady, vars, process
<1> QED
  BY <1>4, <1>5, <1>6, <1>7, <1>8, <1>9, <1>10, <1>11, <1>12, <1>13, <1>14
  DEF Next, Process, Boot, MainLoop

LEMMA Counted == \A n \in 0..MaxInt : n < MaxInt => n + 1 \in 0..MaxInt
BY IntAssumption

(* A state reread is the driver's before it runs our kernel. *)
LEMMA OutsideStep == CardInv /\ OutsideTyped /\ [Next]_vars => OutsideTyped'
<1> SUFFICES ASSUME CardInv, OutsideTyped, [Next]_vars PROVE OutsideTyped'
  OBVIOUS
<1>1. ASSUME UNCHANGED outside PROVE OutsideTyped'
  BY <1>1 DEF OutsideTyped, outside, device
<1>2. CASE Options \/ StatImages \/ OpenState \/ ReadState \/ ConsoleInit \/ SetupScreen
  BY <1>1, <1>2 DEF Options, StatImages, OpenState, ReadState, ConsoleInit, AtExit,
                    SignalInt, SignalSegv, Install, SetupScreen, outside
<1>3. CASE MapPhi \/ WriteBoot \/ MapSbox
  <2>1. CASE MapPhi
    BY <2>1 DEF OutsideTyped, MapPhi, device
  <2>2. CASE WriteBoot
    <3>1. card' \in {"busy", "ready", "resetting", "ours"} /\ refused' \in BOOLEAN
      BY <2>2 DEF OutsideTyped, WriteBoot
    <3> QED
      BY <2>2, <3>1 DEF OutsideTyped, WriteBoot
  <2>3. CASE MapSbox
    BY <2>3 DEF OutsideTyped, MapSbox, device
  <2> QED
    BY <1>3, <2>1, <2>2, <2>3
<1>4. CASE RereadState
  <2>1. stack # << >> /\ stack[1] = "wait"
    <3>1. At("wait") /\ "wait" \in Base
      BY <1>4, Places DEF RereadState, Step, Early
    <3> QED
      BY <3>1, Alone DEF At, CardInv
  <2>2. card # "ours"
    BY <2>1 DEF CardInv, Booting, Early
  <2>3. buffered' \in {"none", "busy", "ready", "resetting"}
    BY <1>4, <2>2 DEF OutsideTyped, RereadState
  <2> QED
    BY <1>4, <2>3 DEF OutsideTyped, RereadState, device
<1>5. CASE ResetPhi \/ InterruptMicctrl
  <2>1. returned' \in BOOLEAN
    BY <1>5 DEF OutsideTyped, ResetPhi, InterruptMicctrl, AfterSystem
  <2>2. card' \in {"busy", "ready", "resetting", "ours"} /\ lost' \in BOOLEAN
    BY <1>5 DEF OutsideTyped, ResetPhi, InterruptMicctrl, Micctrl
  <2>3. ints' \in 0..MaxInt
    BY <1>5, Counted DEF OutsideTyped, ResetPhi, InterruptMicctrl
  <2>4. UNCHANGED <<opts, refused, buffered, mapped, log, hist>>
    BY <1>5 DEF ResetPhi, InterruptMicctrl
  <2> QED
    BY <2>1, <2>2, <2>3, <2>4 DEF OutsideTyped
<1>6. CASE LoopFaults \/ LoopFails \/ LoopAborts \/ LoopShutdown \/ KeyInterrupt \/ KeyDump
  BY <1>1, <1>6 DEF LoopFaults, LoopFails, LoopAborts, LoopShutdown, KeyInterrupt, KeyDump,
                    outside
<1>7. CASE LineSaved \/ DumpOpen \/ DumpWrite
  <2>1. CASE LineSaved
    BY <2>1 DEF OutsideTyped, LineSaved, device
  <2>2. CASE DumpOpen
    BY <2>2 DEF OutsideTyped, DumpOpen, device
  <2>3. CASE DumpWrite
    BY <2>3 DEF OutsideTyped, DumpWrite, device
  <2> QED
    BY <1>7, <2>1, <2>2, <2>3
<1>8. CASE DumpFaults \/ Handler \/ Leaving \/ UNCHANGED vars
  BY <1>1, <1>8 DEF DumpFaults, Handler, Leaving, vars, outside
<1>9. CASE Interrupt
  <2>1. ints' \in 0..MaxInt
    BY <1>9, Counted DEF OutsideTyped, Interrupt
  <2>2. UNCHANGED <<opts, device, buffered, mapped, hist, log, returned>>
    BY <1>9 DEF Interrupt
  <2> QED
    BY <2>1, <2>2 DEF OutsideTyped, device
<1>10. CASE CardReady
  BY <1>10 DEF OutsideTyped, CardReady
<1> QED
  BY <1>2, <1>3, <1>4, <1>5, <1>6, <1>7, <1>8, <1>9, <1>10
  DEF Next, Process, Boot, MainLoop

(* The process has the types of its variables, is alive as long as it has  *)
(* a frame, and never nests deeper than main, a handler, its dump and the  *)
(* other handler with the one above it, for any number of interrupts.      *)
THEOREM StackIsShallow == Spec => []TypeOK
<1> DEFINE IInv == Nested(stack, masked) /\ ProcessTyped /\ OutsideTyped
<1>1. Init => IInv
  <2> SUFFICES ASSUME Init PROVE IInv
    OBVIOUS
  <2>1. Nested(stack, masked)
    BY NestedTiny DEF Init
  <2>2. ProcessTyped /\ OutsideTyped
    <3>1. opts \in [nocurses: BOOLEAN, dumponexit: BOOLEAN, newline: BOOLEAN]
      BY ModesAssumption DEF Init
    <3>2. ints \in 0..MaxInt
      BY IntAssumption DEF Init
    <3> QED
      BY <3>1, <3>2 DEF Init, ProcessTyped, OutsideTyped
  <2> QED
    BY <2>1, <2>2
<1>2. CardInv /\ IInv /\ [Next]_vars => IInv'
  BY NestedStep, TypedStep, OutsideStep
<1>3. CardInv /\ IInv => TypeOK
  BY NestedShort DEF CardInv, Alive, Stacked, ProcessTyped, OutsideTyped, TypeOK
<1> HIDE DEF IInv
<1> QED
  BY <1>1, <1>2, <1>3, CardAlways, PTL DEF Spec
=============================================================================
