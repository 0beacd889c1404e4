--------------------------- MODULE ConnectionsProofs ---------------------------
(***************************************************************************)
(* The invariant of Connections for every number of connections and of     *)
(* socket numbers, whichever of the eight programs is checked: first that  *)
(* the ways of ConnectionPaths are balanced, step by step, then that a     *)
(* thread that goes a balanced way keeps its books, and last that the      *)
(* books of all threads agree with the numbers the system has given out.   *)
(***************************************************************************)
EXTENDS Connections, TLAPS

-----------------------------------------------------------------------------
(* The ways, one after the other: what their lists hold and what they make *)
(* is worked out once, and the rest of the proof looks at no list again.   *)

Resources == Sides \cup Objects

\* A list of the things, each once and in order.
Lists(list, things) == list \in Seq(Resources) /\ InOrder(list) /\ Things(list) = things
\* The n-th step, and what it gives back.
StepIs(w, n, op, things) == w.steps[n].op = op /\ Lists(w.steps[n].undo, things)
\* What the early returns of proxy_pure_m3's HandleHttp give back.
Twice == <<"client", "client">>
TwiceIs(w, n, op) == w.steps[n].op = op /\ w.steps[n].undo = Twice

Ops(w) == {w.steps[n].op : n \in 1..Len(w.steps)}
Ends == {"serve", "exchange", "refuse"}
Handshakes == {"accept", "acceptBio", "handshake"}
\* How a way is built: it ends with its last step and nowhere else, a request and a
\* port are looked at first, no handshake comes after the sides have agreed.
Shape(w, n) ==
    LET op == w.steps[n].op IN
    /\ w.steps[n].undo \in Seq(Resources)
    /\ op \in Ends <=> n = Len(w.steps)
    /\ op \in {"request", "port"} => n = 1
    /\ op \in Handshakes => \A m \in 1..n - 1 : w.steps[m].op # "agree"
Shaped(w) ==
    /\ Len(w.steps) \in Nat \ {0} /\ w.again \in 0..Len(w.steps) /\ w.finish \in Seq(Resources)
    /\ \A n \in 1..Len(w.steps) : Shape(w, n)
\* A step that fails gives back the client's socket, and nothing twice.
Regular(w, n) ==
    w.steps[n].op \notin Blind => "client" \in Things(w.steps[n].undo) /\ InOrder(w.steps[n].undo)

LEMMA TwiceFacts == Twice \in Seq(Resources) /\ Things(Twice) = {"client"}
BY DEF Twice, Things, Resources, Sides

LEMMA ListFacts ==
    /\ Lists(<<"client">>, {"client"})
    /\ Lists(<<"origin", "client">>, {"client", "origin"})
    /\ Lists(<<>>, {})
    /\ Lists(Session \o <<"client">>, {"client", "clientSsl", "bio"})
    /\ Lists(<<"originSsl", "origin">> \o (Session \o <<"client">>),
           {"client", "origin", "clientSsl", "originSsl", "bio"})
    /\ Lists(<<"clientSsl", "originSsl", "origin", "bio", "client">>,
           {"client", "origin", "clientSsl", "originSsl", "bio"})
    /\ Lists(<<"origin">>, {"origin"})
    /\ Lists(<<"clientSsl", "ctx", "bio", "client">>, {"client", "clientSsl", "ctx", "bio"})
    /\ Lists(<<"originSsl", "origin">> \o <<"clientSsl", "ctx", "bio", "client">>,
           {"client", "origin", "clientSsl", "originSsl", "ctx", "bio"})
    /\ Lists(<<"clientSsl", "originSsl", "ctx", "origin", "bio", "client">>,
           {"client", "origin", "clientSsl", "originSsl", "ctx", "bio"})
    /\ Lists(Destructor, {"client", "origin", "clientSsl", "originSsl"})
<1> USE DEF Lists, InOrder, Things, Resources, Sides, Objects, Session, Destructor
<1>1. Lists(<<"client">>, {"client"})
  OBVIOUS
<1>2. Lists(<<"origin", "client">>, {"client", "origin"})
  OBVIOUS
<1>3. Lists(<<>>, {})
  OBVIOUS
<1>4. Lists(Session \o <<"client">>, {"client", "clientSsl", "bio"})
  OBVIOUS
<1>5. Lists(<<"originSsl", "origin">> \o (Session \o <<"client">>),
          {"client", "origin", "clientSsl", "originSsl", "bio"})
  OBVIOUS
<1>6. Lists(<<"clientSsl", "originSsl", "origin", "bio", "client">>,
          {"client", "origin", "clientSsl", "originSsl", "bio"})
  OBVIOUS
<1>7. Lists(<<"origin">>, {"origin"})
  OBVIOUS
<1>8. Lists(<<"clientSsl", "ctx", "bio", "client">>, {"client", "clientSsl", "ctx", "bio"})
  OBVIOUS
<1>9. Lists(<<"originSsl", "origin">> \o <<"clientSsl", "ctx", "bio", "client">>,
          {"client", "origin", "clientSsl", "originSsl", "ctx", "bio"})
  OBVIOUS
<1>10. Lists(<<"clientSsl", "originSsl", "ctx", "origin", "bio", "client">>,
           {"client", "origin", "clientSsl", "originSsl", "ctx", "bio"})
  OBVIOUS
<1>11. Lists(Destructor, {"client", "origin", "clientSsl", "originSsl"})
  OBVIOUS
<1> QED BY <1>1, <1>2, <1>3, <1>4, <1>5, <1>6, <1>7, <1>8, <1>9, <1>10, <1>11

\* The steps of the ways, as the programs list them.
LEMMA V3ConnectSteps ==
    /\ Len(V3Connect.steps) = 4 /\ V3Connect.again = 0 /\ V3Connect.finish = <<"origin", "client">>
    /\ V3Connect.steps[1] = Step("port", <<"client">>)
    /\ V3Connect.steps[2] = Step("dial", <<"client">>)
    /\ V3Connect.steps[3] = Step("reply", <<"origin", "client">>)
    /\ V3Connect.steps[4] = Step("serve", <<>>)
BY DEF V3Connect, Way, LoopingWay

LEMMA V3PlainSteps ==
    /\ Len(V3Plain.steps) = 3 /\ V3Plain.again = 1 /\ V3Plain.finish = <<>>
    /\ V3Plain.steps[1] = Step("request", <<"origin", "client">>)
    /\ V3Plain.steps[2] = Step("redial", <<"client">>)
    /\ V3Plain.steps[3] = Step("exchange", <<"origin", "client">>)
BY DEF V3Plain, Way, LoopingWay

LEMMA V4ConnectSteps ==
    /\ Len(V4Connect.steps) = 7 /\ V4Connect.again = 0
    /\ V4Connect.finish = <<"clientSsl", "originSsl", "origin", "bio", "client">>
    /\ V4Connect.steps[1] = Step("port", <<"client">>)
    /\ V4Connect.steps[2] = Step("reply", <<"client">>)
    /\ V4Connect.steps[3] = Step("context", <<"client">>)
    /\ V4Connect.steps[4] = Step("acceptBio", Session \o <<"client">>)
    /\ V4Connect.steps[5] = Step("dial", Session \o <<"client">>)
    /\ V4Connect.steps[6] = Step("handshake", <<"originSsl", "origin">> \o (Session \o <<"client">>))
    /\ V4Connect.steps[7] = Step("serve", <<>>)
BY DEF V4Connect, Way, LoopingWay

LEMMA PlanBConnectSteps ==
    /\ Len(PlanBConnect.steps) = 8 /\ PlanBConnect.again = 0
    /\ PlanBConnect.finish = <<"clientSsl", "originSsl", "origin", "bio", "client">>
    /\ PlanBConnect.steps[1] = Step("port", <<>>)
    /\ PlanBConnect.steps[2] = Step("reply", <<"client">>)
    /\ PlanBConnect.steps[3] = Step("context", <<"client">>)
    /\ PlanBConnect.steps[4] = Step("acceptBio", Session \o <<"client">>)
    /\ PlanBConnect.steps[5] = Step("dial", Session \o <<"client">>)
    /\ PlanBConnect.steps[6] = Step("handshake", <<"originSsl", "origin">> \o (Session \o <<"client">>))
    /\ PlanBConnect.steps[7] = Step("agree", <<"originSsl", "origin">> \o (Session \o <<"client">>))
    /\ PlanBConnect.steps[8] = Step("serve", <<>>)
BY DEF PlanBConnect, Way, LoopingWay

LEMMA PlanBPlainSteps ==
    /\ Len(PlanBPlain.steps) = 3 /\ PlanBPlain.again = 1 /\ PlanBPlain.finish = <<"origin">>
    /\ PlanBPlain.steps[1] = Step("request", <<"client">>)
    /\ PlanBPlain.steps[2] = Step("dial", <<"client">>)
    /\ PlanBPlain.steps[3] = Step("exchange", <<"origin", "client">>)
BY DEF PlanBPlain, Way, LoopingWay

LEMMA MitmPureConnectSteps ==
    /\ Len(MitmPureConnect.steps) = 6 /\ MitmPureConnect.again = 0
    /\ MitmPureConnect.finish = <<"clientSsl", "originSsl", "ctx", "origin", "bio", "client">>
    /\ MitmPureConnect.steps[1] = Step("blindReply", <<>>)
    /\ MitmPureConnect.steps[2] = Step("ownContext", <<"client">>)
    /\ MitmPureConnect.steps[3] = Step("acceptBio", <<"clientSsl", "ctx", "bio", "client">>)
    /\ MitmPureConnect.steps[4] = Step("dial", <<"clientSsl", "ctx", "bio", "client">>)
    /\ MitmPureConnect.steps[5] = Step("handshake", <<"originSsl", "origin">> \o <<"clientSsl", "ctx", "bio", "client">>)
    /\ MitmPureConnect.steps[6] = Step("serve", <<>>)
BY DEF MitmPureConnect, Way, LoopingWay

LEMMA NoMitmConnectSteps ==
    /\ Len(NoMitmConnect.steps) = 4 /\ NoMitmConnect.again = 0
    /\ NoMitmConnect.finish = <<"origin", "client">>
    /\ NoMitmConnect.steps[1] = Step("target", <<"client">>)
    /\ NoMitmConnect.steps[2] = Step("dial", <<"client">>)
    /\ NoMitmConnect.steps[3] = Step("blindReply", <<>>)
    /\ NoMitmConnect.steps[4] = Step("serve", <<>>)
BY DEF NoMitmConnect, Way, LoopingWay

LEMMA NoMitmPlainSteps ==
    /\ Len(NoMitmPlain.steps) = 4 /\ NoMitmPlain.again = 2 /\ NoMitmPlain.finish = <<"origin">>
    /\ NoMitmPlain.steps[1] = Step("request", <<"client">>)
    /\ NoMitmPlain.steps[2] = Step("next", <<"client">>)
    /\ NoMitmPlain.steps[3] = Step("dial", <<"client">>)
    /\ NoMitmPlain.steps[4] = Step("exchange", <<"origin", "client">>)
BY DEF NoMitmPlain, Way, LoopingWay

LEMMA PureM3ConnectSteps ==
    /\ Len(PureM3Connect.steps) = 3 /\ PureM3Connect.again = 0
    /\ PureM3Connect.finish = <<"origin", "client">>
    /\ PureM3Connect.steps[1] = Step("dial", <<"client">>)
    /\ PureM3Connect.steps[2] = Step("blindReply", <<>>)
    /\ PureM3Connect.steps[3] = Step("serve", <<>>)
BY DEF PureM3Connect, Way, LoopingWay

LEMMA PureM3PlainSteps ==
    /\ Len(PureM3Plain.steps) = 4 /\ PureM3Plain.again = 0
    /\ PureM3Plain.finish = <<"origin", "client">>
    /\ PureM3Plain.steps[1] = Step("request", <<"client">>)
    /\ PureM3Plain.steps[2] = Step("target", <<"client", "client">>)
    /\ PureM3Plain.steps[3] = Step("dial", <<"client", "client">>)
    /\ PureM3Plain.steps[4] = Step("serve", <<>>)
BY DEF PureM3Plain, Way, LoopingWay

LEMMA EngineConnectSteps ==
    /\ Len(EngineConnect.steps) = 6 /\ EngineConnect.again = 0 /\ EngineConnect.finish = Destructor
    /\ EngineConnect.steps[1] = Step("blindReply", <<>>)
    /\ EngineConnect.steps[2] = Step("context", Destructor)
    /\ EngineConnect.steps[3] = Step("accept", Destructor)
    /\ EngineConnect.steps[4] = Step("dial", Destructor)
    /\ EngineConnect.steps[5] = Step("handshake", Destructor)
    /\ EngineConnect.steps[6] = Step("serve", <<>>)
BY DEF EngineConnect, Way, LoopingWay

LEMMA EnginePlainSteps ==
    /\ Len(EnginePlain.steps) = 2 /\ EnginePlain.again = 0 /\ EnginePlain.finish = Destructor
    /\ EnginePlain.steps[1] = Step("request", Destructor)
    /\ EnginePlain.steps[2] = Step("refuse", Destructor)
BY DEF EnginePlain, Way, LoopingWay

\* The objects each kind of step makes.
LEMMA MakesIs ==
    /\ Makes("accept") = {"clientSsl"}
    /\ Makes("acceptBio") = {"clientSsl", "bio"}
    /\ Makes("agree") = {}
    /\ Makes("blindReply") = {}
    /\ Makes("context") = {}
    /\ Makes("dial") = {}
    /\ Makes("exchange") = {}
    /\ Makes("handshake") = {"originSsl"}
    /\ Makes("next") = {}
    /\ Makes("ownContext") = {"ctx"}
    /\ Makes("port") = {}
    /\ Makes("redial") = {}
    /\ Makes("refuse") = {}
    /\ Makes("reply") = {}
    /\ Makes("request") = {}
    /\ Makes("serve") = {}
    /\ Makes("target") = {}
    /\ MakesAnyway("accept") = {"clientSsl"}
    /\ MakesAnyway("acceptBio") = {"clientSsl", "bio"}
    /\ MakesAnyway("agree") = {}
    /\ MakesAnyway("blindReply") = {}
    /\ MakesAnyway("context") = {}
    /\ MakesAnyway("dial") = {}
    /\ MakesAnyway("exchange") = {}
    /\ MakesAnyway("handshake") = {"originSsl"}
    /\ MakesAnyway("next") = {}
    /\ MakesAnyway("ownContext") = {}
    /\ MakesAnyway("port") = {}
    /\ MakesAnyway("redial") = {}
    /\ MakesAnyway("refuse") = {}
    /\ MakesAnyway("reply") = {}
    /\ MakesAnyway("request") = {}
    /\ MakesAnyway("serve") = {}
    /\ MakesAnyway("target") = {}
BY DEF Makes, MakesAnyway

LEMMA MadeNone == \A w : Made(w, 1) = {}
BY DEF Made

LEMMA MadeNext ==
    ASSUME NEW w, NEW n \in Nat \ {0}
    PROVE  Made(w, n + 1) = Made(w, n) \cup Makes(w.steps[n].op)
<1>1. 1..(n + 1) - 1 = (1..n - 1) \cup {n}
  OBVIOUS
<1> QED BY <1>1, Zenon DEF Made

\* Each way is balanced: with the objects made and the origin that may be held at
\* each of its steps, the list of the step gives back all of them.
LEMMA V3ConnectIs ==
    /\ Balanced(V3Connect) /\ Shaped(V3Connect)
    /\ Ops(V3Connect) \subseteq {"port", "dial", "reply", "serve"}
    /\ \A n \in 1..Len(V3Connect.steps) : Regular(V3Connect, n)
<1>1. /\ Len(V3Connect.steps) = 4 /\ V3Connect.again = 0
      /\ Lists(V3Connect.finish, {"client", "origin"})
      /\ StepIs(V3Connect, 1, "port", {"client"})
      /\ StepIs(V3Connect, 2, "dial", {"client"})
      /\ StepIs(V3Connect, 3, "reply", {"client", "origin"})
      /\ StepIs(V3Connect, 4, "serve", {})
  BY V3ConnectSteps, ListFacts DEF StepIs, Step
<1>2. /\ Made(V3Connect, 1) = {}
      /\ Made(V3Connect, 2) = {}
      /\ Made(V3Connect, 3) = {}
      /\ Made(V3Connect, 4) = {}
  <2>1. Made(V3Connect, 1) = {}
    BY MadeNone
  <2>2. Made(V3Connect, 2) = {}
    BY <1>1, <2>1, MadeNext, 2 = 1 + 1 DEF StepIs, Makes
  <2>3. Made(V3Connect, 3) = {}
    BY <1>1, <2>2, MadeNext, 3 = 2 + 1 DEF StepIs, Makes
  <2>4. Made(V3Connect, 4) = {}
    BY <1>1, <2>3, MadeNext, 4 = 3 + 1 DEF StepIs, Makes
  <2> QED BY <2>1, <2>2, <2>3, <2>4
<1>3. ~KeepsOrigin(V3Connect)
  BY <1>1 DEF KeepsOrigin, StepIs
<1>4. GivesBack(V3Connect, 1)
  <2>1. Made(V3Connect, 1) \cup MakesAnyway("port") \subseteq {"client"}
    BY <1>2, MakesIs
  <2>2. ~MayHoldOrigin(V3Connect, 1)
    BY <1>1, <1>3 DEF MayHoldOrigin, StepIs
  <2> QED BY <1>1, <2>1, <2>2 DEF GivesBack, StepIs, Lists
<1>5. GivesBack(V3Connect, 2)
  BY <1>1, <1>2, MakesIs DEF GivesBack, StepIs, Lists
<1>6. GivesBack(V3Connect, 3)
  <2>1. Made(V3Connect, 3) \cup MakesAnyway("reply") \subseteq {"client", "origin"}
    BY <1>2, MakesIs
  <2> QED BY <1>1, <2>1 DEF GivesBack, StepIs, Lists
<1>7. GivesBack(V3Connect, 4)
  BY <1>1 DEF GivesBack, StepIs, Blind
<1>8. Completes(V3Connect)
  BY <1>1, <1>2, <1>3, MakesIs DEF Completes, StepIs, Lists, MayHoldOrigin
<1>9. Shape(V3Connect, 1) /\ Regular(V3Connect, 1)
  BY <1>1 DEF Shape, StepIs, Lists, Ends, Handshakes, Regular, Blind
<1>10. Shape(V3Connect, 2) /\ Regular(V3Connect, 2)
  BY <1>1 DEF Shape, StepIs, Lists, Ends, Handshakes, Regular, Blind
<1>11. Shape(V3Connect, 3) /\ Regular(V3Connect, 3)
  BY <1>1 DEF Shape, StepIs, Lists, Ends, Handshakes, Regular, Blind
<1>12. Shape(V3Connect, 4) /\ Regular(V3Connect, 4)
  BY <1>1 DEF Shape, StepIs, Lists, Ends, Handshakes, Regular, Blind
<1>13. Ops(V3Connect) \subseteq {"port", "dial", "reply", "serve"}
  BY <1>1 DEF Ops, StepIs
<1>14. Balanced(V3Connect)
  BY <1>1, <1>4, <1>5, <1>6, <1>7, <1>8 DEF Balanced
<1>15. Shaped(V3Connect)
  BY <1>1, <1>9, <1>10, <1>11, <1>12 DEF Shaped, Lists
<1> QED BY <1>1, <1>9, <1>10, <1>11, <1>12, <1>13, <1>14, <1>15

LEMMA V3PlainIs ==
    /\ Balanced(V3Plain) /\ Shaped(V3Plain)
    /\ Ops(V3Plain) \subseteq {"request", "redial", "exchange"}
    /\ \A n \in 1..Len(V3Plain.steps) : Regular(V3Plain, n)
<1>1. /\ Len(V3Plain.steps) = 3 /\ V3Plain.again = 1 /\ Lists(V3Plain.finish, {})
      /\ StepIs(V3Plain, 1, "request", {"client", "origin"})
      /\ StepIs(V3Plain, 2, "redial", {"client"})
      /\ StepIs(V3Plain, 3, "exchange", {"client", "origin"})
  BY V3PlainSteps, ListFacts DEF StepIs, Step
<1>2. /\ Made(V3Plain, 1) = {}
      /\ Made(V3Plain, 2) = {}
      /\ Made(V3Plain, 3) = {}
  <2>1. Made(V3Plain, 1) = {}
    BY MadeNone
  <2>2. Made(V3Plain, 2) = {}
    BY <1>1, <2>1, MadeNext, 2 = 1 + 1 DEF StepIs, Makes
  <2>3. Made(V3Plain, 3) = {}
    BY <1>1, <2>2, MadeNext, 3 = 2 + 1 DEF StepIs, Makes
  <2> QED BY <2>1, <2>2, <2>3
<1>3. KeepsOrigin(V3Plain)
  BY <1>1 DEF KeepsOrigin, StepIs
<1>4. GivesBack(V3Plain, 1)
  <2>1. Made(V3Plain, 1) \cup MakesAnyway("request") \subseteq {"client", "origin"}
    BY <1>2, MakesIs
  <2> QED BY <1>1, <2>1 DEF GivesBack, StepIs, Lists
<1>5. GivesBack(V3Plain, 2)
  BY <1>1, <1>2, MakesIs DEF GivesBack, StepIs, Lists
<1>6. GivesBack(V3Plain, 3)
  <2>1. Made(V3Plain, 3) \cup MakesAnyway("exchange") \subseteq {"client", "origin"}
    BY <1>2, MakesIs
  <2> QED BY <1>1, <2>1 DEF GivesBack, StepIs, Lists
<1>7. Completes(V3Plain)
  BY <1>1, <1>2, <1>3, MakesIs DEF Completes, StepIs, Lists, MayHoldOrigin
<1>8. Shape(V3Plain, 1) /\ Regular(V3Plain, 1)
  BY <1>1 DEF Shape, StepIs, Lists, Ends, Handshakes, Regular, Blind
<1>9. Shape(V3Plain, 2) /\ Regular(V3Plain, 2)
  BY <1>1 DEF Shape, StepIs, Lists, Ends, Handshakes, Regular, Blind
<1>10. Shape(V3Plain, 3) /\ Regular(V3Plain, 3)
  BY <1>1 DEF Shape, StepIs, Lists, Ends, Handshakes, Regular, Blind
<1>11. Ops(V3Plain) \subseteq {"request", "redial", "exchange"}
  BY <1>1 DEF Ops, StepIs
<1>12. Balanced(V3Plain)
  BY <1>1, <1>4, <1>5, <1>6, <1>7 DEF Balanced
<1>13. Shaped(V3Plain)
  BY <1>1, <1>8, <1>9, <1>10 DEF Shaped, Lists
<1> QED BY <1>1, <1>8, <1>9, <1>10, <1>11, <1>12, <1>13

LEMMA V4ConnectIs ==
    /\ Balanced(V4Connect) /\ Shaped(V4Connect)
    /\ Ops(V4Connect)
           \subseteq {"port", "reply", "context", "acceptBio", "dial", "handshake", "serve"}
    /\ \A n \in 1..Len(V4Connect.steps) : Regular(V4Connect, n)
<1>1. /\ Len(V4Connect.steps) = 7 /\ V4Connect.again = 0
      /\ Lists(V4Connect.finish, {"client", "origin", "clientSsl", "originSsl", "bio"})
      /\ StepIs(V4Connect, 1, "port", {"client"})
      /\ StepIs(V4Connect, 2, "reply", {"client"})
      /\ StepIs(V4Connect, 3, "context", {"client"})
      /\ StepIs(V4Connect, 4, "acceptBio", {"client", "clientSsl", "bio"})
      /\ StepIs(V4Connect, 5, "dial", {"client", "clientSsl", "bio"})
      /\ StepIs(V4Connect, 6, "handshake", {"client", "origin", "clientSsl", "originSsl", "bio"})
      /\ StepIs(V4Connect, 7, "serve", {})
  BY V4ConnectSteps, ListFacts DEF StepIs, Step
<1>2. /\ Made(V4Connect, 1) = {}
      /\ Made(V4Connect, 2) = {}
      /\ Made(V4Connect, 3) = {}
      /\ Made(V4Connect, 4) = {}
      /\ Made(V4Connect, 5) = {"clientSsl", "bio"}
      /\ Made(V4Connect, 6) = {"clientSsl", "bio"}
      /\ Made(V4Connect, 7) = {"clientSsl", "originSsl", "bio"}
  <2>1. Made(V4Connect, 1) = {}
    BY MadeNone
  <2>2. Made(V4Connect, 2) = {}
    BY <1>1, <2>1, MadeNext, 2 = 1 + 1 DEF StepIs, Makes
  <2>3. Made(V4Connect, 3) = {}
    BY <1>1, <2>2, MadeNext, 3 = 2 + 1 DEF StepIs, Makes
  <2>4. Made(V4Connect, 4) = {}
    BY <1>1, <2>3, MadeNext, 4 = 3 + 1 DEF StepIs, Makes
  <2>5. Made(V4Connect, 5) = {"clientSsl", "bio"}
    BY <1>1, <2>4, MadeNext, 5 = 4 + 1 DEF StepIs, Makes
  <2>6. Made(V4Connect, 6) = {"clientSsl", "bio"}
    BY <1>1, <2>5, MadeNext, 6 = 5 + 1 DEF StepIs, Makes
  <2>7. Made(V4Connect, 7) = {"clientSsl", "originSsl", "bio"}
    BY <1>1, <2>6, MadeNext, 7 = 6 + 1 DEF StepIs, Makes
  <2> QED BY <2>1, <2>2, <2>3, <2>4, <2>5, <2>6, <2>7
<1>3. ~KeepsOrigin(V4Connect)
  BY <1>1 DEF KeepsOrigin, StepIs
<1>4. GivesBack(V4Connect, 1)
  <2>1. Made(V4Connect, 1) \cup MakesAnyway("port") \subseteq {"client"}
    BY <1>2, MakesIs
  <2>2. ~MayHoldOrigin(V4Connect, 1)
    BY <1>1, <1>3 DEF MayHoldOrigin, StepIs
  <2> QED BY <1>1, <2>1, <2>2 DEF GivesBack, StepIs, Lists
<1>5. GivesBack(V4Connect, 2)
  <2>1. Made(V4Connect, 2) \cup MakesAnyway("reply") \subseteq {"client"}
    BY <1>2, MakesIs
  <2>2. ~MayHoldOrigin(V4Connect, 2)
    BY <1>1, <1>3 DEF MayHoldOrigin, StepIs
  <2> QED BY <1>1, <2>1, <2>2 DEF GivesBack, StepIs, Lists
<1>6. GivesBack(V4Connect, 3)
  <2>1. Made(V4Connect, 3) \cup MakesAnyway("context") \subseteq {"client"}
    BY <1>2, MakesIs
  <2>2. ~MayHoldOrigin(V4Connect, 3)
    BY <1>1, <1>3 DEF MayHoldOrigin, StepIs
  <2> QED BY <1>1, <2>1, <2>2 DEF GivesBack, StepIs, Lists
<1>7. GivesBack(V4Connect, 4)
  <2>1. Made(V4Connect, 4) \cup MakesAnyway("acceptBio") \subseteq {"client", "clientSsl", "bio"}
    BY <1>2, MakesIs
  <2>2. ~MayHoldOrigin(V4Connect, 4)
    BY <1>1, <1>3 DEF MayHoldOrigin, StepIs
  <2> QED BY <1>1, <2>1, <2>2 DEF GivesBack, StepIs, Lists
<1>8. GivesBack(V4Connect, 5)
  BY <1>1, <1>2, MakesIs DEF GivesBack, StepIs, Lists
<1>9. GivesBack(V4Connect, 6)
  <2>1. Made(V4Connect, 6) \cup MakesAnyway("handshake")
            \subseteq {"client", "origin", "clientSsl", "originSsl", "bio"}
    BY <1>2, MakesIs
  <2> QED BY <1>1, <2>1 DEF GivesBack, StepIs, Lists
<1>10. GivesBack(V4Connect, 7)
  BY <1>1 DEF GivesBack, StepIs, Blind
<1>11. Completes(V4Connect)
  BY <1>1, <1>2, <1>3, MakesIs DEF Completes, StepIs, Lists, MayHoldOrigin
<1>12. Shape(V4Connect, 1) /\ Regular(V4Connect, 1)
  BY <1>1 DEF Shape, StepIs, Lists, Ends, Handshakes, Regular, Blind
<1>13. Shape(V4Connect, 2) /\ Regular(V4Connect, 2)
  BY <1>1 DEF Shape, StepIs, Lists, Ends, Handshakes, Regular, Blind
<1>14. Shape(V4Connect, 3) /\ Regular(V4Connect, 3)
  BY <1>1 DEF Shape, StepIs, Lists, Ends, Handshakes, Regular, Blind
<1>15. Shape(V4Connect, 4) /\ Regular(V4Connect, 4)
  <2>1. \A m \in 1..4 - 1 : V4Connect.steps[m].op # "agree"
    BY <1>1 DEF StepIs
  <2> QED BY <1>1, <2>1 DEF Shape, StepIs, Lists, Ends, Handshakes, Regular, Blind
<1>16. Shape(V4Connect, 5) /\ Regular(V4Connect, 5)
  BY <1>1 DEF Shape, StepIs, Lists, Ends, Handshakes, Regular, Blind
<1>17. Shape(V4Connect, 6) /\ Regular(V4Connect, 6)
  <2>1. \A m \in 1..6 - 1 : V4Connect.steps[m].op # "agree"
    BY <1>1 DEF StepIs
  <2> QED BY <1>1, <2>1 DEF Shape, StepIs, Lists, Ends, Handshakes, Regular, Blind
<1>18. Shape(V4Connect, 7) /\ Regular(V4Connect, 7)
  BY <1>1 DEF Shape, StepIs, Lists, Ends, Handshakes, Regular, Blind
<1>19. Ops(V4Connect)
           \subseteq {"port", "reply", "context", "acceptBio", "dial", "handshake", "serve"}
  BY <1>1 DEF Ops, StepIs
<1>20. Balanced(V4Connect)
  BY <1>1, <1>4, <1>5, <1>6, <1>7, <1>8, <1>9, <1>10, <1>11 DEF Balanced
<1>21. Shaped(V4Connect)
  BY <1>1, <1>12, <1>13, <1>14, <1>15, <1>16, <1>17, <1>18 DEF Shaped, Lists
<1> QED BY <1>1, <1>12, <1>13, <1>14, <1>15, <1>16, <1>17, <1>18, <1>19, <1>20, <1>21

LEMMA PlanBConnectIs ==
    /\ Balanced(PlanBConnect) /\ Shaped(PlanBConnect)
    /\ Ops(PlanBConnect)
           \subseteq {"port", "reply", "context", "acceptBio", "dial", "handshake", "agree", "serve"}
    /\ \A n \in 1..Len(PlanBConnect.steps) \ {1} : Regular(PlanBConnect, n)
    /\ Len(PlanBConnect.steps) = 8 /\ PlanBConnect.steps[1].op = "port"
    /\ Lists(PlanBConnect.steps[1].undo, {}) /\ PlanBConnect.steps[7].op = "agree"
<1>1. /\ Len(PlanBConnect.steps) = 8 /\ PlanBConnect.again = 0
      /\ Lists(PlanBConnect.finish, {"client", "origin", "clientSsl", "originSsl", "bio"})
      /\ StepIs(PlanBConnect, 1, "port", {})
      /\ StepIs(PlanBConnect, 2, "reply", {"client"})
      /\ StepIs(PlanBConnect, 3, "context", {"client"})
      /\ StepIs(PlanBConnect, 4, "acceptBio", {"client", "clientSsl", "bio"})
      /\ StepIs(PlanBConnect, 5, "dial", {"client", "clientSsl", "bio"})
      /\ StepIs(PlanBConnect, 6, "handshake", {"client", "origin", "clientSsl", "originSsl", "bio"})
      /\ StepIs(PlanBConnect, 7, "agree", {"client", "origin", "clientSsl", "originSsl", "bio"})
      /\ StepIs(PlanBConnect, 8, "serve", {})
  BY PlanBConnectSteps, ListFacts DEF StepIs, Step
<1>2. /\ Made(PlanBConnect, 1) = {}
      /\ Made(PlanBConnect, 2) = {}
      /\ Made(PlanBConnect, 3) = {}
      /\ Made(PlanBConnect, 4) = {}
      /\ Made(PlanBConnect, 5) = {"clientSsl", "bio"}
      /\ Made(PlanBConnect, 6) = {"clientSsl", "bio"}
      /\ Made(PlanBConnect, 7) = {"clientSsl", "originSsl", "bio"}
      /\ Made(PlanBConnect, 8) = {"clientSsl", "originSsl", "bio"}
  <2>1. Made(PlanBConnect, 1) = {}
    BY MadeNone
  <2>2. Made(PlanBConnect, 2) = {}
    BY <1>1, <2>1, MadeNext, 2 = 1 + 1 DEF StepIs, Makes
  <2>3. Made(PlanBConnect, 3) = {}
    BY <1>1, <2>2, MadeNext, 3 = 2 + 1 DEF StepIs, Makes
  <2>4. Made(PlanBConnect, 4) = {}
    BY <1>1, <2>3, MadeNext, 4 = 3 + 1 DEF StepIs, Makes
  <2>5. Made(PlanBConnect, 5) = {"clientSsl", "bio"}
    BY <1>1, <2>4, MadeNext, 5 = 4 + 1 DEF StepIs, Makes
  <2>6. Made(PlanBConnect, 6) = {"clientSsl", "bio"}
    BY <1>1, <2>5, MadeNext, 6 = 5 + 1 DEF StepIs, Makes
  <2>7. Made(PlanBConnect, 7) = {"clientSsl", "originSsl", "bio"}
    BY <1>1, <2>6, MadeNext, 7 = 6 + 1 DEF StepIs, Makes
  <2>8. Made(PlanBConnect, 8) = {"clientSsl", "originSsl", "bio"}
    BY <1>1, <2>7, MadeNext, 8 = 7 + 1 DEF StepIs, Makes
  <2> QED BY <2>1, <2>2, <2>3, <2>4, <2>5, <2>6, <2>7, <2>8
<1>3. ~KeepsOrigin(PlanBConnect)
  BY <1>1 DEF KeepsOrigin, StepIs
<1>4. GivesBack(PlanBConnect, 1)
  <2>1. Made(PlanBConnect, 1) \cup MakesAnyway("port") \subseteq {}
    BY <1>2, MakesIs
  <2>2. ~MayHoldOrigin(PlanBConnect, 1)
    BY <1>1, <1>3 DEF MayHoldOrigin, StepIs
  <2> QED BY <1>1, <2>1, <2>2 DEF GivesBack, StepIs, Lists
<1>5. GivesBack(PlanBConnect, 2)
  <2>1. Made(PlanBConnect, 2) \cup MakesAnyway("reply") \subseteq {"client"}
    BY <1>2, MakesIs
  <2>2. ~MayHoldOrigin(PlanBConnect, 2)
    BY <1>1, <1>3 DEF MayHoldOrigin, StepIs
  <2> QED BY <1>1, <2>1, <2>2 DEF GivesBack, StepIs, Lists
<1>6. GivesBack(PlanBConnect, 3)
  <2>1. Made(PlanBConnect, 3) \cup MakesAnyway("context") \subseteq {"client"}
    BY <1>2, MakesIs
  <2>2. ~MayHoldOrigin(PlanBConnect, 3)
    BY <1>1, <1>3 DEF MayHoldOrigin, StepIs
  <2> QED BY <1>1, <2>1, <2>2 DEF GivesBack, StepIs, Lists
<1>7. GivesBack(PlanBConnect, 4)
  <2>1. Made(PlanBConnect, 4) \cup MakesAnyway("acceptBio") \subseteq {"client", "clientSsl", "bio"}
    BY <1>2, MakesIs
  <2>2. ~MayHoldOrigin(PlanBConnect, 4)
    BY <1>1, <1>3 DEF MayHoldOrigin, StepIs
  <2> QED BY <1>1, <2>1, <2>2 DEF GivesBack, StepIs, Lists
<1>8. GivesBack(PlanBConnect, 5)
  BY <1>1, <1>2, MakesIs DEF GivesBack, StepIs, Lists
<1>9. GivesBack(PlanBConnect, 6)
  <2>1. Made(PlanBConnect, 6) \cup MakesAnyway("handshake")
            \subseteq {"client", "origin", "clientSsl", "originSsl", "bio"}
    BY <1>2, MakesIs
  <2> QED BY <1>1, <2>1 DEF GivesBack, StepIs, Lists
<1>10. GivesBack(PlanBConnect, 7)
  <2>1. Made(PlanBConnect, 7) \cup MakesAnyway("agree")
            \subseteq {"client", "origin", "clientSsl", "originSsl", "bio"}
    BY <1>2, MakesIs
  <2> QED BY <1>1, <2>1 DEF GivesBack, StepIs, Lists
<1>11. GivesBack(PlanBConnect, 8)
  BY <1>1 DEF GivesBack, StepIs, Blind
<1>12. Completes(PlanBConnect)
  BY <1>1, <1>2, <1>3, MakesIs DEF Completes, StepIs, Lists, MayHoldOrigin
<1>13. Shape(PlanBConnect, 1)
  BY <1>1 DEF Shape, StepIs, Lists, Ends, Handshakes
<1>14. Shape(PlanBConnect, 2) /\ Regular(PlanBConnect, 2)
  BY <1>1 DEF Shape, StepIs, Lists, Ends, Handshakes, Regular, Blind
<1>15. Shape(PlanBConnect, 3) /\ Regular(PlanBConnect, 3)
  BY <1>1 DEF Shape, StepIs, Lists, Ends, Handshakes, Regular, Blind
<1>16. Shape(PlanBConnect, 4) /\ Regular(PlanBConnect, 4)
  <2>1. \A m \in 1..4 - 1 : PlanBConnect.steps[m].op # "agree"
    BY <1>1 DEF StepIs
  <2> QED BY <1>1, <2>1 DEF Shape, StepIs, Lists, Ends, Handshakes, Regular, Blind
<1>17. Shape(PlanBConnect, 5) /\ Regular(PlanBConnect, 5)
  BY <1>1 DEF Shape, StepIs, Lists, Ends, Handshakes, Regular, Blind
<1>18. Shape(PlanBConnect, 6) /\ Regular(PlanBConnect, 6)
  <2>1. \A m \in 1..6 - 1 : PlanBConnect.steps[m].op # "agree"
    BY <1>1 DEF StepIs
  <2> QED BY <1>1, <2>1 DEF Shape, StepIs, Lists, Ends, Handshakes, Regular, Blind
<1>19. Shape(PlanBConnect, 7) /\ Regular(PlanBConnect, 7)
  BY <1>1 DEF Shape, StepIs, Lists, Ends, Handshakes, Regular, Blind
<1>20. Shape(PlanBConnect, 8) /\ Regular(PlanBConnect, 8)
  BY <1>1 DEF Shape, StepIs, Lists, Ends, Handshakes, Regular, Blind
<1>21. Ops(PlanBConnect)
           \subseteq {"port", "reply", "context", "acceptBio", "dial", "handshake", "agree", "serve"}
  BY <1>1 DEF Ops, StepIs
<1>22. Balanced(PlanBConnect)
  BY <1>1, <1>4, <1>5, <1>6, <1>7, <1>8, <1>9, <1>10, <1>11, <1>12 DEF Balanced
<1>23. Shaped(PlanBConnect)
  BY <1>1, <1>13, <1>14, <1>15, <1>16, <1>17, <1>18, <1>19, <1>20 DEF Shaped, Lists
<1> QED BY <1>1, <1>13, <1>14, <1>15, <1>16, <1>17, <1>18, <1>19, <1>20, <1>21, <1>22, <1>23 DEF StepIs

LEMMA PlanBPlainIs ==
    /\ Balanced(PlanBPlain) /\ Shaped(PlanBPlain)
    /\ Ops(PlanBPlain) \subseteq {"request", "dial", "exchange"}
    /\ \A n \in 1..Len(PlanBPlain.steps) : Regular(PlanBPlain, n)
<1>1. /\ Len(PlanBPlain.steps) = 3 /\ PlanBPlain.again = 1 /\ Lists(PlanBPlain.finish, {"origin"})
      /\ StepIs(PlanBPlain, 1, "request", {"client"})
      /\ StepIs(PlanBPlain, 2, "dial", {"client"})
      /\ StepIs(PlanBPlain, 3, "exchange", {"client", "origin"})
  BY PlanBPlainSteps, ListFacts DEF StepIs, Step
<1>2. /\ Made(PlanBPlain, 1) = {}
      /\ Made(PlanBPlain, 2) = {}
      /\ Made(PlanBPlain, 3) = {}
  <2>1. Made(PlanBPlain, 1) = {}
    BY MadeNone
  <2>2. Made(PlanBPlain, 2) = {}
    BY <1>1, <2>1, MadeNext, 2 = 1 + 1 DEF StepIs, Makes
  <2>3. Made(PlanBPlain, 3) = {}
    BY <1>1, <2>2, MadeNext, 3 = 2 + 1 DEF StepIs, Makes
  <2> QED BY <2>1, <2>2, <2>3
<1>3. ~KeepsOrigin(PlanBPlain)
  BY <1>1 DEF KeepsOrigin, StepIs
<1>4. GivesBack(PlanBPlain, 1)
  <2>1. Made(PlanBPlain, 1) \cup MakesAnyway("request") \subseteq {"client"}
    BY <1>2, MakesIs
  <2>2. ~MayHoldOrigin(PlanBPlain, 1)
    BY <1>1, <1>3 DEF MayHoldOrigin, StepIs
  <2> QED BY <1>1, <2>1, <2>2 DEF GivesBack, StepIs, Lists
<1>5. GivesBack(PlanBPlain, 2)
  BY <1>1, <1>2, MakesIs DEF GivesBack, StepIs, Lists
<1>6. GivesBack(PlanBPlain, 3)
  <2>1. Made(PlanBPlain, 3) \cup MakesAnyway("exchange") \subseteq {"client", "origin"}
    BY <1>2, MakesIs
  <2> QED BY <1>1, <2>1 DEF GivesBack, StepIs, Lists
<1>7. Completes(PlanBPlain)
  BY <1>1, <1>2, <1>3, MakesIs DEF Completes, StepIs, Lists, MayHoldOrigin
<1>8. Shape(PlanBPlain, 1) /\ Regular(PlanBPlain, 1)
  BY <1>1 DEF Shape, StepIs, Lists, Ends, Handshakes, Regular, Blind
<1>9. Shape(PlanBPlain, 2) /\ Regular(PlanBPlain, 2)
  BY <1>1 DEF Shape, StepIs, Lists, Ends, Handshakes, Regular, Blind
<1>10. Shape(PlanBPlain, 3) /\ Regular(PlanBPlain, 3)
  BY <1>1 DEF Shape, StepIs, Lists, Ends, Handshakes, Regular, Blind
<1>11. Ops(PlanBPlain) \subseteq {"request", "dial", "exchange"}
  BY <1>1 DEF Ops, StepIs
<1>12. Balanced(PlanBPlain)
  BY <1>1, <1>4, <1>5, <1>6, <1>7 DEF Balanced
<1>13. Shaped(PlanBPlain)
  BY <1>1, <1>8, <1>9, <1>10 DEF Shaped, Lists
<1> QED BY <1>1, <1>8, <1>9, <1>10, <1>11, <1>12, <1>13

LEMMA MitmPureConnectIs ==
    /\ Balanced(MitmPureConnect) /\ Shaped(MitmPureConnect)
    /\ Ops(MitmPureConnect)
           \subseteq {"blindReply", "ownContext", "acceptBio", "dial", "handshake", "serve"}
    /\ \A n \in 1..Len(MitmPureConnect.steps) : Regular(MitmPureConnect, n)
<1>1. /\ Len(MitmPureConnect.steps) = 6 /\ MitmPureConnect.again = 0
      /\ Lists(MitmPureConnect.finish, {"client", "origin", "clientSsl", "originSsl", "ctx", "bio"})
      /\ StepIs(MitmPureConnect, 1, "blindReply", {})
      /\ StepIs(MitmPureConnect, 2, "ownContext", {"client"})
      /\ StepIs(MitmPureConnect, 3, "acceptBio", {"client", "clientSsl", "ctx", "bio"})
      /\ StepIs(MitmPureConnect, 4, "dial", {"client", "clientSsl", "ctx", "bio"})
      /\ StepIs(MitmPureConnect, 5, "handshake",
             {"client", "origin", "clientSsl", "originSsl", "ctx", "bio"})
      /\ StepIs(MitmPureConnect, 6, "serve", {})
  BY MitmPureConnectSteps, ListFacts DEF StepIs, Step
<1>2. /\ Made(MitmPureConnect, 1) = {}
      /\ Made(MitmPureConnect, 2) = {}
      /\ Made(MitmPureConnect, 3) = {"ctx"}
      /\ Made(MitmPureConnect, 4) = {"clientSsl", "ctx", "bio"}
      /\ Made(MitmPureConnect, 5) = {"clientSsl", "ctx", "bio"}
      /\ Made(MitmPureConnect, 6) = {"clientSsl", "originSsl", "ctx", "bio"}
  <2>1. Made(MitmPureConnect, 1) = {}
    BY MadeNone
  <2>2. Made(MitmPureConnect, 2) = {}
    BY <1>1, <2>1, MadeNext, 2 = 1 + 1 DEF StepIs, Makes
  <2>3. Made(MitmPureConnect, 3) = {"ctx"}
    BY <1>1, <2>2, MadeNext, 3 = 2 + 1 DEF StepIs, Makes
  <2>4. Made(MitmPureConnect, 4) = {"clientSsl", "ctx", "bio"}
    BY <1>1, <2>3, MadeNext, 4 = 3 + 1 DEF StepIs, Makes
  <2>5. Made(MitmPureConnect, 5) = {"clientSsl", "ctx", "bio"}
    BY <1>1, <2>4, MadeNext, 5 = 4 + 1 DEF StepIs, Makes
  <2>6. Made(MitmPureConnect, 6) = {"clientSsl", "originSsl", "ctx", "bio"}
    BY <1>1, <2>5, MadeNext, 6 = 5 + 1 DEF StepIs, Makes
  <2> QED BY <2>1, <2>2, <2>3, <2>4, <2>5, <2>6
<1>3. ~KeepsOrigin(MitmPureConnect)
  BY <1>1 DEF KeepsOrigin, StepIs
<1>4. GivesBack(MitmPureConnect, 1)
  BY <1>1 DEF GivesBack, StepIs, Blind
<1>5. GivesBack(MitmPureConnect, 2)
  <2>1. Made(MitmPureConnect, 2) \cup MakesAnyway("ownContext") \subseteq {"client"}
    BY <1>2, MakesIs
  <2>2. ~MayHoldOrigin(MitmPureConnect, 2)
    BY <1>1, <1>3 DEF MayHoldOrigin, StepIs
  <2> QED BY <1>1, <2>1, <2>2 DEF GivesBack, StepIs, Lists
<1>6. GivesBack(MitmPureConnect, 3)
  <2>1. Made(MitmPureConnect, 3) \cup MakesAnyway("acceptBio")
            \subseteq {"client", "clientSsl", "ctx", "bio"}
    BY <1>2, MakesIs
  <2>2. ~MayHoldOrigin(MitmPureConnect, 3)
    BY <1>1, <1>3 DEF MayHoldOrigin, StepIs
  <2> QED BY <1>1, <2>1, <2>2 DEF GivesBack, StepIs, Lists
<1>7. GivesBack(MitmPureConnect, 4)
  BY <1>1, <1>2, MakesIs DEF GivesBack, StepIs, Lists
<1>8. GivesBack(MitmPureConnect, 5)
  <2>1. Made(MitmPureConnect, 5) \cup MakesAnyway("handshake")
            \subseteq {"client", "origin", "clientSsl", "originSsl", "ctx", "bio"}
    BY <1>2, MakesIs
  <2> QED BY <1>1, <2>1 DEF GivesBack, StepIs, Lists
<1>9. GivesBack(MitmPureConnect, 6)
  BY <1>1 DEF GivesBack, StepIs, Blind
<1>10. Completes(MitmPureConnect)
  BY <1>1, <1>2, <1>3, MakesIs DEF Completes, StepIs, Lists, MayHoldOrigin
<1>11. Shape(MitmPureConnect, 1) /\ Regular(MitmPureConnect, 1)
  BY <1>1 DEF Shape, StepIs, Lists, Ends, Handshakes, Regular, Blind
<1>12. Shape(MitmPureConnect, 2) /\ Regular(MitmPureConnect, 2)
  BY <1>1 DEF Shape, StepIs, Lists, Ends, Handshakes, Regular, Blind
<1>13. Shape(MitmPureConnect, 3) /\ Regular(MitmPureConnect, 3)
  <2>1. \A m \in 1..3 - 1 : MitmPureConnect.steps[m].op # "agree"
    BY <1>1 DEF StepIs
  <2> QED BY <1>1, <2>1 DEF Shape, StepIs, Lists, Ends, Handshakes, Regular, Blind
<1>14. Shape(MitmPureConnect, 4) /\ Regular(MitmPureConnect, 4)
  BY <1>1 DEF Shape, StepIs, Lists, Ends, Handshakes, Regular, Blind
<1>15. Shape(MitmPureConnect, 5) /\ Regular(MitmPureConnect, 5)
  <2>1. \A m \in 1..5 - 1 : MitmPureConnect.steps[m].op # "agree"
    BY <1>1 DEF StepIs
  <2> QED BY <1>1, <2>1 DEF Shape, StepIs, Lists, Ends, Handshakes, Regular, Blind
<1>16. Shape(MitmPureConnect, 6) /\ Regular(MitmPureConnect, 6)
  BY <1>1 DEF Shape, StepIs, Lists, Ends, Handshakes, Regular, Blind
<1>17. Ops(MitmPureConnect)
           \subseteq {"blindReply", "ownContext", "acceptBio", "dial", "handshake", "serve"}
  BY <1>1 DEF Ops, StepIs
<1>18. Balanced(MitmPureConnect)
  BY <1>1, <1>4, <1>5, <1>6, <1>7, <1>8, <1>9, <1>10 DEF Balanced
<1>19. Shaped(MitmPureConnect)
  BY <1>1, <1>11, <1>12, <1>13, <1>14, <1>15, <1>16 DEF Shaped, Lists
<1> QED BY <1>1, <1>11, <1>12, <1>13, <1>14, <1>15, <1>16, <1>17, <1>18, <1>19

LEMMA NoMitmConnectIs ==
    /\ Balanced(NoMitmConnect) /\ Shaped(NoMitmConnect)
    /\ Ops(NoMitmConnect) \subseteq {"target", "dial", "blindReply", "serve"}
    /\ \A n \in 1..Len(NoMitmConnect.steps) : Regular(NoMitmConnect, n)
<1>1. /\ Len(NoMitmConnect.steps) = 4 /\ NoMitmConnect.again = 0
      /\ Lists(NoMitmConnect.finish, {"client", "origin"})
      /\ StepIs(NoMitmConnect, 1, "target", {"client"})
      /\ StepIs(NoMitmConnect, 2, "dial", {"client"})
      /\ StepIs(NoMitmConnect, 3, "blindReply", {})
      /\ StepIs(NoMitmConnect, 4, "serve", {})
  BY NoMitmConnectSteps, ListFacts DEF StepIs, Step
<1>2. /\ Made(NoMitmConnect, 1) = {}
      /\ Made(NoMitmConnect, 2) = {}
      /\ Made(NoMitmConnect, 3) = {}
      /\ Made(NoMitmConnect, 4) = {}
  <2>1. Made(NoMitmConnect, 1) = {}
    BY MadeNone
  <2>2. Made(NoMitmConnect, 2) = {}
    BY <1>1, <2>1, MadeNext, 2 = 1 + 1 DEF StepIs, Makes
  <2>3. Made(NoMitmConnect, 3) = {}
    BY <1>1, <2>2, MadeNext, 3 = 2 + 1 DEF StepIs, Makes
  <2>4. Made(NoMitmConnect, 4) = {}
    BY <1>1, <2>3, MadeNext, 4 = 3 + 1 DEF StepIs, Makes
  <2> QED BY <2>1, <2>2, <2>3, <2>4
<1>3. ~KeepsOrigin(NoMitmConnect)
  BY <1>1 DEF KeepsOrigin, StepIs
<1>4. GivesBack(NoMitmConnect, 1)
  <2>1. Made(NoMitmConnect, 1) \cup MakesAnyway("target") \subseteq {"client"}
    BY <1>2, MakesIs
  <2>2. ~MayHoldOrigin(NoMitmConnect, 1)
    BY <1>1, <1>3 DEF MayHoldOrigin, StepIs
  <2> QED BY <1>1, <2>1, <2>2 DEF GivesBack, StepIs, Lists
<1>5. GivesBack(NoMitmConnect, 2)
  BY <1>1, <1>2, MakesIs DEF GivesBack, StepIs, Lists
<1>6. GivesBack(NoMitmConnect, 3)
  BY <1>1 DEF GivesBack, StepIs, Blind
<1>7. GivesBack(NoMitmConnect, 4)
  BY <1>1 DEF GivesBack, StepIs, Blind
<1>8. Completes(NoMitmConnect)
  BY <1>1, <1>2, <1>3, MakesIs DEF Completes, StepIs, Lists, MayHoldOrigin
<1>9. Shape(NoMitmConnect, 1) /\ Regular(NoMitmConnect, 1)
  BY <1>1 DEF Shape, StepIs, Lists, Ends, Handshakes, Regular, Blind
<1>10. Shape(NoMitmConnect, 2) /\ Regular(NoMitmConnect, 2)
  BY <1>1 DEF Shape, StepIs, Lists, Ends, Handshakes, Regular, Blind
<1>11. Shape(NoMitmConnect, 3) /\ Regular(NoMitmConnect, 3)
  BY <1>1 DEF Shape, StepIs, Lists, Ends, Handshakes, Regular, Blind
<1>12. Shape(NoMitmConnect, 4) /\ Regular(NoMitmConnect, 4)
  BY <1>1 DEF Shape, StepIs, Lists, Ends, Handshakes, Regular, Blind
<1>13. Ops(NoMitmConnect) \subseteq {"target", "dial", "blindReply", "serve"}
  BY <1>1 DEF Ops, StepIs
<1>14. Balanced(NoMitmConnect)
  BY <1>1, <1>4, <1>5, <1>6, <1>7, <1>8 DEF Balanced
<1>15. Shaped(NoMitmConnect)
  BY <1>1, <1>9, <1>10, <1>11, <1>12 DEF Shaped, Lists
<1> QED BY <1>1, <1>9, <1>10, <1>11, <1>12, <1>13, <1>14, <1>15

LEMMA NoMitmPlainIs ==
    /\ Balanced(NoMitmPlain) /\ Shaped(NoMitmPlain)
    /\ Ops(NoMitmPlain) \subseteq {"request", "next", "dial", "exchange"}
    /\ \A n \in 1..Len(NoMitmPlain.steps) : Regular(NoMitmPlain, n)
<1>1. /\ Len(NoMitmPlain.steps) = 4 /\ NoMitmPlain.again = 2
      /\ Lists(NoMitmPlain.finish, {"origin"})
      /\ StepIs(NoMitmPlain, 1, "request", {"client"})
      /\ StepIs(NoMitmPlain, 2, "next", {"client"})
      /\ StepIs(NoMitmPlain, 3, "dial", {"client"})
      /\ StepIs(NoMitmPlain, 4, "exchange", {"client", "origin"})
  BY NoMitmPlainSteps, ListFacts DEF StepIs, Step
<1>2. /\ Made(NoMitmPlain, 1) = {}
      /\ Made(NoMitmPlain, 2) = {}
      /\ Made(NoMitmPlain, 3) = {}
      /\ Made(NoMitmPlain, 4) = {}
  <2>1. Made(NoMitmPlain, 1) = {}
    BY MadeNone
  <2>2. Made(NoMitmPlain, 2) = {}
    BY <1>1, <2>1, MadeNext, 2 = 1 + 1 DEF StepIs, Makes
  <2>3. Made(NoMitmPlain, 3) = {}
    BY <1>1, <2>2, MadeNext, 3 = 2 + 1 DEF StepIs, Makes
  <2>4. Made(NoMitmPlain, 4) = {}
    BY <1>1, <2>3, MadeNext, 4 = 3 + 1 DEF StepIs, Makes
  <2> QED BY <2>1, <2>2, <2>3, <2>4
<1>3. ~KeepsOrigin(NoMitmPlain)
  BY <1>1 DEF KeepsOrigin, StepIs
<1>4. GivesBack(NoMitmPlain, 1)
  <2>1. Made(NoMitmPlain, 1) \cup MakesAnyway("request") \subseteq {"client"}
    BY <1>2, MakesIs
  <2>2. ~MayHoldOrigin(NoMitmPlain, 1)
    BY <1>1, <1>3 DEF MayHoldOrigin, StepIs
  <2> QED BY <1>1, <2>1, <2>2 DEF GivesBack, StepIs, Lists
<1>5. GivesBack(NoMitmPlain, 2)
  <2>1. Made(NoMitmPlain, 2) \cup MakesAnyway("next") \subseteq {"client"}
    BY <1>2, MakesIs
  <2>2. ~MayHoldOrigin(NoMitmPlain, 2)
    BY <1>1, <1>3 DEF MayHoldOrigin, StepIs
  <2> QED BY <1>1, <2>1, <2>2 DEF GivesBack, StepIs, Lists
<1>6. GivesBack(NoMitmPlain, 3)
  BY <1>1, <1>2, MakesIs DEF GivesBack, StepIs, Lists
<1>7. GivesBack(NoMitmPlain, 4)
  <2>1. Made(NoMitmPlain, 4) \cup MakesAnyway("exchange") \subseteq {"client", "origin"}
    BY <1>2, MakesIs
  <2> QED BY <1>1, <2>1 DEF GivesBack, StepIs, Lists
<1>8. Completes(NoMitmPlain)
  BY <1>1, <1>2, <1>3, MakesIs DEF Completes, StepIs, Lists, MayHoldOrigin
<1>9. Shape(NoMitmPlain, 1) /\ Regular(NoMitmPlain, 1)
  BY <1>1 DEF Shape, StepIs, Lists, Ends, Handshakes, Regular, Blind
<1>10. Shape(NoMitmPlain, 2) /\ Regular(NoMitmPlain, 2)
  BY <1>1 DEF Shape, StepIs, Lists, Ends, Handshakes, Regular, Blind
<1>11. Shape(NoMitmPlain, 3) /\ Regular(NoMitmPlain, 3)
  BY <1>1 DEF Shape, StepIs, Lists, Ends, Handshakes, Regular, Blind
<1>12. Shape(NoMitmPlain, 4) /\ Regular(NoMitmPlain, 4)
  BY <1>1 DEF Shape, StepIs, Lists, Ends, Handshakes, Regular, Blind
<1>13. Ops(NoMitmPlain) \subseteq {"request", "next", "dial", "exchange"}
  BY <1>1 DEF Ops, StepIs
<1>14. Balanced(NoMitmPlain)
  BY <1>1, <1>4, <1>5, <1>6, <1>7, <1>8 DEF Balanced
<1>15. Shaped(NoMitmPlain)
  BY <1>1, <1>9, <1>10, <1>11, <1>12 DEF Shaped, Lists
<1> QED BY <1>1, <1>9, <1>10, <1>11, <1>12, <1>13, <1>14, <1>15

LEMMA PureM3ConnectIs ==
    /\ Balanced(PureM3Connect) /\ Shaped(PureM3Connect)
    /\ Ops(PureM3Connect) \subseteq {"dial", "blindReply", "serve"}
    /\ \A n \in 1..Len(PureM3Connect.steps) : Regular(PureM3Connect, n)
<1>1. /\ Len(PureM3Connect.steps) = 3 /\ PureM3Connect.again = 0
      /\ Lists(PureM3Connect.finish, {"client", "origin"})
      /\ StepIs(PureM3Connect, 1, "dial", {"client"})
      /\ StepIs(PureM3Connect, 2, "blindReply", {})
      /\ StepIs(PureM3Connect, 3, "serve", {})
  BY PureM3ConnectSteps, ListFacts DEF StepIs, Step
<1>2. /\ Made(PureM3Connect, 1) = {}
      /\ Made(PureM3Connect, 2) = {}
      /\ Made(PureM3Connect, 3) = {}
  <2>1. Made(PureM3Connect, 1) = {}
    BY MadeNone
  <2>2. Made(PureM3Connect, 2) = {}
    BY <1>1, <2>1, MadeNext, 2 = 1 + 1 DEF StepIs, Makes
  <2>3. Made(PureM3Connect, 3) = {}
    BY <1>1, <2>2, MadeNext, 3 = 2 + 1 DEF StepIs, Makes
  <2> QED BY <2>1, <2>2, <2>3
<1>3. ~KeepsOrigin(PureM3Connect)
  BY <1>1 DEF KeepsOrigin, StepIs
<1>4. GivesBack(PureM3Connect, 1)
  BY <1>1, <1>2, MakesIs DEF GivesBack, StepIs, Lists
<1>5. GivesBack(PureM3Connect, 2)
  BY <1>1 DEF GivesBack, StepIs, Blind
<1>6. GivesBack(PureM3Connect, 3)
  BY <1>1 DEF GivesBack, StepIs, Blind
<1>7. Completes(PureM3Connect)
  BY <1>1, <1>2, <1>3, MakesIs DEF Completes, StepIs, Lists, MayHoldOrigin
<1>8. Shape(PureM3Connect, 1) /\ Regular(PureM3Connect, 1)
  BY <1>1 DEF Shape, StepIs, Lists, Ends, Handshakes, Regular, Blind
<1>9. Shape(PureM3Connect, 2) /\ Regular(PureM3Connect, 2)
  BY <1>1 DEF Shape, StepIs, Lists, Ends, Handshakes, Regular, Blind
<1>10. Shape(PureM3Connect, 3) /\ Regular(PureM3Connect, 3)
  BY <1>1 DEF Shape, StepIs, Lists, Ends, Handshakes, Regular, Blind
<1>11. Ops(PureM3Connect) \subseteq {"dial", "blindReply", "serve"}
  BY <1>1 DEF Ops, StepIs
<1>12. Balanced(PureM3Connect)
  BY <1>1, <1>4, <1>5, <1>6, <1>7 DEF Balanced
<1>13. Shaped(PureM3Connect)
  BY <1>1, <1>8, <1>9, <1>10 DEF Shaped, Lists
<1> QED BY <1>1, <1>8, <1>9, <1>10, <1>11, <1>12, <1>13

LEMMA PureM3PlainIs ==
    /\ Balanced(PureM3Plain) /\ Shaped(PureM3Plain)
    /\ Ops(PureM3Plain) \subseteq {"request", "target", "dial", "serve"}
    /\ \A n \in 1..Len(PureM3Plain.steps) \ {2, 3} : Regular(PureM3Plain, n)
    /\ \A n \in 1..Len(PureM3Plain.steps) : PureM3Plain.steps[n].op \in {"target", "dial"} <=> n \in {2, 3}
    /\ \A n \in {2, 3} : PureM3Plain.steps[n].undo = Twice /\ ~MayHoldOrigin(PureM3Plain, n)
<1>1. /\ Len(PureM3Plain.steps) = 4 /\ PureM3Plain.again = 0
      /\ Lists(PureM3Plain.finish, {"client", "origin"})
      /\ StepIs(PureM3Plain, 1, "request", {"client"})
      /\ TwiceIs(PureM3Plain, 2, "target")
      /\ TwiceIs(PureM3Plain, 3, "dial")
      /\ StepIs(PureM3Plain, 4, "serve", {})
  BY PureM3PlainSteps, ListFacts DEF StepIs, Step, TwiceIs, Twice
<1>2. /\ Made(PureM3Plain, 1) = {}
      /\ Made(PureM3Plain, 2) = {}
      /\ Made(PureM3Plain, 3) = {}
      /\ Made(PureM3Plain, 4) = {}
  <2>1. Made(PureM3Plain, 1) = {}
    BY MadeNone
  <2>2. Made(PureM3Plain, 2) = {}
    BY <1>1, <2>1, MadeNext, 2 = 1 + 1 DEF StepIs, Makes, TwiceIs
  <2>3. Made(PureM3Plain, 3) = {}
    BY <1>1, <2>2, MadeNext, 3 = 2 + 1 DEF StepIs, Makes, TwiceIs
  <2>4. Made(PureM3Plain, 4) = {}
    BY <1>1, <2>3, MadeNext, 4 = 3 + 1 DEF StepIs, Makes, TwiceIs
  <2> QED BY <2>1, <2>2, <2>3, <2>4
<1>3. ~KeepsOrigin(PureM3Plain)
  BY <1>1 DEF KeepsOrigin, StepIs, TwiceIs
<1>4. GivesBack(PureM3Plain, 1)
  <2>1. Made(PureM3Plain, 1) \cup MakesAnyway("request") \subseteq {"client"}
    BY <1>2, MakesIs
  <2>2. ~MayHoldOrigin(PureM3Plain, 1)
    BY <1>1, <1>3 DEF MayHoldOrigin, StepIs, TwiceIs
  <2> QED BY <1>1, <2>1, <2>2, TwiceFacts DEF GivesBack, StepIs, Lists, TwiceIs
<1>5. GivesBack(PureM3Plain, 2)
  <2>1. Made(PureM3Plain, 2) \cup MakesAnyway("target") \subseteq {"client"}
    BY <1>2, MakesIs
  <2>2. ~MayHoldOrigin(PureM3Plain, 2)
    BY <1>1, <1>3 DEF MayHoldOrigin, StepIs, TwiceIs
  <2> QED BY <1>1, <2>1, <2>2, TwiceFacts DEF GivesBack, StepIs, Lists, TwiceIs
<1>6. GivesBack(PureM3Plain, 3)
  BY <1>1, <1>2, MakesIs DEF GivesBack, StepIs, Lists, TwiceIs
<1>7. GivesBack(PureM3Plain, 4)
  BY <1>1 DEF GivesBack, StepIs, Blind
<1>8. Completes(PureM3Plain)
  BY <1>1, <1>2, <1>3, MakesIs DEF Completes, StepIs, Lists, MayHoldOrigin, TwiceIs
<1>9. Shape(PureM3Plain, 1) /\ Regular(PureM3Plain, 1)
  BY <1>1, TwiceFacts DEF Shape, StepIs, Lists, Ends, Handshakes, Regular, Blind, TwiceIs
<1>10. Shape(PureM3Plain, 2)
  BY <1>1, TwiceFacts DEF Shape, StepIs, Lists, Ends, Handshakes, TwiceIs
<1>11. Shape(PureM3Plain, 3)
  BY <1>1, TwiceFacts DEF Shape, StepIs, Lists, Ends, Handshakes, TwiceIs
<1>12. Shape(PureM3Plain, 4) /\ Regular(PureM3Plain, 4)
  BY <1>1, TwiceFacts DEF Shape, StepIs, Lists, Ends, Handshakes, Regular, Blind, TwiceIs
<1>13. Ops(PureM3Plain) \subseteq {"request", "target", "dial", "serve"}
  BY <1>1 DEF Ops, StepIs, TwiceIs
<1>14. Balanced(PureM3Plain)
  BY <1>1, <1>4, <1>5, <1>6, <1>7, <1>8 DEF Balanced
<1>15. Shaped(PureM3Plain)
  BY <1>1, <1>9, <1>10, <1>11, <1>12 DEF Shaped, Lists
<1> QED BY <1>1, <1>3, <1>9, <1>10, <1>11, <1>12, <1>13, <1>14, <1>15 DEF StepIs, TwiceIs, MayHoldOrigin

LEMMA EngineConnectIs ==
    /\ Balanced(EngineConnect) /\ Shaped(EngineConnect)
    /\ Ops(EngineConnect)
           \subseteq {"blindReply", "context", "accept", "dial", "handshake", "serve"}
    /\ \A n \in 1..Len(EngineConnect.steps) : Regular(EngineConnect, n)
<1>1. /\ Len(EngineConnect.steps) = 6 /\ EngineConnect.again = 0
      /\ Lists(EngineConnect.finish, {"client", "origin", "clientSsl", "originSsl"})
      /\ StepIs(EngineConnect, 1, "blindReply", {})
      /\ StepIs(EngineConnect, 2, "context", {"client", "origin", "clientSsl", "originSsl"})
      /\ StepIs(EngineConnect, 3, "accept", {"client", "origin", "clientSsl", "originSsl"})
      /\ StepIs(EngineConnect, 4, "dial", {"client", "origin", "clientSsl", "originSsl"})
      /\ StepIs(EngineConnect, 5, "handshake", {"client", "origin", "clientSsl", "originSsl"})
      /\ StepIs(EngineConnect, 6, "serve", {})
  BY EngineConnectSteps, ListFacts DEF StepIs, Step
<1>2. /\ Made(EngineConnect, 1) = {}
      /\ Made(EngineConnect, 2) = {}
      /\ Made(EngineConnect, 3) = {}
      /\ Made(EngineConnect, 4) = {"clientSsl"}
      /\ Made(EngineConnect, 5) = {"clientSsl"}
      /\ Made(EngineConnect, 6) = {"clientSsl", "originSsl"}
  <2>1. Made(EngineConnect, 1) = {}
    BY MadeNone
  <2>2. Made(EngineConnect, 2) = {}
    BY <1>1, <2>1, MadeNext, 2 = 1 + 1 DEF StepIs, Makes
  <2>3. Made(EngineConnect, 3) = {}
    BY <1>1, <2>2, MadeNext, 3 = 2 + 1 DEF StepIs, Makes
  <2>4. Made(EngineConnect, 4) = {"clientSsl"}
    BY <1>1, <2>3, MadeNext, 4 = 3 + 1 DEF StepIs, Makes
  <2>5. Made(EngineConnect, 5) = {"clientSsl"}
    BY <1>1, <2>4, MadeNext, 5 = 4 + 1 DEF StepIs, Makes
  <2>6. Made(EngineConnect, 6) = {"clientSsl", "originSsl"}
    BY <1>1, <2>5, MadeNext, 6 = 5 + 1 DEF StepIs, Makes
  <2> QED BY <2>1, <2>2, <2>3, <2>4, <2>5, <2>6
<1>3. ~KeepsOrigin(EngineConnect)
  BY <1>1 DEF KeepsOrigin, StepIs
<1>4. GivesBack(EngineConnect, 1)
  BY <1>1 DEF GivesBack, StepIs, Blind
<1>5. GivesBack(EngineConnect, 2)
  <2>1. Made(EngineConnect, 2) \cup MakesAnyway("context")
            \subseteq {"client", "origin", "clientSsl", "originSsl"}
    BY <1>2, MakesIs
  <2>2. ~MayHoldOrigin(EngineConnect, 2)
    BY <1>1, <1>3 DEF MayHoldOrigin, StepIs
  <2> QED BY <1>1, <2>1, <2>2 DEF GivesBack, StepIs, Lists
<1>6. GivesBack(EngineConnect, 3)
  <2>1. Made(EngineConnect, 3) \cup MakesAnyway("accept")
            \subseteq {"client", "origin", "clientSsl", "originSsl"}
    BY <1>2, MakesIs
  <2>2. ~MayHoldOrigin(EngineConnect, 3)
    BY <1>1, <1>3 DEF MayHoldOrigin, StepIs
  <2> QED BY <1>1, <2>1, <2>2 DEF GivesBack, StepIs, Lists
<1>7. GivesBack(EngineConnect, 4)
  BY <1>1, <1>2, MakesIs DEF GivesBack, StepIs, Lists
<1>8. GivesBack(EngineConnect, 5)
  <2>1. Made(EngineConnect, 5) \cup MakesAnyway("handshake")
            \subseteq {"client", "origin", "clientSsl", "originSsl"}
    BY <1>2, MakesIs
  <2> QED BY <1>1, <2>1 DEF GivesBack, StepIs, Lists
<1>9. GivesBack(EngineConnect, 6)
  BY <1>1 DEF GivesBack, StepIs, Blind
<1>10. Completes(EngineConnect)
  BY <1>1, <1>2, <1>3, MakesIs DEF Completes, StepIs, Lists, MayHoldOrigin
<1>11. Shape(EngineConnect, 1) /\ Regular(EngineConnect, 1)
  BY <1>1 DEF Shape, StepIs, Lists, Ends, Handshakes, Regular, Blind
<1>12. Shape(EngineConnect, 2) /\ Regular(EngineConnect, 2)
  BY <1>1 DEF Shape, StepIs, Lists, Ends, Handshakes, Regular, Blind
<1>13. Shape(EngineConnect, 3) /\ Regular(EngineConnect, 3)
  <2>1. \A m \in 1..3 - 1 : EngineConnect.steps[m].op # "agree"
    BY <1>1 DEF StepIs
  <2> QED BY <1>1, <2>1 DEF Shape, StepIs, Lists, Ends, Handshakes, Regular, Blind
<1>14. Shape(EngineConnect, 4) /\ Regular(EngineConnect, 4)
  BY <1>1 DEF Shape, StepIs, Lists, Ends, Handshakes, Regular, Blind
<1>15. Shape(EngineConnect, 5) /\ Regular(EngineConnect, 5)
  <2>1. \A m \in 1..5 - 1 : EngineConnect.steps[m].op # "agree"
    BY <1>1 DEF StepIs
  <2> QED BY <1>1, <2>1 DEF Shape, StepIs, Lists, Ends, Handshakes, Regular, Blind
<1>16. Shape(EngineConnect, 6) /\ Regular(EngineConnect, 6)
  BY <1>1 DEF Shape, StepIs, Lists, Ends, Handshakes, Regular, Blind
<1>17. Ops(EngineConnect)
           \subseteq {"blindReply", "context", "accept", "dial", "handshake", "serve"}
  BY <1>1 DEF Ops, StepIs
<1>18. Balanced(EngineConnect)
  BY <1>1, <1>4, <1>5, <1>6, <1>7, <1>8, <1>9, <1>10 DEF Balanced
<1>19. Shaped(EngineConnect)
  BY <1>1, <1>11, <1>12, <1>13, <1>14, <1>15, <1>16 DEF Shaped, Lists
<1> QED BY <1>1, <1>11, <1>12, <1>13, <1>14, <1>15, <1>16, <1>17, <1>18, <1>19

LEMMA EnginePlainIs ==
    /\ Balanced(EnginePlain) /\ Shaped(EnginePlain)
    /\ Ops(EnginePlain) \subseteq {"request", "refuse"}
    /\ \A n \in 1..Len(EnginePlain.steps) : Regular(EnginePlain, n)
<1>1. /\ Len(EnginePlain.steps) = 2 /\ EnginePlain.again = 0
      /\ Lists(EnginePlain.finish, {"client", "origin", "clientSsl", "originSsl"})
      /\ StepIs(EnginePlain, 1, "request", {"client", "origin", "clientSsl", "originSsl"})
      /\ StepIs(EnginePlain, 2, "refuse", {"client", "origin", "clientSsl", "originSsl"})
  BY EnginePlainSteps, ListFacts DEF StepIs, Step
<1>2. /\ Made(EnginePlain, 1) = {}
      /\ Made(EnginePlain, 2) = {}
  <2>1. Made(EnginePlain, 1) = {}
    BY MadeNone
  <2>2. Made(EnginePlain, 2) = {}
    BY <1>1, <2>1, MadeNext, 2 = 1 + 1 DEF StepIs, Makes
  <2> QED BY <2>1, <2>2
<1>3. ~KeepsOrigin(EnginePlain)
  BY <1>1 DEF KeepsOrigin, StepIs
<1>4. GivesBack(EnginePlain, 1)
  <2>1. Made(EnginePlain, 1) \cup MakesAnyway("request")
            \subseteq {"client", "origin", "clientSsl", "originSsl"}
    BY <1>2, MakesIs
  <2>2. ~MayHoldOrigin(EnginePlain, 1)
    BY <1>1, <1>3 DEF MayHoldOrigin, StepIs
  <2> QED BY <1>1, <2>1, <2>2 DEF GivesBack, StepIs, Lists
<1>5. GivesBack(EnginePlain, 2)
  <2>1. Made(EnginePlain, 2) \cup MakesAnyway("refuse")
            \subseteq {"client", "origin", "clientSsl", "originSsl"}
    BY <1>2, MakesIs
  <2>2. ~MayHoldOrigin(EnginePlain, 2)
    BY <1>1, <1>3 DEF MayHoldOrigin, StepIs
  <2> QED BY <1>1, <2>1, <2>2 DEF GivesBack, StepIs, Lists
<1>6. Completes(EnginePlain)
  BY <1>1, <1>2, <1>3, MakesIs DEF Completes, StepIs, Lists, MayHoldOrigin
<1>7. Shape(EnginePlain, 1) /\ Regular(EnginePlain, 1)
  BY <1>1 DEF Shape, StepIs, Lists, Ends, Handshakes, Regular, Blind
<1>8. Shape(EnginePlain, 2) /\ Regular(EnginePlain, 2)
  BY <1>1 DEF Shape, StepIs, Lists, Ends, Handshakes, Regular, Blind
<1>9. Ops(EnginePlain) \subseteq {"request", "refuse"}
  BY <1>1 DEF Ops, StepIs
<1>10. Balanced(EnginePlain)
  BY <1>1, <1>4, <1>5, <1>6 DEF Balanced
<1>11. Shaped(EnginePlain)
  BY <1>1, <1>7, <1>8 DEF Shaped, Lists
<1> QED BY <1>1, <1>7, <1>8, <1>9, <1>10, <1>11

-----------------------------------------------------------------------------
(* The programs: each has two of these ways.                               *)

Names == {"v3", "v4", "planA", "planB", "mitmPure", "noMitm", "pureM3", "engine"}
Kinds == {"connect", "plain"}
WayOf(p, k) == IF k = "connect" THEN PathOf[p].connect ELSE PathOf[p].plain

LEMMA Programs ==
    /\ DOMAIN PathOf = Names
    /\ PathOf["v3"] = Program(V3Connect, V3Plain, NoAlpn)
    /\ PathOf["v4"] = Program(V4Connect, V3Plain, NoAlpn)
    /\ PathOf["planA"] = Program(V4Connect, V3Plain, Http1)
    /\ PathOf["planB"] = Program(PlanBConnect, PlanBPlain, PreferH2)
    /\ PathOf["mitmPure"] = Program(MitmPureConnect, PlanBPlain, NoAlpn)
    /\ PathOf["noMitm"] = Program(NoMitmConnect, NoMitmPlain, NoAlpn)
    /\ PathOf["pureM3"] = Program(PureM3Connect, PureM3Plain, NoAlpn)
    /\ PathOf["engine"] = Program(EngineConnect, EnginePlain, PreferH2)
BY DEF PathOf, Names, V4Plain, PlanAConnect, PlanAPlain, MitmPurePlain

LEMMA Ways ==
    /\ WayOf("v3", "connect") = V3Connect /\ WayOf("v3", "plain") = V3Plain
    /\ WayOf("v4", "connect") = V4Connect /\ WayOf("v4", "plain") = V3Plain
    /\ WayOf("planA", "connect") = V4Connect /\ WayOf("planA", "plain") = V3Plain
    /\ WayOf("planB", "connect") = PlanBConnect /\ WayOf("planB", "plain") = PlanBPlain
    /\ WayOf("mitmPure", "connect") = MitmPureConnect /\ WayOf("mitmPure", "plain") = PlanBPlain
    /\ WayOf("noMitm", "connect") = NoMitmConnect /\ WayOf("noMitm", "plain") = NoMitmPlain
    /\ WayOf("pureM3", "connect") = PureM3Connect /\ WayOf("pureM3", "plain") = PureM3Plain
    /\ WayOf("engine", "connect") = EngineConnect /\ WayOf("engine", "plain") = EnginePlain
BY Programs DEF WayOf, Program

LEMMA WaysAreRight ==
    \A p \in Names, k \in Kinds : Balanced(WayOf(p, k)) /\ Shaped(WayOf(p, k))
BY Ways, V3ConnectIs, V3PlainIs, V4ConnectIs, PlanBConnectIs, PlanBPlainIs, MitmPureConnectIs,
   NoMitmConnectIs, NoMitmPlainIs, PureM3ConnectIs, PureM3PlainIs, EngineConnectIs, EnginePlainIs
   DEF Names, Kinds

\* The steps each way is made of.
LEMMA OpsAre ==
    /\ Ops(V3Connect) \subseteq {"port", "dial", "reply", "serve"}
    /\ Ops(V3Plain) \subseteq {"request", "redial", "exchange"}
    /\ Ops(V4Connect)
           \subseteq {"port", "reply", "context", "acceptBio", "dial", "handshake", "serve"}
    /\ Ops(PlanBConnect)
           \subseteq {"port", "reply", "context", "acceptBio", "dial", "handshake", "agree", "serve"}
    /\ Ops(PlanBPlain) \subseteq {"request", "dial", "exchange"}
    /\ Ops(MitmPureConnect)
           \subseteq {"blindReply", "ownContext", "acceptBio", "dial", "handshake", "serve"}
    /\ Ops(NoMitmConnect) \subseteq {"target", "dial", "blindReply", "serve"}
    /\ Ops(NoMitmPlain) \subseteq {"request", "next", "dial", "exchange"}
    /\ Ops(PureM3Connect) \subseteq {"dial", "blindReply", "serve"}
    /\ Ops(PureM3Plain) \subseteq {"request", "target", "dial", "serve"}
    /\ Ops(EngineConnect)
           \subseteq {"blindReply", "context", "accept", "dial", "handshake", "serve"}
    /\ Ops(EnginePlain) \subseteq {"request", "refuse"}
BY V3ConnectIs, V3PlainIs, V4ConnectIs, PlanBConnectIs, PlanBPlainIs, MitmPureConnectIs,
   NoMitmConnectIs, NoMitmPlainIs, PureM3ConnectIs, PureM3PlainIs, EngineConnectIs, EnginePlainIs

\* What no way of a kind, or of a program, does.
LEMMA OpsOfWays ==
    ASSUME NEW p \in Names, NEW k \in Kinds
    PROVE  /\ k = "plain" => Ops(WayOf(p, k)) \cap (Handshakes \cup {"agree", "ownContext"}) = {}
           /\ "accept" \in Ops(WayOf(p, k)) => p = "engine"
           /\ "refuse" \in Ops(WayOf(p, k)) => p = "engine"
           /\ k = "connect" => "request" \notin Ops(WayOf(p, k))
BY Ways, OpsAre DEF Names, Kinds, Handshakes

\* What a step that fails gives back: the client's socket, everything once; but for
\* the two early returns of proxy_pure_m3 and for the port plan B refuses.
LEMMA WaysAreRegular ==
    ASSUME NEW p \in Names, NEW k \in Kinds, NEW n \in 1..Len(WayOf(p, k).steps)
    PROVE  LET w == WayOf(p, k)
               op == w.steps[n].op
           IN IF p = "pureM3" /\ k = "plain" /\ op \in {"target", "dial"}
              THEN w.steps[n].undo = Twice /\ ~MayHoldOrigin(w, n)
              ELSE IF p = "planB" /\ k = "connect" /\ op = "port"
              THEN Lists(w.steps[n].undo, {})
              ELSE Regular(w, n)
<1>1. CASE p = "pureM3"
  BY <1>1, Ways, PureM3ConnectIs, PureM3PlainIs DEF Kinds
<1>2. CASE p = "planB"
  <2>1. CASE k = "plain"
    BY <1>2, <2>1, Ways, PlanBPlainIs
  <2>2. CASE k = "connect" /\ n = 1
    BY <1>2, <2>2, Ways, PlanBConnectIs
  <2>3. CASE k = "connect" /\ n # 1
    <3>1. PlanBConnect.steps[n].op # "port"
      BY <1>2, <2>3, Ways, PlanBConnectIs DEF Shaped, Shape
    <3> QED BY <1>2, <2>3, <3>1, Ways, PlanBConnectIs
  <2> QED BY <2>1, <2>2, <2>3 DEF Kinds
<1>3. CASE p \in Names \ {"pureM3", "planB"}
  BY <1>3, Ways, V3ConnectIs, V3PlainIs, V4ConnectIs, PlanBPlainIs, MitmPureConnectIs,
     NoMitmConnectIs, NoMitmPlainIs, EngineConnectIs, EnginePlainIs DEF Names, Kinds
<1> QED BY <1>1, <1>2, <1>3

\* Plan B and the engine alone speak h2.
LEMMA Protocol ==
    ASSUME NEW p \in Names
    PROVE  /\ PathOf[p].alpn \in Seq(Protocols)
           /\ \A n \in 1..Len(PathOf[p].alpn) : PathOf[p].alpn[n] = "h2" => p \in {"planB", "engine"}
<1>1. CASE p \in {"v3", "v4", "mitmPure", "noMitm", "pureM3"}
  <2>1. PathOf[p].alpn = <<>>
    BY <1>1, Programs DEF Program, NoAlpn
  <2> QED BY <2>1 DEF Protocols
<1>2. CASE p = "planA"
  <2>1. PathOf[p].alpn = <<"http/1.1">>
    BY <1>2, Programs DEF Program, Http1
  <2> QED BY <2>1 DEF Protocols
<1>3. CASE p \in {"planB", "engine"}
  <2>1. PathOf[p].alpn = <<"h2", "http/1.1">>
    BY <1>3, Programs DEF Program, PreferH2
  <2> QED BY <1>3, <2>1 DEF Protocols
<1> QED BY <1>1, <1>2, <1>3 DEF Names

-----------------------------------------------------------------------------
(* Lists, and the steps of a way.                                          *)

LEMMA NothingListed == Things(<<>>) = {}
BY DEF Things

\* Taking the first thing of a list.
LEMMA FirstAndRest ==
    ASSUME NEW list \in Seq(Resources), list # <<>>
    PROVE  /\ Head(list) \in Resources /\ Tail(list) \in Seq(Resources)
           /\ Things(list) = {Head(list)} \cup Things(Tail(list))
           /\ InOrder(list) =>
                 /\ Head(list) \notin Things(Tail(list)) /\ InOrder(Tail(list))
                 /\ Head(list) = "bio" => "clientSsl" \notin Things(Tail(list))
<1>1. /\ Len(list) \in Nat \ {0} /\ Head(list) = list[1] /\ Head(list) \in Resources
      /\ Tail(list) \in Seq(Resources) /\ Len(Tail(list)) = Len(list) - 1
      /\ \A i \in 1..Len(list) - 1 : Tail(list)[i] = list[i + 1]
  OBVIOUS
<1>2. ASSUME NEW x \in Things(list)
      PROVE  x \in {Head(list)} \cup Things(Tail(list))
  <2>1. PICK i \in 1..Len(list) : x = list[i]
    BY DEF Things
  <2>2. CASE i = 1
    BY <1>1, <2>1, <2>2
  <2>3. CASE i # 1
    <3>1. i - 1 \in 1..Len(Tail(list)) /\ Tail(list)[i - 1] = x
      BY <1>1, <2>1, <2>3
    <3> QED BY <3>1 DEF Things
  <2> QED BY <2>2, <2>3
<1>3. ASSUME NEW x \in Things(Tail(list))
      PROVE  \E i \in 2..Len(list) : x = list[i]
  <2>1. PICK i \in 1..Len(Tail(list)) : x = Tail(list)[i]
    BY DEF Things
  <2>2. i + 1 \in 2..Len(list) /\ x = list[i + 1]
    BY <1>1, <2>1
  <2> QED BY <2>2
<1>4. Things(list) = {Head(list)} \cup Things(Tail(list))
  BY <1>1, <1>2, <1>3 DEF Things
<1>5. ASSUME InOrder(list)
      PROVE  /\ Head(list) \notin Things(Tail(list))
             /\ Head(list) = "bio" => "clientSsl" \notin Things(Tail(list))
  <2>1. ASSUME NEW x \in Things(Tail(list))
        PROVE  Head(list) # x /\ ~(Head(list) = "bio" /\ x = "clientSsl")
    <3>1. PICK i \in 2..Len(list) : x = list[i]
      BY <1>3
    <3>2. 1 \in 1..Len(list) /\ i \in 1..Len(list) /\ 1 < i
      BY <1>1
    <3>3. list[1] # list[i] /\ ~(list[1] = "bio" /\ list[i] = "clientSsl")
      BY <1>5, <3>2 DEF InOrder
    <3> QED BY <1>1, <3>1, <3>3
  <2> QED BY <2>1
<1>6. ASSUME InOrder(list)
      PROVE  InOrder(Tail(list))
  <2>1. ASSUME NEW i \in 1..Len(Tail(list)), NEW j \in 1..Len(Tail(list)), i < j
        PROVE  Tail(list)[i] # Tail(list)[j] /\ ~(Tail(list)[i] = "bio" /\ Tail(list)[j] = "clientSsl")
    <3>1. i + 1 \in 1..Len(list) /\ j + 1 \in 1..Len(list) /\ i + 1 < j + 1
      BY <1>1, <2>1
    <3>2. Tail(list)[i] = list[i + 1] /\ Tail(list)[j] = list[j + 1]
      BY <1>1
    <3>3. list[i + 1] # list[j + 1] /\ ~(list[i + 1] = "bio" /\ list[j + 1] = "clientSsl")
      BY <1>6, <3>1 DEF InOrder
    <3> QED BY <3>2, <3>3
  <2> QED BY <2>1 DEF InOrder
<1> QED BY <1>1, <1>4, <1>5, <1>6

\* What is made and held before a step is made and held before the next one.
LEMMA NextStep ==
    ASSUME NEW w, Shaped(w), NEW n \in 1..Len(w.steps)
    PROVE  /\ w.steps[n].op \notin Ends => n + 1 \in 1..Len(w.steps)
           /\ MayHoldOrigin(w, n) => MayHoldOrigin(w, n + 1)
           /\ w.steps[n].op = "dial" => MayHoldOrigin(w, n + 1)
           /\ w.steps[n].op = "redial" => KeepsOrigin(w)
           /\ Made(w, n + 1) = Made(w, n) \cup Makes(w.steps[n].op)
<1>1. Len(w.steps) \in Nat /\ (w.steps[n].op \in Ends <=> n = Len(w.steps))
  BY DEF Shaped, Shape
<1>2. 1..n - 1 \subseteq 1..(n + 1) - 1 /\ n \in 1..(n + 1) - 1
  BY <1>1
<1>3. n \in Nat \ {0}
  BY <1>1
<1>4. MayHoldOrigin(w, n) \/ w.steps[n].op = "dial" => MayHoldOrigin(w, n + 1)
  BY <1>2, Zenon DEF MayHoldOrigin
<1>5. w.steps[n].op = "redial" => KeepsOrigin(w)
  BY Zenon DEF KeepsOrigin
<1>6. w.steps[n].op \notin Ends => n + 1 \in 1..Len(w.steps)
  BY <1>1
<1> QED BY <1>3, <1>4, <1>5, <1>6, MadeNext

-----------------------------------------------------------------------------
(* A thread, and the others.                                               *)

Fine(c) == Untouched(c) /\ GoingOn(c) /\ GivingBack(c) /\ HasBio(c) /\ Speaking(c)

\* A thread is at a step of a right way.
LEMMA WhereItIs ==
    ASSUME TypeOK, NEW c \in Conn
    PROVE  /\ program \in Names /\ way[c] \in Kinds /\ Current(c) = WayOf(program, way[c])
           /\ Balanced(Current(c)) /\ Shaped(Current(c))
           /\ step[c] \in 1..Len(Current(c).steps) /\ Op(c) \in Ops(Current(c))
<1>1. program \in Names
  BY ConnectionsAssumption, Programs DEF TypeOK
<1>2. way[c] \in Kinds /\ step[c] \in 1..Len(Current(c).steps)
  BY DEF TypeOK, Kinds
<1>3. Current(c) = WayOf(program, way[c])
  BY DEF Current, Path, WayOf
<1>4. Op(c) \in Ops(Current(c))
  BY <1>2 DEF Op, Ops
<1> QED BY <1>1, <1>2, <1>3, <1>4, WaysAreRight

\* What a thread is in: a step of another leaves it alone.
Row(c) == <<life[c], way[c], step[c], undo[c], failed[c], sock[c], closed[c], object[c], speaks[c]>>
LEMMA OthersKeep ==
    ASSUME NEW c \in Conn, Fine(c), program' = program, Row(c)' = Row(c)
    PROVE  Fine(c)'
<1>1. /\ life'[c] = life[c] /\ way'[c] = way[c] /\ step'[c] = step[c] /\ undo'[c] = undo[c]
      /\ failed'[c] = failed[c] /\ sock'[c] = sock[c] /\ closed'[c] = closed[c]
      /\ object'[c] = object[c] /\ speaks'[c] = speaks[c]
  BY DEF Row
<1>2. Current(c)' = Current(c) /\ Op(c)' = Op(c)
  BY <1>1 DEF Current, Path, Op
<1>3. Untouched(c)' /\ HasBio(c)'
  BY <1>1 DEF Fine, Untouched, HasBio
<1>4. GoingOn(c)'
  BY <1>1, <1>2 DEF Fine, GoingOn
<1>5. GivingBack(c)'
  BY <1>1, <1>2 DEF Fine, GivingBack, ForgetsClient, ClosesTwice, Fails
<1>6. Speaking(c)'
  BY <1>1, <1>2 DEF Fine, Speaking, Agreed
<1> QED BY <1>3, <1>4, <1>5, <1>6 DEF Fine

-----------------------------------------------------------------------------
(* The ends of a step, for the thread that takes it.                       *)

\* What a step does to the things of its thread: an object it makes is live, the
\* socket of the origin is opened by a dial, everything else stays.
Keeping(c, made) ==
    /\ program' = program /\ life'[c] = life[c] /\ closed'[c] = closed[c]
    /\ \A o \in Objects : object'[c][o] = object[c][o] \/ (o \in made /\ object'[c][o] = "live")

\* A step that succeeds: what it made is made.
LEMMA PassedKeeps ==
    ASSUME TypeOK, NEW c \in Conn, Fine(c), AtStep(c, {Op(c)}), Op(c) \notin Ends,
           Keeping(c, Makes(Op(c))), Op(c) \in {"dial", "redial"} \/ sock'[c]["origin"] = sock[c]["origin"],
           way'[c] = way[c], step'[c] = step[c] + 1, undo'[c] = undo[c], failed'[c] = failed[c]
    PROVE  Untouched(c)' /\ GoingOn(c)' /\ GivingBack(c)' /\ step'[c] \in 1..Len(Current(c)'.steps)
<1> DEFINE w == Current(c)
           n == step[c]
<1>1. Shaped(w) /\ n \in 1..Len(w.steps) /\ w.steps[n].op = Op(c)
  BY WhereItIs DEF Op
<1>2. life[c] = "open" /\ undo[c] = <<>> /\ ~failed[c]
  BY DEF AtStep
<1>3. Current(c)' = w
  BY DEF Keeping, Current, Path
<1>4. /\ n + 1 \in 1..Len(w.steps) /\ (MayHoldOrigin(w, n) => MayHoldOrigin(w, n + 1))
      /\ Op(c) = "dial" => MayHoldOrigin(w, n + 1)
      /\ Op(c) = "redial" => KeepsOrigin(w)
      /\ Made(w, n + 1) = Made(w, n) \cup Makes(Op(c))
  <2> HIDE DEF w, n
  <2> QED BY <1>1, NextStep
<1>5. /\ ~closed[c] /\ Things(undo[c]) \subseteq {"origin"}
      /\ sock[c]["origin"] # Invalid => "origin" \in Things(undo[c]) \/ MayHoldOrigin(w, n)
      /\ \A o \in Objects : object[c][o] = "none" \/ (object[c][o] = "live" /\ o \in Made(w, n))
  BY <1>2 DEF Fine, GoingOn
<1>6. \A o \in Objects : object'[c][o] = "none" \/ (object'[c][o] = "live" /\ o \in Made(w, n + 1))
  BY <1>4, <1>5 DEF Keeping
<1>7. sock'[c]["origin"] # Invalid => MayHoldOrigin(w, n + 1)
  BY <1>2, <1>4, <1>5, NothingListed DEF MayHoldOrigin
<1>8. GoingOn(c)'
  BY <1>2, <1>3, <1>5, <1>6, <1>7 DEF GoingOn, Keeping
<1> QED BY <1>2, <1>3, <1>4, <1>8 DEF Untouched, GivingBack, Keeping

\* A step that fails: all that is there is in its list.
LEMMA FailedKeeps ==
    ASSUME TypeOK, NEW c \in Conn, Fine(c), AtStep(c, {Op(c)}), Op(c) \notin Blind,
           Keeping(c, MakesAnyway(Op(c))), sock'[c]["origin"] = sock[c]["origin"],
           Op(c) \in {"dial", "redial"} => sock[c]["origin"] = Invalid,
           way'[c] = way[c], step'[c] = step[c], undo'[c] = Current(c).steps[step[c]].undo, failed'[c] = TRUE
    PROVE  Untouched(c)' /\ GoingOn(c)' /\ GivingBack(c)'
<1> DEFINE w == Current(c)
           n == step[c]
           things == Things(w.steps[n].undo)
<1>1. /\ Balanced(w) /\ n \in 1..Len(w.steps) /\ w.steps[n].op = Op(c)
      /\ program \in Names /\ way[c] \in Kinds /\ w = WayOf(program, way[c])
  BY WhereItIs DEF Op
<1>2. life[c] = "open" /\ undo[c] = <<>> /\ ~failed[c]
  BY DEF AtStep
<1>3. Current(c)' = w /\ Op(c)' = Op(c)
  BY DEF Keeping, Current, Path, Op
<1>4. /\ Made(w, n) \cup MakesAnyway(Op(c)) \subseteq things
      /\ Op(c) \notin {"dial", "redial"} /\ MayHoldOrigin(w, n) => "origin" \in things
  BY <1>1 DEF Balanced, GivesBack
<1>5. /\ ~closed[c] /\ (sock[c]["origin"] # Invalid => MayHoldOrigin(w, n))
      /\ \A o \in Objects : object[c][o] = "none" \/ (object[c][o] = "live" /\ o \in Made(w, n))
  BY <1>2, NothingListed DEF Fine, GoingOn
<1>6. \A o \in Objects : object'[c][o] = "none" \/ (object'[c][o] = "live" /\ o \in things)
  BY <1>4, <1>5 DEF Keeping
<1>7. sock'[c]["origin"] # Invalid => "origin" \in things
  BY <1>4, <1>5
<1>8. /\ ClosesTwice(c)' <=> program = "pureM3" /\ way[c] = "plain" /\ Op(c) \in {"target", "dial"}
      /\ ForgetsClient(c)' <=> program = "planB" /\ way[c] = "connect" /\ Op(c) = "port"
  BY <1>3 DEF ClosesTwice, ForgetsClient, Fails, Keeping
<1>9. IF ClosesTwice(c)' THEN w.steps[n].undo = Twice /\ ~MayHoldOrigin(w, n)
      ELSE IF ForgetsClient(c)' THEN Lists(w.steps[n].undo, {})
      ELSE Regular(w, n)
  BY <1>1, <1>8, WaysAreRegular
<1>10. "client" \in things \/ ForgetsClient(c)'
  BY <1>1, <1>8, <1>9, TwiceFacts DEF Regular
<1>11. IF ClosesTwice(c)' THEN sock'[c]["origin"] = Invalid /\ things \subseteq {"client"}
       ELSE InOrder(w.steps[n].undo)
  BY <1>1, <1>5, <1>9, TwiceFacts DEF Regular, Lists
<1>12. GivingBack(c)'
  BY <1>2, <1>5, <1>6, <1>7, <1>10, <1>11 DEF GivingBack, Keeping
<1> QED BY <1>2, <1>12 DEF Untouched, GoingOn, Keeping

\* The last step: all that is there is in the list of the way, or the next request
\* finds only an origin that is kept.
LEMMA FinishedKeeps ==
    ASSUME TypeOK, NEW c \in Conn, Fine(c), AtStep(c, {Op(c)}), Op(c) \in Ends,
           Keeping(c, {}), sock'[c]["origin"] = sock[c]["origin"], way'[c] = way[c],
           undo'[c] = Current(c).finish, failed'[c] = (Current(c).again = 0),
           step'[c] = IF Current(c).again = 0 THEN step[c] ELSE Current(c).again
    PROVE  Untouched(c)' /\ GoingOn(c)' /\ GivingBack(c)' /\ step'[c] \in 1..Len(Current(c)'.steps)
<1> DEFINE w == Current(c)
           n == step[c]
<1>1. Balanced(w) /\ Shaped(w) /\ n \in 1..Len(w.steps) /\ w.steps[n].op = Op(c)
  BY WhereItIs DEF Op
<1>2. life[c] = "open" /\ undo[c] = <<>> /\ ~failed[c]
  BY DEF AtStep
<1>3. Current(c)' = w
  BY DEF Keeping, Current, Path
<1>4. n = Len(w.steps) /\ w.again \in 0..Len(w.steps) /\ Len(w.steps) \in Nat
  BY <1>1 DEF Shaped, Shape
<1>5. /\ ~closed[c] /\ (sock[c]["origin"] # Invalid => MayHoldOrigin(w, n))
      /\ \A o \in Objects : object[c][o] = "none" \/ (object[c][o] = "live" /\ o \in Made(w, n))
  BY <1>2, NothingListed DEF Fine, GoingOn
<1>6. step'[c] \in 1..Len(Current(c)'.steps)
  BY <1>1, <1>3, <1>4
<1>7. CASE w.again = 0
  <2>1. /\ InOrder(w.finish) /\ Made(w, n) \cup {"client"} \subseteq Things(w.finish)
        /\ MayHoldOrigin(w, n) => "origin" \in Things(w.finish)
    BY <1>1, <1>4, <1>7 DEF Balanced, Completes
  <2>2. Op(c)' = Op(c)
    BY <1>3, <1>7 DEF Op
  <2>3. ~ClosesTwice(c)'
    BY <2>2 DEF ClosesTwice, Fails, Ends
  <2>4. \A o \in Objects : object'[c][o] = "none" \/ (object'[c][o] = "live" /\ o \in Things(w.finish))
    BY <1>5, <2>1 DEF Keeping
  <2>5. GivingBack(c)'
    BY <1>2, <1>5, <1>7, <2>1, <2>3, <2>4 DEF GivingBack, Keeping
  <2> QED BY <1>2, <1>6, <1>7, <2>5 DEF Untouched, GoingOn, Keeping
<1>8. CASE w.again # 0
  <2>1. /\ Made(w, n) = {} /\ Things(w.finish) \subseteq {"origin"}
        /\ KeepsOrigin(w) \/ "origin" \in Things(w.finish)
    BY <1>1, <1>4, <1>8 DEF Balanced, Completes
  <2>2. GoingOn(c)'
    BY <1>2, <1>3, <1>5, <1>8, <2>1 DEF GoingOn, Keeping, MayHoldOrigin
  <2> QED BY <1>2, <1>6, <1>8, <2>2 DEF Untouched, GivingBack, Keeping
<1> QED BY <1>7, <1>8

\* A CONNECT begins its way with the origin to give back.
LEMMA UpgradeKeeps ==
    ASSUME TypeOK, NEW c \in Conn, Fine(c), Upgrade(c)
    PROVE  Untouched(c)' /\ GoingOn(c)' /\ GivingBack(c)' /\ Speaking(c)' /\ step'[c] \in 1..Len(Current(c)'.steps)
<1>1. /\ life[c] = "open" /\ undo[c] = <<>> /\ ~failed[c] /\ Op(c) = "request" /\ way[c] = "plain"
      /\ program' = program /\ life' = life /\ step' = step /\ failed' = failed /\ sock' = sock
      /\ closed' = closed /\ object' = object /\ speaks' = speaks
      /\ way'[c] = "connect" /\ undo'[c] = <<"origin">>
  BY DEF Upgrade, AtStep, TypeOK
<1>2. Shaped(Current(c)) /\ step[c] \in 1..Len(Current(c).steps) /\ Current(c).steps[step[c]].op = "request"
  BY <1>1, WhereItIs DEF Op
<1>3. step[c] = 1
  BY <1>2 DEF Shaped, Shape
<1>4. Current(c)' = WayOf(program, "connect") /\ Shaped(Current(c)')
  BY <1>1, WhereItIs, WaysAreRight DEF Current, Path, WayOf, Kinds
<1>5. step'[c] = 1 /\ 1 \in 1..Len(Current(c)'.steps)
  BY <1>1, <1>3, <1>4 DEF Shaped
<1>6. Things(undo'[c]) = {"origin"}
  BY <1>1 DEF Things
<1>7. \A o \in Objects : object[c][o] = "none"
  BY <1>1, <1>3, MadeNone DEF Fine, GoingOn
<1>8. GoingOn(c)'
  BY <1>1, <1>6, <1>7 DEF GoingOn, Fine
<1>9. Speaking(c)'
  BY <1>1, <1>5 DEF Speaking, Fine
<1> QED BY <1>1, <1>5, <1>8, <1>9 DEF Untouched, GivingBack

\* The origin that is kept is closed for another one.
LEMMA LetsGoKeeps ==
    ASSUME TypeOK, NEW c \in Conn, Fine(c), AtStep(c, {"redial"}),
           undo' = [undo EXCEPT ![c] = <<"origin">>],
           UNCHANGED <<program, life, table, way, step, failed, sock, closed, object, speaks>>
    PROVE  Fine(c)' /\ step'[c] \in 1..Len(Current(c)'.steps)
<1>1. /\ life[c] = "open" /\ undo[c] = <<>> /\ ~failed[c] /\ undo'[c] = <<"origin">>
      /\ Current(c)' = Current(c) /\ Things(undo'[c]) = {"origin"}
  BY DEF AtStep, TypeOK, Current, Path, Things
<1>2. Untouched(c)' /\ GivingBack(c)' /\ HasBio(c)'
  BY <1>1 DEF Fine, Untouched, GivingBack, HasBio
<1>3. GoingOn(c)'
  BY <1>1 DEF Fine, GoingOn
<1>4. Speaking(c)'
  BY <1>1 DEF Fine, Speaking, Agreed
<1>5. step'[c] \in 1..Len(Current(c)'.steps)
  BY <1>1, WhereItIs
<1> QED BY <1>2, <1>3, <1>4, <1>5 DEF Fine

\* What the thread gives back next.
LEMMA ReleaseKeeps ==
    ASSUME TypeOK, NEW c \in Conn, Fine(c), Release(c)
    PROVE  Fine(c)' /\ step'[c] \in 1..Len(Current(c)'.steps)
<1> DEFINE what == Head(undo[c])
           rest == Tail(undo[c])
<1>1. /\ life[c] = "open" /\ undo[c] # <<>> /\ undo[c] \in Seq(Resources) /\ undo'[c] = rest
      /\ program' = program /\ life' = life /\ way' = way /\ step' = step /\ failed' = failed
      /\ speaks' = speaks
      /\ Current(c)' = Current(c) /\ Op(c)' = Op(c)
  BY DEF Release, TypeOK, Resources, Current, Path, Op
<1>2. /\ what \in Resources /\ Things(undo[c]) = {what} \cup Things(rest)
      /\ InOrder(undo[c]) =>
            /\ what \notin Things(rest) /\ InOrder(rest)
            /\ what = "bio" => "clientSsl" \notin Things(rest)
  BY <1>1, FirstAndRest
<1>3. /\ closed'[c] = (closed[c] \/ what = "client")
      /\ sock'[c]["origin"] = IF what = "origin" THEN Invalid ELSE sock[c]["origin"]
      /\ \A o \in Objects : object'[c][o] =
            IF o # what THEN object[c][o]
            ELSE IF object[c][o] = "none" THEN "none" ELSE IF object[c][o] = "live" THEN "freed" ELSE "freedTwice"
  <2>1. CASE what \in Sides
    <3>1. CloseSocket(c, what)
      BY <2>1 DEF Release
    <3>2. what \notin Objects /\ what \in {"client", "origin"}
      BY <2>1 DEF Sides, Objects
    <3> QED BY <3>1, <3>2 DEF CloseSocket, TypeOK, Keeps, Sides
  <2>2. CASE what \in Objects
    <3>1. what \notin Sides /\ what \notin {"client", "origin"}
      BY <2>2 DEF Sides, Objects
    <3>2. FreeObject(c, what)
      BY <3>1 DEF Release
    <3>3. closed' = closed /\ sock' = sock /\ closed[c] \in BOOLEAN
      BY <3>2 DEF FreeObject, TypeOK
    <3>4. \A o \in Objects : object'[c][o] =
            IF o # what THEN object[c][o]
            ELSE IF object[c][o] = "none" THEN "none" ELSE IF object[c][o] = "live" THEN "freed" ELSE "freedTwice"
      BY <2>2, <3>2 DEF FreeObject, TypeOK
    <3> QED BY <3>1, <3>3, <3>4
  <2> QED BY <1>2, <2>1, <2>2 DEF Resources
<1>4. Speaking(c)'
  BY <1>1 DEF Fine, Speaking, Agreed
<1>5. CASE ~failed[c]
  <2>1. what = "origin" /\ Things(rest) \subseteq {"origin"}
    BY <1>2, <1>5 DEF Fine, GoingOn
  <2>2. \A o \in Objects : object'[c][o] = object[c][o]
    BY <1>3, <2>1 DEF Objects
  <2>3. GoingOn(c)'
    BY <1>1, <1>3, <1>5, <2>1, <2>2 DEF Fine, GoingOn
  <2>4. HasBio(c)'
    BY <1>1, <2>2 DEF Fine, HasBio, Objects
  <2> QED BY <1>1, <1>4, <1>5, <2>3, <2>4, WhereItIs DEF Fine, Untouched, GivingBack
<1>6. CASE failed[c]
  <2>1. /\ closed[c] \/ "client" \in Things(undo[c]) \/ ForgetsClient(c)
        /\ IF ClosesTwice(c) THEN sock[c]["origin"] = Invalid /\ Things(undo[c]) \subseteq {"client"}
           ELSE InOrder(undo[c]) /\ (closed[c] => "client" \notin Things(undo[c]))
        /\ sock[c]["origin"] # Invalid => "origin" \in Things(undo[c])
    BY <1>6 DEF Fine, GivingBack
  <2>2. \A o \in Objects : \/ object[c][o] = "none"
                           \/ object[c][o] = "live" /\ o \in Things(undo[c])
                           \/ object[c][o] = "freed" /\ o \notin Things(undo[c])
    BY <1>6 DEF Fine, GivingBack
  <2>3. ClosesTwice(c)' = ClosesTwice(c) /\ ForgetsClient(c)' = ForgetsClient(c)
    BY <1>1 DEF ClosesTwice, ForgetsClient, Fails
  <2>4. closed'[c] \/ "client" \in Things(rest) \/ ForgetsClient(c)'
    BY <1>2, <1>3, <2>1, <2>3
  <2>5. IF ClosesTwice(c)' THEN sock'[c]["origin"] = Invalid /\ Things(rest) \subseteq {"client"}
        ELSE InOrder(rest) /\ (closed'[c] => "client" \notin Things(rest))
    BY <1>2, <1>3, <2>1, <2>3
  <2>6. sock'[c]["origin"] # Invalid => "origin" \in Things(rest)
    BY <1>2, <1>3, <2>1
  <2>7. \A o \in Objects : \/ object'[c][o] = "none"
                           \/ object'[c][o] = "live" /\ o \in Things(rest)
                           \/ object'[c][o] = "freed" /\ o \notin Things(rest)
    <3>1. CASE ClosesTwice(c)
      <4>1. what = "client" /\ Things(rest) \subseteq {"client"} /\ "client" \notin Objects
        BY <1>2, <2>1, <3>1 DEF Objects
      <4> QED BY <1>2, <1>3, <2>2, <4>1
    <3>2. CASE ~ClosesTwice(c)
      <4>1. what \notin Things(rest)
        BY <1>2, <2>1, <3>2
      <4> QED BY <1>2, <1>3, <2>2, <4>1
    <3> QED BY <3>1, <3>2
  <2>8. GivingBack(c)'
    BY <1>1, <1>6, <2>4, <2>5, <2>6, <2>7 DEF GivingBack
  <2>9. HasBio(c)'
    <3>1. HasBio(c) /\ "clientSsl" \in Objects /\ "bio" \in Objects
      BY DEF Fine, Objects
    <3>2. CASE what = "bio"
      <4>1. ~ClosesTwice(c) /\ "clientSsl" \notin Things(rest)
        BY <1>2, <2>1, <3>2
      <4> QED BY <2>7, <3>1, <4>1 DEF HasBio
    <3>3. CASE what # "bio"
      <4>1. object'[c]["bio"] = object[c]["bio"]
        BY <1>3, <3>1, <3>3
      <4>2. object'[c]["clientSsl"] = "live" => object[c]["clientSsl"] = "live"
        BY <1>3, <3>1
      <4> QED BY <1>1, <3>1, <4>1, <4>2 DEF HasBio
    <3> QED BY <3>2, <3>3
  <2> QED BY <1>1, <1>4, <1>6, <2>8, <2>9, WhereItIs DEF Fine, Untouched, GoingOn
<1> QED BY <1>5, <1>6

-----------------------------------------------------------------------------
(* Who speaks what.                                                        *)

\* Steps that negotiate nothing.
LEMMA StillSpeaking ==
    ASSUME TypeOK, NEW c \in Conn, Speaking(c), program' = program, way'[c] = way[c], speaks'[c] = speaks[c],
           \/ failed'[c]
           \/ ~failed[c] /\ step'[c] = step[c] + 1 /\ (Op(c) = "agree" => Agreed(c))
           \/ ~failed[c] /\ step'[c] \in 1..step[c]
    PROVE  Speaking(c)'
<1>1. Current(c)' = Current(c) /\ Agreed(c)' = Agreed(c) /\ step[c] \in Nat
  BY DEF Current, Path, Agreed, TypeOK
<1>2. /\ way'[c] = "plain" => \A s \in Sides : speaks'[c][s] = "http/1.1"
      /\ \A s \in Sides : speaks'[c][s] = "h2" => program' \in {"planB", "engine"}
  BY DEF Speaking
<1>3. ASSUME ~failed'[c], NEW n \in 1..step'[c] - 1, Current(c)'.steps[n].op = "agree"
      PROVE  Agreed(c)'
  <2>1. CASE ~failed[c] /\ step'[c] \in 1..step[c]
    <3>1. n \in 1..step[c] - 1
      BY <1>1, <2>1
    <3> QED BY <1>1, <1>3, <2>1, <3>1 DEF Speaking
  <2>2. CASE ~failed[c] /\ step'[c] = step[c] + 1 /\ (Op(c) = "agree" => Agreed(c))
    <3>1. n \in 1..step[c] - 1 \/ n = step[c]
      BY <1>1, <2>2
    <3> QED BY <1>1, <1>3, <2>2, <3>1 DEF Speaking, Op
  <2> QED BY <1>3, <2>1, <2>2
<1> QED BY <1>2, <1>3 DEF Speaking

\* A handshake comes on a CONNECT, and before the sides have agreed.
LEMMA NowSpeaking ==
    ASSUME TypeOK, NEW c \in Conn, Speaking(c), program' = program, way'[c] = way[c], Op(c) \in Handshakes,
           step'[c] = step[c] + 1,
           \A s \in Sides : speaks'[c][s] = "h2" => program \in {"planB", "engine"}
    PROVE  Speaking(c)'
<1>1. /\ way[c] \in Kinds /\ Shaped(Current(c)) /\ step[c] \in 1..Len(Current(c).steps)
      /\ Current(c).steps[step[c]].op = Op(c) /\ Op(c) \in Ops(Current(c)) /\ program \in Names
      /\ Current(c) = WayOf(program, way[c])
  BY WhereItIs DEF Op
<1>2. way[c] # "plain"
  BY <1>1, OpsOfWays
<1>3. \A m \in 1..step[c] - 1 : Current(c).steps[m].op # "agree"
  BY <1>1 DEF Shaped, Shape
<1>4. Op(c) # "agree"
  BY DEF Handshakes
<1>5. \A m \in 1..step'[c] - 1 : m \in 1..step[c] - 1 \/ m = step[c]
  BY <1>1 DEF Shaped
<1>6. Current(c)' = Current(c)
  BY DEF Current, Path
<1>7. \A m \in 1..step'[c] - 1 : Current(c)'.steps[m].op # "agree"
  BY <1>1, <1>3, <1>4, <1>5, <1>6
<1> QED BY <1>2, <1>7 DEF Speaking

-----------------------------------------------------------------------------
(* The steps of a thread, as the thread and the others see them.           *)

Alone(c) == program' = program /\ \A d \in Conn \ {c} : Row(d)' = Row(d)
Types ==
    /\ program \in Checked
    /\ table \in [Handle -> {Free} \cup {Owner(c, s) : c \in Conn, s \in Sides}]
    /\ life \in [Conn -> {"new", "open", "over"}] /\ way \in [Conn -> {"connect", "plain"}]
    /\ step \in [Conn -> Nat] /\ undo \in [Conn -> Seq(Resources)]
    /\ sock \in [Conn -> [Sides -> Handle \cup {Invalid}]]
    /\ object \in [Conn -> [Objects -> {"none", "live", "freed", "freedTwice"}]]
    /\ failed \in [Conn -> BOOLEAN] /\ closed \in [Conn -> BOOLEAN]
    /\ speaks \in [Conn -> [Sides -> Protocols]]
InWay(c) == step[c] \in 1..Len(Current(c).steps)

LEMMA TypeParts == TypeOK <=> Types /\ \A c \in Conn : InWay(c)
BY DEF TypeOK, Types, InWay, Resources

LEMMA ThreadKeeps ==
    ASSUME TypeOK, \A d \in Conn : Fine(d), NEW c \in Conn, Types', Alone(c), Fine(c)', InWay(c)'
    PROVE  TypeOK' /\ \A d \in Conn : Fine(d)'
<1>1. ASSUME NEW d \in Conn \ {c}
      PROVE  Fine(d)' /\ InWay(d)'
  <2>1. program' = program /\ Row(d)' = Row(d)
    BY DEF Alone
  <2>2. Fine(d)'
    BY <2>1, OthersKeep
  <2>3. InWay(d)
    BY TypeParts
  <2>4. InWay(d)'
    BY <2>1, <2>3 DEF Row, InWay, Current, Path
  <2> QED BY <2>2, <2>4
<1>2. \A d \in Conn : Fine(d)' /\ InWay(d)'
  BY <1>1
<1> QED BY <1>2 DEF TypeOK, Types, InWay, Resources

\* What the ways give the variables.
LEMMA UndoTypes ==
    ASSUME TypeOK, NEW c \in Conn
    PROVE  /\ Current(c).steps[step[c]].undo \in Seq(Resources) /\ Current(c).finish \in Seq(Resources)
           /\ Current(c).again \in Nat
BY WhereItIs DEF Shaped, Shape

LEMMA PlainlySteps ==
    ASSUME TypeOK, NEW c \in Conn, Fine(c), Plainly(c) \/ Refuse(c) \/ BlindReply(c)
    PROVE  Types' /\ Alone(c) /\ Fine(c)' /\ InWay(c)'
<1>1. /\ \/ Passed(c) /\ Op(c) \notin Ends \cup {"agree"}
         \/ Failed(c) /\ Op(c) \notin Blind \cup {"dial", "redial"}
      /\ AtStep(c, {Op(c)})
      /\ UNCHANGED <<program, life, table, sock, closed, object, speaks>>
  <2>1. CASE Plainly(c)
    <3>1. /\ Op(c) \in {"request", "next", "port", "target", "reply", "context"} /\ AtStep(c, {Op(c)})
          /\ Passed(c) \/ Failed(c)
      BY <2>1 DEF Plainly, AtStep
    <3> QED BY <2>1, <3>1 DEF Plainly, Ends, Blind
  <2>2. CASE Refuse(c)
    BY <2>2 DEF Refuse, AtStep, Blind
  <2>3. CASE BlindReply(c)
    <3>1. Op(c) = "blindReply" /\ AtStep(c, {Op(c)}) /\ Passed(c)
      BY <2>3 DEF BlindReply, AtStep
    <3>2. Op(c) \notin Ends \cup {"agree"}
      BY <3>1 DEF Ends
    <3>3. UNCHANGED <<program, life, table, sock, closed, object, speaks>>
      BY <2>3 DEF BlindReply
    <3> QED BY <3>1, <3>2, <3>3
  <2> QED BY <2>1, <2>2, <2>3
<1>2. Keeping(c, Makes(Op(c))) /\ Keeping(c, MakesAnyway(Op(c)))
  BY <1>1 DEF Keeping
<1>3. HasBio(c)'
  BY <1>1 DEF Fine, HasBio
<1>4. CASE Passed(c) /\ Op(c) \notin Ends \cup {"agree"}
  <2>1. Types' /\ Alone(c)
    BY <1>1, <1>4, TypeParts DEF Types, Passed, Alone, Row
  <2>2. /\ way'[c] = way[c] /\ step'[c] = step[c] + 1 /\ undo'[c] = undo[c] /\ failed'[c] = failed[c]
    BY <1>4 DEF Passed, TypeOK
  <2>3. Untouched(c)' /\ GoingOn(c)' /\ GivingBack(c)' /\ InWay(c)'
    BY <1>1, <1>2, <1>4, <2>2, PassedKeeps DEF InWay
  <2>4. Speaking(c)'
    BY <1>1, <1>4, <2>2, StillSpeaking DEF Fine, AtStep
  <2> QED BY <1>3, <2>1, <2>3, <2>4 DEF Fine
<1>5. CASE Failed(c) /\ Op(c) \notin Blind \cup {"dial", "redial"}
  <2>1. Types' /\ Alone(c)
    BY <1>1, <1>5, TypeParts, UndoTypes DEF Types, Failed, Alone, Row
  <2>2. /\ way'[c] = way[c] /\ step'[c] = step[c] /\ failed'[c] = TRUE
        /\ undo'[c] = Current(c).steps[step[c]].undo /\ Current(c)' = Current(c)
    BY <1>1, <1>5 DEF Failed, TypeOK, Current, Path
  <2>3. Untouched(c)' /\ GoingOn(c)' /\ GivingBack(c)' /\ InWay(c)'
    BY <1>1, <1>2, <1>5, <2>2, FailedKeeps, WhereItIs DEF InWay
  <2>4. Speaking(c)'
    BY <1>1, <2>2, StillSpeaking DEF Fine
  <2> QED BY <1>3, <2>1, <2>3, <2>4 DEF Fine
<1> QED BY <1>1, <1>4, <1>5

LEMMA UpgradeSteps ==
    ASSUME TypeOK, NEW c \in Conn, Fine(c), Upgrade(c)
    PROVE  Types' /\ Alone(c) /\ Fine(c)' /\ InWay(c)'
<1>1. Types' /\ Alone(c)
  BY TypeParts DEF Upgrade, Types, Alone, Row, Resources, Sides
<1>2. HasBio(c)'
  BY DEF Upgrade, Fine, HasBio
<1> QED BY <1>1, <1>2, UpgradeKeeps DEF Fine, InWay

LEMMA DialSteps ==
    ASSUME TypeOK, NEW c \in Conn, Fine(c), Dial(c)
    PROVE  Types' /\ Alone(c) /\ Fine(c)' /\ InWay(c)'
<1>1. /\ AtStep(c, {Op(c)}) /\ Op(c) \in {"dial", "redial"} /\ sock[c]["origin"] = Invalid
      /\ UNCHANGED <<program, life, closed, object, speaks>>
      /\ Op(c) \notin Ends \cup Blind \cup {"agree"}
  BY DEF Dial, AtStep, Ends, Blind
<1>2. Keeping(c, Makes(Op(c))) /\ Keeping(c, MakesAnyway(Op(c)))
  BY <1>1 DEF Keeping
<1>3. HasBio(c)'
  BY <1>1 DEF Fine, HasBio
<1>4. CASE Passed(c) /\ \E h \in Handle : Open(c, "origin", h)
  <2>1. Types' /\ Alone(c)
    BY <1>1, <1>4, TypeParts DEF Types, Passed, Alone, Row, Open, Sides
  <2>2. /\ way'[c] = way[c] /\ step'[c] = step[c] + 1 /\ undo'[c] = undo[c] /\ failed'[c] = failed[c]
    BY <1>4 DEF Passed, TypeOK
  <2>3. Untouched(c)' /\ GoingOn(c)' /\ GivingBack(c)' /\ InWay(c)'
    BY <1>1, <1>2, <2>2, PassedKeeps DEF InWay
  <2>4. Speaking(c)'
    BY <1>1, <2>2, StillSpeaking DEF Fine, AtStep
  <2> QED BY <1>3, <2>1, <2>3, <2>4 DEF Fine
<1>5. CASE Failed(c) /\ ConnectFails(c)
  <2>1. Types' /\ Alone(c)
    BY <1>1, <1>5, TypeParts, UndoTypes DEF Types, Failed, Alone, Row, ConnectFails
  <2>2. /\ way'[c] = way[c] /\ step'[c] = step[c] /\ failed'[c] = TRUE /\ sock' = sock
        /\ undo'[c] = Current(c).steps[step[c]].undo /\ Current(c)' = Current(c)
    BY <1>1, <1>5 DEF Failed, TypeOK, Current, Path, ConnectFails
  <2>3. Untouched(c)' /\ GoingOn(c)' /\ GivingBack(c)' /\ InWay(c)'
    BY <1>1, <1>2, <2>2, FailedKeeps, WhereItIs DEF InWay
  <2>4. Speaking(c)'
    BY <1>1, <2>2, StillSpeaking DEF Fine
  <2> QED BY <1>3, <2>1, <2>3, <2>4 DEF Fine
<1> QED BY <1>4, <1>5 DEF Dial

LEMMA RedialSteps ==
    ASSUME TypeOK, NEW c \in Conn, Fine(c), Redial(c)
    PROVE  Types' /\ Alone(c) /\ Fine(c)' /\ InWay(c)'
<1>1. /\ AtStep(c, {"redial"}) /\ AtStep(c, {Op(c)}) /\ Op(c) = "redial"
      /\ UNCHANGED <<program, life, table, sock, closed, object, speaks>>
      /\ Op(c) \notin Ends \cup {"agree"}
  BY DEF Redial, AtStep, Ends
<1>2. CASE Passed(c)
  <2>1. Types' /\ Alone(c)
    BY <1>1, <1>2, TypeParts DEF Types, Passed, Alone, Row
  <2>2. /\ way'[c] = way[c] /\ step'[c] = step[c] + 1 /\ undo'[c] = undo[c] /\ failed'[c] = failed[c]
    BY <1>2 DEF Passed, TypeOK
  <2>3. Keeping(c, Makes(Op(c))) /\ HasBio(c)'
    BY <1>1 DEF Keeping, Fine, HasBio
  <2>4. Untouched(c)' /\ GoingOn(c)' /\ GivingBack(c)' /\ InWay(c)'
    BY <1>1, <2>2, <2>3, PassedKeeps DEF InWay
  <2>5. Speaking(c)'
    BY <1>1, <2>2, StillSpeaking DEF Fine, AtStep
  <2> QED BY <2>1, <2>3, <2>4, <2>5 DEF Fine
<1>3. CASE undo' = [undo EXCEPT ![c] = <<"origin">>] /\ UNCHANGED <<way, step, failed>>
  <2>1. Types' /\ Alone(c)
    BY <1>1, <1>3, TypeParts DEF Types, Alone, Row, Resources, Sides
  <2> QED BY <1>1, <1>3, <2>1, LetsGoKeeps DEF InWay
<1> QED BY <1>2, <1>3 DEF Redial

LEMMA OwnContextSteps ==
    ASSUME TypeOK, NEW c \in Conn, Fine(c), OwnContext(c)
    PROVE  Types' /\ Alone(c) /\ Fine(c)' /\ InWay(c)'
<1>1. /\ AtStep(c, {Op(c)}) /\ Op(c) = "ownContext"
      /\ UNCHANGED <<program, life, table, sock, closed, speaks>>
      /\ Op(c) \notin Ends \cup Blind \cup {"agree", "dial", "redial"}
  BY DEF OwnContext, AtStep, Ends, Blind
<1>2. /\ object'[c]["bio"] = object[c]["bio"] /\ object'[c]["clientSsl"] = object[c]["clientSsl"]
  BY DEF OwnContext, TypeOK, Objects
<1>3. HasBio(c)'
  BY <1>1, <1>2 DEF Fine, HasBio
<1>4. CASE Passed(c) /\ object' = [object EXCEPT ![c]["ctx"] = "live"]
  <2>1. Types' /\ Alone(c)
    BY <1>1, <1>4, TypeParts DEF Types, Passed, Alone, Row, Objects
  <2>2. /\ way'[c] = way[c] /\ step'[c] = step[c] + 1 /\ undo'[c] = undo[c] /\ failed'[c] = failed[c]
    BY <1>4 DEF Passed, TypeOK
  <2>3. Keeping(c, Makes(Op(c)))
    BY <1>1, <1>4, MakesIs DEF Keeping, TypeOK
  <2>4. Untouched(c)' /\ GoingOn(c)' /\ GivingBack(c)' /\ InWay(c)'
    BY <1>1, <2>2, <2>3, PassedKeeps DEF InWay
  <2>5. Speaking(c)'
    BY <1>1, <2>2, StillSpeaking DEF Fine, AtStep
  <2> QED BY <1>3, <2>1, <2>4, <2>5 DEF Fine
<1>5. CASE Failed(c) /\ UNCHANGED object
  <2>1. Types' /\ Alone(c)
    BY <1>1, <1>5, TypeParts, UndoTypes DEF Types, Failed, Alone, Row
  <2>2. /\ way'[c] = way[c] /\ step'[c] = step[c] /\ failed'[c] = TRUE
        /\ undo'[c] = Current(c).steps[step[c]].undo /\ Current(c)' = Current(c)
    BY <1>1, <1>5 DEF Failed, TypeOK, Current, Path
  <2>3. Keeping(c, MakesAnyway(Op(c)))
    BY <1>1, <1>5 DEF Keeping
  <2>4. Untouched(c)' /\ GoingOn(c)' /\ GivingBack(c)' /\ InWay(c)'
    BY <1>1, <2>2, <2>3, FailedKeeps, WhereItIs DEF InWay
  <2>5. Speaking(c)'
    BY <1>1, <2>2, StillSpeaking DEF Fine
  <2> QED BY <1>3, <2>1, <2>4, <2>5 DEF Fine
<1> QED BY <1>4, <1>5 DEF OwnContext

\* What a handshake may choose.
LEMMA Chosen ==
    ASSUME TypeOK, NEW n \in 1..Len(Path.alpn)
    PROVE  Path.alpn[n] \in Protocols /\ (Path.alpn[n] = "h2" => program \in {"planB", "engine"})
<1>1. program \in Names
  BY ConnectionsAssumption, Programs DEF TypeOK
<1>2. Path.alpn \in Seq(Protocols) /\ Path = PathOf[program]
  BY <1>1, Protocol DEF Path
<1> QED BY <1>1, <1>2, Protocol

LEMMA AcceptTlsSteps ==
    ASSUME TypeOK, NEW c \in Conn, Fine(c), AcceptTls(c)
    PROVE  Types' /\ Alone(c) /\ Fine(c)' /\ InWay(c)'
<1>1. /\ AtStep(c, {Op(c)}) /\ Op(c) \in {"accept", "acceptBio"}
      /\ UNCHANGED <<program, life, table, sock, closed>>
      /\ Op(c) \notin Ends \cup Blind \cup {"agree", "dial", "redial"} /\ Op(c) \in Handshakes
  BY DEF AcceptTls, AtStep, Ends, Blind, Handshakes
<1>2. /\ object'[c]["clientSsl"] = "live"
      /\ object'[c]["bio"] = IF Op(c) = "acceptBio" THEN "live" ELSE object[c]["bio"]
      /\ \A o \in Objects \ {"clientSsl", "bio"} : object'[c][o] = object[c][o]
      /\ object' \in [Conn -> [Objects -> {"none", "live", "freed", "freedTwice"}]]
      /\ \A d \in Conn \ {c} : object'[d] = object[d]
  <2>1. object[c] \in [Objects -> {"none", "live", "freed", "freedTwice"}] /\ "clientSsl" \in Objects /\ "bio" \in Objects
    BY DEF TypeOK, Objects
  <2>2. object' = [object EXCEPT ![c]["clientSsl"] = "live",
                                 ![c]["bio"] = IF Op(c) = "acceptBio" THEN "live" ELSE @]
    BY DEF AcceptTls
  <2> DEFINE first == [object EXCEPT ![c]["clientSsl"] = "live"]
             bio == IF Op(c) = "acceptBio" THEN "live" ELSE first[c]["bio"]
  <2>3. object' = [first EXCEPT ![c]["bio"] = bio]
    BY <2>2
  <2>4. /\ first \in [Conn -> [Objects -> {"none", "live", "freed", "freedTwice"}]]
        /\ first[c]["clientSsl"] = "live" /\ \A d \in Conn \ {c} : first[d] = object[d]
        /\ \A o \in Objects \ {"clientSsl"} : first[c][o] = object[c][o]
    BY <2>1 DEF TypeOK
  <2>5. bio \in {"none", "live", "freed", "freedTwice"} /\ bio = IF Op(c) = "acceptBio" THEN "live" ELSE object[c]["bio"]
    BY <2>1, <2>4
  <2> HIDE DEF first, bio
  <2> QED BY <2>1, <2>3, <2>4, <2>5
<1>3. Op(c) = "accept" => program = "engine"
  BY WhereItIs, OpsOfWays
<1>4. HasBio(c)'
  BY <1>1, <1>2, <1>3 DEF HasBio
<1>5. Makes(Op(c)) = MakesAnyway(Op(c)) /\ Makes(Op(c)) = IF Op(c) = "accept" THEN {"clientSsl"} ELSE {"clientSsl", "bio"}
  BY <1>1, MakesIs
<1>6. Keeping(c, Makes(Op(c)))
  BY <1>1, <1>2, <1>5 DEF Keeping
<1>7. ASSUME Passed(c), speaks' \in [Conn -> [Sides -> Protocols]],
             \A d \in Conn \ {c} : speaks'[d] = speaks[d],
             \A s \in Sides : speaks'[c][s] = "h2" => program \in {"planB", "engine"}
      PROVE  Types' /\ Alone(c) /\ Fine(c)' /\ InWay(c)'
  <2>1. Types' /\ Alone(c)
    BY <1>1, <1>2, <1>7, TypeParts DEF Types, Passed, Alone, Row
  <2>2. /\ way'[c] = way[c] /\ step'[c] = step[c] + 1 /\ undo'[c] = undo[c] /\ failed'[c] = failed[c]
    BY <1>7 DEF Passed, TypeOK
  <2>3. Untouched(c)' /\ GoingOn(c)' /\ GivingBack(c)' /\ InWay(c)'
    BY <1>1, <1>6, <2>2, PassedKeeps DEF InWay
  <2>4. Speaking(c)'
    BY <1>1, <1>7, <2>2, NowSpeaking DEF Fine
  <2> QED BY <1>4, <2>1, <2>3, <2>4 DEF Fine
<1>8. \A s \in Sides : speaks[c][s] = "h2" => program \in {"planB", "engine"}
  BY DEF Fine, Speaking
<1>9. CASE Failed(c) /\ UNCHANGED speaks
  <2>1. Types' /\ Alone(c)
    BY <1>1, <1>2, <1>9, TypeParts, UndoTypes DEF Types, Failed, Alone, Row
  <2>2. /\ way'[c] = way[c] /\ step'[c] = step[c] /\ failed'[c] = TRUE
        /\ undo'[c] = Current(c).steps[step[c]].undo /\ Current(c)' = Current(c)
    BY <1>1, <1>9 DEF Failed, TypeOK, Current, Path
  <2>3. Untouched(c)' /\ GoingOn(c)' /\ GivingBack(c)' /\ InWay(c)'
    BY <1>1, <1>5, <1>6, <2>2, FailedKeeps, WhereItIs DEF InWay
  <2>4. Speaking(c)'
    BY <1>1, <1>9, <2>2, StillSpeaking DEF Fine
  <2> QED BY <1>4, <2>1, <2>3, <2>4 DEF Fine
<1>10. CASE Passed(c) /\ UNCHANGED speaks
  BY <1>7, <1>8, <1>10 DEF TypeOK
<1>11. ASSUME Passed(c), NEW n \in 1..Len(Path.alpn), speaks' = [speaks EXCEPT ![c]["client"] = Path.alpn[n]]
       PROVE  Types' /\ Alone(c) /\ Fine(c)' /\ InWay(c)'
  <2>1. Path.alpn[n] \in Protocols /\ (Path.alpn[n] = "h2" => program \in {"planB", "engine"})
    BY Chosen
  <2>2. speaks' \in [Conn -> [Sides -> Protocols]] /\ \A d \in Conn \ {c} : speaks'[d] = speaks[d]
    BY <1>11, <2>1 DEF TypeOK, Sides
  <2>3. \A s \in Sides : speaks'[c][s] = "h2" => program \in {"planB", "engine"}
    BY <1>8, <1>11, <2>1 DEF TypeOK
  <2> QED BY <1>7, <1>11, <2>2, <2>3
<1> QED BY <1>9, <1>10, <1>11 DEF AcceptTls

LEMMA HandshakeSteps ==
    ASSUME TypeOK, NEW c \in Conn, Fine(c), Handshake(c)
    PROVE  Types' /\ Alone(c) /\ Fine(c)' /\ InWay(c)'
<1>1. /\ AtStep(c, {Op(c)}) /\ Op(c) = "handshake"
      /\ object' = [object EXCEPT ![c]["originSsl"] = "live"]
      /\ UNCHANGED <<program, life, table, sock, closed>>
      /\ Op(c) \notin Ends \cup Blind \cup {"agree", "dial", "redial"} /\ Op(c) \in Handshakes
  BY DEF Handshake, AtStep, Ends, Blind, Handshakes
<1>2. HasBio(c)'
  BY <1>1 DEF Fine, HasBio, TypeOK, Objects
<1>3. Makes(Op(c)) = MakesAnyway(Op(c)) /\ Makes(Op(c)) = {"originSsl"}
  BY <1>1, MakesIs
<1>4. Keeping(c, Makes(Op(c)))
  BY <1>1, <1>3 DEF Keeping, TypeOK
<1>5. CASE Failed(c) /\ UNCHANGED speaks
  <2>1. Types' /\ Alone(c)
    BY <1>1, <1>5, TypeParts, UndoTypes DEF Types, Failed, Alone, Row, Objects
  <2>2. /\ way'[c] = way[c] /\ step'[c] = step[c] /\ failed'[c] = TRUE
        /\ undo'[c] = Current(c).steps[step[c]].undo /\ Current(c)' = Current(c)
    BY <1>1, <1>5 DEF Failed, TypeOK, Current, Path
  <2>3. Untouched(c)' /\ GoingOn(c)' /\ GivingBack(c)' /\ InWay(c)'
    BY <1>1, <1>3, <1>4, <2>2, FailedKeeps, WhereItIs DEF InWay
  <2>4. Speaking(c)'
    BY <1>1, <1>5, <2>2, StillSpeaking DEF Fine
  <2> QED BY <1>2, <2>1, <2>3, <2>4 DEF Fine
<1>6. ASSUME Passed(c), NEW protocol \in Offered(c) \cup {"http/1.1"},
             speaks' = [speaks EXCEPT ![c]["origin"] = protocol]
      PROVE  Types' /\ Alone(c) /\ Fine(c)' /\ InWay(c)'
  <2>1. protocol \in Protocols /\ (protocol = "h2" => speaks[c]["client"] = "h2")
    BY DEF Offered, TypeOK, Sides, Protocols
  <2>2. Types' /\ Alone(c)
    BY <1>1, <1>6, <2>1, TypeParts DEF Types, Passed, Alone, Row, Objects, Sides
  <2>3. /\ way'[c] = way[c] /\ step'[c] = step[c] + 1 /\ undo'[c] = undo[c] /\ failed'[c] = failed[c]
    BY <1>6 DEF Passed, TypeOK
  <2>4. Untouched(c)' /\ GoingOn(c)' /\ GivingBack(c)' /\ InWay(c)'
    BY <1>1, <1>4, <2>3, PassedKeeps DEF InWay
  <2>5. \A s \in Sides : speaks'[c][s] = "h2" => program \in {"planB", "engine"}
    BY <1>6, <2>1 DEF Fine, Speaking, TypeOK, Sides
  <2>6. Speaking(c)'
    BY <1>1, <2>3, <2>5, NowSpeaking DEF Fine
  <2> QED BY <1>2, <2>2, <2>4, <2>6 DEF Fine
<1> QED BY <1>5, <1>6 DEF Handshake

LEMMA AgreeSteps ==
    ASSUME TypeOK, NEW c \in Conn, Fine(c), Agree(c)
    PROVE  Types' /\ Alone(c) /\ Fine(c)' /\ InWay(c)'
<1>1. /\ AtStep(c, {Op(c)}) /\ Op(c) = "agree"
      /\ UNCHANGED <<program, life, table, sock, closed, object, speaks>>
      /\ Op(c) \notin Ends \cup Blind \cup {"dial", "redial"}
  BY DEF Agree, AtStep, Ends, Blind
<1>2. Keeping(c, Makes(Op(c))) /\ Keeping(c, MakesAnyway(Op(c))) /\ HasBio(c)'
  BY <1>1 DEF Keeping, Fine, HasBio
<1>3. CASE Agreed(c) /\ Passed(c)
  <2>1. Types' /\ Alone(c)
    BY <1>1, <1>3, TypeParts DEF Types, Passed, Alone, Row
  <2>2. /\ way'[c] = way[c] /\ step'[c] = step[c] + 1 /\ undo'[c] = undo[c] /\ failed'[c] = failed[c]
    BY <1>3 DEF Passed, TypeOK
  <2>3. Untouched(c)' /\ GoingOn(c)' /\ GivingBack(c)' /\ InWay(c)'
    BY <1>1, <1>2, <2>2, PassedKeeps DEF InWay
  <2>4. Speaking(c)'
    BY <1>1, <1>3, <2>2, StillSpeaking DEF Fine, AtStep
  <2> QED BY <1>2, <2>1, <2>3, <2>4 DEF Fine
<1>4. CASE Failed(c)
  <2>1. Types' /\ Alone(c)
    BY <1>1, <1>4, TypeParts, UndoTypes DEF Types, Failed, Alone, Row
  <2>2. /\ way'[c] = way[c] /\ step'[c] = step[c] /\ failed'[c] = TRUE
        /\ undo'[c] = Current(c).steps[step[c]].undo /\ Current(c)' = Current(c)
    BY <1>1, <1>4 DEF Failed, TypeOK, Current, Path
  <2>3. Untouched(c)' /\ GoingOn(c)' /\ GivingBack(c)' /\ InWay(c)'
    BY <1>1, <1>2, <2>2, FailedKeeps, WhereItIs DEF InWay
  <2>4. Speaking(c)'
    BY <1>1, <2>2, StillSpeaking DEF Fine
  <2> QED BY <1>2, <2>1, <2>3, <2>4 DEF Fine
<1> QED BY <1>3, <1>4 DEF Agree

LEMMA ServeSteps ==
    ASSUME TypeOK, NEW c \in Conn, Fine(c), Serve(c)
    PROVE  Types' /\ Alone(c) /\ Fine(c)' /\ InWay(c)'
<1>1. /\ AtStep(c, {Op(c)}) /\ Op(c) \in {"serve", "exchange"} /\ Op(c) \in Ends
      /\ UNCHANGED <<program, life, table, sock, closed, object, speaks>>
      /\ Op(c) \notin {"dial", "redial"}
  BY DEF Serve, AtStep, Ends
<1>2. Keeping(c, {}) /\ Keeping(c, MakesAnyway(Op(c))) /\ HasBio(c)'
  BY <1>1 DEF Keeping, Fine, HasBio
<1>3. CASE Finished(c)
  <2>1. Types' /\ Alone(c)
    BY <1>1, <1>3, TypeParts, UndoTypes DEF Types, Finished, Alone, Row
  <2>2. /\ way'[c] = way[c] /\ undo'[c] = Current(c).finish /\ failed'[c] = (Current(c).again = 0)
        /\ step'[c] = IF Current(c).again = 0 THEN step[c] ELSE Current(c).again
    BY <1>3 DEF Finished, TypeOK
  <2>3. Untouched(c)' /\ GoingOn(c)' /\ GivingBack(c)' /\ InWay(c)'
    BY <1>1, <1>2, <2>2, FinishedKeeps DEF InWay
  <2>4. Current(c).again # 0 => Current(c).again \in 1..step[c]
    BY <1>1, WhereItIs DEF Shaped, Shape, Op
  <2>5. Speaking(c)'
    BY <1>1, <2>2, <2>4, StillSpeaking DEF Fine, AtStep
  <2> QED BY <1>2, <2>1, <2>3, <2>5 DEF Fine
<1>4. CASE Op(c) = "exchange" /\ Failed(c)
  <2>1. Types' /\ Alone(c)
    BY <1>1, <1>4, TypeParts, UndoTypes DEF Types, Failed, Alone, Row
  <2>2. /\ way'[c] = way[c] /\ step'[c] = step[c] /\ failed'[c] = TRUE
        /\ undo'[c] = Current(c).steps[step[c]].undo /\ Current(c)' = Current(c)
    BY <1>1, <1>4 DEF Failed, TypeOK, Current, Path
  <2>3. Untouched(c)' /\ GoingOn(c)' /\ GivingBack(c)' /\ InWay(c)'
    BY <1>1, <1>2, <1>4, <2>2, FailedKeeps, WhereItIs DEF InWay, Blind
  <2>4. Speaking(c)'
    BY <1>1, <2>2, StillSpeaking DEF Fine
  <2> QED BY <1>2, <2>1, <2>3, <2>4 DEF Fine
<1> QED BY <1>3, <1>4 DEF Serve, AtStep

LEMMA ReleaseSteps ==
    ASSUME TypeOK, NEW c \in Conn, Fine(c), Release(c)
    PROVE  Types' /\ Alone(c) /\ Fine(c)' /\ InWay(c)'
<1> DEFINE what == Head(undo[c])
<1>1. /\ what \in Resources /\ Tail(undo[c]) \in Seq(Resources)
      /\ UNCHANGED <<program, life, way, step, failed, speaks>>
      /\ undo' = [undo EXCEPT ![c] = Tail(@)]
  BY TypeParts, FirstAndRest DEF Release, Types
<1>2. CASE what \in Sides
  <2>1. CloseSocket(c, what)
    BY <1>2 DEF Release
  <2>2. /\ table' \in [Handle -> {Free} \cup {Owner(d, s) : d \in Conn, s \in Sides}]
        /\ sock' \in [Conn -> [Sides -> Handle \cup {Invalid}]]
        /\ closed' \in [Conn -> BOOLEAN] /\ object' = object
        /\ \A d \in Conn \ {c} : sock'[d] = sock[d] /\ closed'[d] = closed[d]
    BY <1>2, <2>1 DEF CloseSocket, TypeOK, Sides
  <2> QED BY <1>1, <2>2, TypeParts, ReleaseKeeps DEF Types, Alone, Row, InWay
<1>3. CASE what \in Objects
  <2>1. FreeObject(c, what)
    BY <1>3 DEF Release, Objects, Sides
  <2>2. /\ object' \in [Conn -> [Objects -> {"none", "live", "freed", "freedTwice"}]]
        /\ table' = table /\ sock' = sock /\ closed' = closed
        /\ \A d \in Conn \ {c} : object'[d] = object[d]
    BY <1>3, <2>1 DEF FreeObject, TypeOK
  <2> QED BY <1>1, <2>2, TypeParts, ReleaseKeeps DEF Types, Alone, Row, InWay
<1> QED BY <1>1, <1>2, <1>3 DEF Resources

LEMMA EndSteps ==
    ASSUME TypeOK, NEW c \in Conn, Fine(c), End(c)
    PROVE  Types' /\ Alone(c) /\ Fine(c)' /\ InWay(c)'
<1>1. /\ failed[c] /\ undo[c] = <<>> /\ life'[c] = "over" /\ Types' /\ Alone(c)
      /\ UNCHANGED <<program, table, way, step, undo, failed, sock, closed, object, speaks>>
  BY TypeParts DEF End, Types, Alone, Row
<1>2. Current(c)' = Current(c) /\ Op(c)' = Op(c)
  BY <1>1 DEF Current, Path, Op
<1>3. Untouched(c)' /\ GoingOn(c)' /\ HasBio(c)' /\ Speaking(c)'
  BY <1>1, <1>2 DEF Fine, Untouched, GoingOn, HasBio, Speaking, Agreed
<1>4. GivingBack(c)'
  BY <1>1, <1>2 DEF Fine, GivingBack, ClosesTwice, ForgetsClient, Fails
<1>5. InWay(c)'
  BY <1>1, <1>2, TypeParts DEF InWay
<1> QED BY <1>1, <1>3, <1>4, <1>5 DEF Fine

LEMMA AcceptSteps ==
    ASSUME TypeOK, NEW c \in Conn, Fine(c), Accept(c)
    PROVE  Types' /\ Alone(c) /\ Fine(c)' /\ InWay(c)'
<1>1. /\ life[c] = "new" /\ life'[c] = "open" /\ Types' /\ Alone(c)
      /\ UNCHANGED <<program, way, step, undo, failed, closed, object, speaks>>
      /\ sock'[c]["origin"] = sock[c]["origin"]
  BY TypeParts DEF Accept, Open, Types, Alone, Row, Sides
<1>2. Current(c)' = Current(c) /\ Op(c)' = Op(c) /\ ~failed[c]
  BY <1>1 DEF Current, Path, Op, Fine, Untouched
<1>3. Untouched(c)' /\ HasBio(c)' /\ Speaking(c)' /\ GivingBack(c)'
  BY <1>1, <1>2 DEF Fine, Untouched, HasBio, Speaking, Agreed, GivingBack
<1>4. GoingOn(c)'
  BY <1>1, <1>2 DEF Fine, GoingOn
<1>5. InWay(c)'
  BY <1>1, <1>2, TypeParts DEF InWay
<1> QED BY <1>1, <1>3, <1>4, <1>5 DEF Fine

\* Every step of a connection.
LEMMA EachStep ==
    ASSUME TypeOK, NEW c \in Conn, Fine(c), Accept(c) \/ Thread(c)
    PROVE  Types' /\ Alone(c) /\ Fine(c)' /\ InWay(c)'
BY AcceptSteps, PlainlySteps, UpgradeSteps, DialSteps, RedialSteps, OwnContextSteps, AcceptTlsSteps,
   HandshakeSteps, AgreeSteps, ServeSteps, ReleaseSteps, EndSteps DEF Thread

-----------------------------------------------------------------------------
(* The numbers of the sockets.                                             *)

\* A thread that closes its client's socket twice has done so, or will.
LEMMA StaysDisturbed ==
    ASSUME TypeOK, NEW c \in Conn, Fine(c), Accept(c) \/ Thread(c), Disturbed
    PROVE  Disturbed'
<1>1. PICK d \in Conn : closed[d] /\ ClosesTwice(d)
  BY DEF Disturbed
<1>2. Alone(c)
  BY EachStep
<1>3. CASE d # c
  <2>1. program' = program /\ Row(d)' = Row(d)
    BY <1>2, <1>3 DEF Alone
  <2> QED BY <1>1, <2>1 DEF Disturbed, Row, ClosesTwice, Fails, Op, Current, Path
<1>4. CASE d = c
  <2>1. failed[c] /\ life[c] # "new"
    BY <1>1, <1>4 DEF ClosesTwice, Fails, Fine, Untouched
  <2>2. Release(c) \/ End(c)
    BY <2>1 DEF Thread, Accept, Plainly, Refuse, BlindReply, Upgrade, Dial, Redial, OwnContext,
       AcceptTls, Handshake, Agree, Serve, AtStep
  <2>3. UNCHANGED <<program, way, step, failed>> /\ closed'[c]
    BY <1>1, <1>4, <2>2 DEF Release, End, CloseSocket, FreeObject, TypeOK
  <2> QED BY <1>1, <1>4, <2>3 DEF Disturbed, ClosesTwice, Fails, Op, Current, Path
<1> QED BY <1>3, <1>4

\* Most steps leave the numbers alone.
LEMMA SocketsAlone ==
    ASSUME InVariables, Undisturbed, Disturbed => Disturbed',
           UNCHANGED <<table, sock, closed>>, \A d \in Conn : life'[d] = "new" <=> life[d] = "new"
    PROVE  InVariables' /\ Undisturbed'
<1>1. InVariables'
  BY DEF InVariables, Owner
<1>2. Undisturbed'
  BY DEF Undisturbed, Owner
<1> QED BY <1>1, <1>2

\* A number that is given out was nobody's, and no variable held it rightly.
LEMMA SocketOpens ==
    ASSUME TypeOK, InVariables, Undisturbed, Disturbed => Disturbed',
           NEW c \in Conn, NEW side \in Sides, NEW h \in Handle, Open(c, side, h), sock[c][side] = Invalid,
           side = "client" => ~closed[c], closed' = closed,
           \A d \in Conn : (life'[d] = "new" <=> life[d] = "new") \/ (d = c /\ side = "client")
    PROVE  InVariables' /\ Undisturbed'
<1>1. /\ table[h] = Free /\ table'[h] = Owner(c, side) /\ \A g \in Handle \ {h} : table'[g] = table[g]
      /\ sock'[c][side] = h
      /\ \A d \in Conn, s \in Sides : (d # c \/ s # side) => sock'[d][s] = sock[d][s]
  BY DEF Open, TypeOK
<1>2. \A d \in Conn, s \in Sides : /\ Owner(d, s) # Free
                                   /\ Owner(d, s) = Owner(c, side) => d = c /\ s = side
  BY ConnectionsAssumption DEF Owner, Free
<1>3. Invalid \notin Handle /\ "client" \in Sides /\ "origin" \in Sides
  BY ConnectionsAssumption DEF Sides
<1>4. \A g \in Handle, d \in Conn, s \in Sides : table'[g] = Owner(d, s) => sock'[d][s] = g
  <2>1. SUFFICES ASSUME NEW g \in Handle, NEW d \in Conn, NEW s \in Sides, table'[g] = Owner(d, s)
                 PROVE  sock'[d][s] = g
    OBVIOUS
  <2>2. CASE g = h
    BY <1>1, <1>2, <2>1, <2>2
  <2>3. CASE g # h
    <3>1. table[g] = Owner(d, s) /\ sock[d][s] = g
      BY <1>1, <2>1, <2>3 DEF InVariables
    <3> QED BY <1>1, <1>3, <3>1
  <2> QED BY <2>2, <2>3
<1>5. \A d \in Conn : life'[d] # "new" => sock'[d]["client"] \in Handle
  BY <1>1, <1>3 DEF InVariables
<1>6. \A d \in Conn, g \in Handle : closed'[d] => table'[g] # Owner(d, "client")
  <2>1. SUFFICES ASSUME NEW d \in Conn, NEW g \in Handle, closed[d], table'[g] = Owner(d, "client")
                 PROVE  FALSE
    OBVIOUS
  <2>2. table[g] # Owner(d, "client")
    BY <2>1 DEF InVariables
  <2>3. g = h /\ d = c /\ side = "client"
    BY <1>1, <1>2, <1>3, <2>1, <2>2
  <2> QED BY <2>1, <2>3
<1>7. ASSUME ~Disturbed', NEW d \in Conn
      PROVE  /\ life'[d] # "new" /\ ~closed'[d] => table'[sock'[d]["client"]] = Owner(d, "client")
             /\ sock'[d]["origin"] # Invalid => table'[sock'[d]["origin"]] = Owner(d, "origin")
  <2>1. /\ life[d] # "new" /\ ~closed[d] => table[sock[d]["client"]] = Owner(d, "client")
        /\ sock[d]["origin"] # Invalid => table[sock[d]["origin"]] = Owner(d, "origin")
    BY <1>7 DEF Undisturbed
  <2>2. life[d] # "new" => sock[d]["client"] \in Handle
    BY DEF InVariables
  <2>3. sock[d]["origin"] # Invalid => sock[d]["origin"] \in Handle
    BY <1>3 DEF TypeOK
  <2>4. ASSUME life'[d] # "new", ~closed'[d]
        PROVE  table'[sock'[d]["client"]] = Owner(d, "client")
    <3>1. CASE d = c /\ side = "client"
      BY <1>1, <3>1
    <3>2. CASE ~(d = c /\ side = "client")
      BY <1>1, <1>2, <1>3, <2>1, <2>2, <2>4, <3>2
    <3> QED BY <3>1, <3>2
  <2>5. ASSUME sock'[d]["origin"] # Invalid
        PROVE  table'[sock'[d]["origin"]] = Owner(d, "origin")
    <3>1. CASE d = c /\ side = "origin"
      BY <1>1, <3>1
    <3>2. CASE ~(d = c /\ side = "origin")
      BY <1>1, <1>2, <1>3, <2>1, <2>3, <2>5, <3>2
    <3> QED BY <3>1, <3>2
  <2> QED BY <2>4, <2>5
<1>8. InVariables'
  BY <1>4, <1>5, <1>6 DEF InVariables, Owner
<1>9. Undisturbed'
  BY <1>7 DEF Undisturbed, Owner
<1> QED BY <1>8, <1>9

\* A thread closes what is its own, unless it closes it once more.
LEMMA SocketCloses ==
    ASSUME TypeOK, InVariables, Undisturbed, Disturbed => Disturbed',
           NEW c \in Conn, Fine(c), Release(c), Head(undo[c]) \in Sides
    PROVE  InVariables' /\ Undisturbed'
<1> DEFINE side == Head(undo[c])
           h == sock[c][side]
<1>1. /\ CloseSocket(c, side) /\ side \in Sides /\ life[c] = "open"
      /\ undo[c] \in Seq(Resources) /\ undo[c] # <<>>
      /\ life' = life /\ Sides = {"client", "origin"}
  BY DEF Release, TypeOK, Sides, Resources
<1>2. Invalid \notin Handle /\ h \in Handle \cup {Invalid} /\ (side = "client" => h \in Handle)
  BY <1>1, ConnectionsAssumption DEF TypeOK, InVariables
<1>3. /\ \A g \in Handle : table'[g] = IF g = h THEN Free ELSE table[g]
      /\ \A d \in Conn, s \in Sides : sock'[d][s] = IF d = c /\ s = side /\ s = "origin" THEN Invalid ELSE sock[d][s]
      /\ \A d \in Conn : closed'[d] = (closed[d] \/ (d = c /\ side = "client"))
  BY <1>1, <1>2 DEF CloseSocket, Keeps, TypeOK
<1>4. \A d \in Conn, s \in Sides : Owner(d, s) # Free
  BY ConnectionsAssumption DEF Owner, Free
<1>5. \A d \in Conn, s \in Sides, e \in Conn, t \in Sides : Owner(d, s) = Owner(e, t) => d = e /\ s = t
  BY DEF Owner
<1>6. \A g \in Handle, d \in Conn, s \in Sides : table'[g] = Owner(d, s) => sock'[d][s] = g
  <2>1. SUFFICES ASSUME NEW g \in Handle, NEW d \in Conn, NEW s \in Sides, table'[g] = Owner(d, s)
                 PROVE  sock'[d][s] = g
    OBVIOUS
  <2>2. g # h /\ table[g] = Owner(d, s)
    BY <1>3, <1>4, <2>1
  <2>3. sock[d][s] = g
    BY <2>2 DEF InVariables
  <2> QED BY <1>3, <2>2, <2>3
<1>7. \A d \in Conn : life'[d] # "new" => sock'[d]["client"] \in Handle
  BY <1>1, <1>3 DEF InVariables
<1>8. \A d \in Conn, g \in Handle : closed'[d] => table'[g] # Owner(d, "client")
  <2>1. SUFFICES ASSUME NEW d \in Conn, NEW g \in Handle, closed'[d], table'[g] = Owner(d, "client")
                 PROVE  FALSE
    OBVIOUS
  <2>2. g # h /\ table[g] = Owner(d, "client")
    BY <1>1, <1>3, <1>4, <2>1
  <2>3. sock[d]["client"] = g /\ ~closed[d]
    BY <1>1, <2>2 DEF InVariables
  <2> QED BY <1>3, <2>1, <2>2, <2>3
<1>9. ASSUME ~Disturbed'
      PROVE  h # Invalid => table[h] = Owner(c, side)
  <2>1. ~Disturbed
    BY <1>9
  <2>2. CASE side = "origin"
    BY <2>1, <2>2 DEF Undisturbed
  <2>3. CASE side = "client"
    <3>1. side \in Things(undo[c])
      BY <1>1, FirstAndRest
    <3>2. ~closed[c]
      <4>1. SUFFICES ASSUME closed[c]
                     PROVE  FALSE
        OBVIOUS
      <4>2. failed[c]
        BY <4>1 DEF Fine, GoingOn
      <4>3. ClosesTwice(c)
        BY <2>3, <3>1, <4>1, <4>2 DEF Fine, GivingBack
      <4> QED BY <2>1, <4>1, <4>3 DEF Disturbed
    <3> QED BY <1>1, <2>1, <2>3, <3>2 DEF Undisturbed
  <2> QED BY <1>1, <2>2, <2>3
<1>10. ASSUME ~Disturbed', NEW d \in Conn
       PROVE  /\ life'[d] # "new" /\ ~closed'[d] => table'[sock'[d]["client"]] = Owner(d, "client")
              /\ sock'[d]["origin"] # Invalid => table'[sock'[d]["origin"]] = Owner(d, "origin")
  <2>1. /\ life[d] # "new" /\ ~closed[d] => table[sock[d]["client"]] = Owner(d, "client")
        /\ sock[d]["origin"] # Invalid => table[sock[d]["origin"]] = Owner(d, "origin")
    BY <1>10 DEF Undisturbed
  <2>2. life[d] # "new" => sock[d]["client"] \in Handle
    BY DEF InVariables
  <2>3. sock[d]["origin"] # Invalid => sock[d]["origin"] \in Handle
    BY <1>1 DEF TypeOK
  <2>4. h # Invalid => table[h] = Owner(c, side)
    BY <1>9, <1>10
  <2>5. ASSUME life'[d] # "new", ~closed'[d]
        PROVE  table'[sock'[d]["client"]] = Owner(d, "client")
    <3>1. ~closed[d] /\ ~(d = c /\ side = "client") /\ life[d] # "new" /\ sock'[d]["client"] = sock[d]["client"]
      BY <1>1, <1>3, <2>5
    <3>2. table[sock[d]["client"]] = Owner(d, "client") /\ sock[d]["client"] \in Handle
      BY <2>1, <2>2, <3>1
    <3>3. sock[d]["client"] # h
      BY <1>1, <1>2, <1>5, <2>4, <3>1, <3>2
    <3> QED BY <1>3, <3>1, <3>2, <3>3
  <2>6. ASSUME sock'[d]["origin"] # Invalid
        PROVE  table'[sock'[d]["origin"]] = Owner(d, "origin")
    <3>1. ~(d = c /\ side = "origin") /\ sock'[d]["origin"] = sock[d]["origin"]
      BY <1>1, <1>3, <2>6
    <3>2. table[sock[d]["origin"]] = Owner(d, "origin") /\ sock[d]["origin"] \in Handle
      BY <2>1, <2>3, <2>6, <3>1
    <3>3. sock[d]["origin"] # h
      BY <1>1, <1>2, <1>5, <2>4, <3>1, <3>2
    <3> QED BY <1>3, <3>1, <3>2, <3>3
  <2> QED BY <2>5, <2>6
<1>11. InVariables'
  BY <1>6, <1>7, <1>8 DEF InVariables, Owner
<1>12. Undisturbed'
  BY <1>10 DEF Undisturbed, Owner
<1> QED BY <1>11, <1>12

\* The numbers, at every step of a connection.
LEMMA SocketsStep ==
    ASSUME ConnectionsInv, NEW c \in Conn, Accept(c) \/ Thread(c)
    PROVE  InVariables' /\ Undisturbed'
<1>1. TypeOK /\ InVariables /\ Undisturbed /\ Fine(c)
  BY DEF ConnectionsInv, Fine
<1>2. Disturbed => Disturbed'
  BY <1>1, StaysDisturbed
<1>3. CASE Accept(c)
  <2>1. life[c] = "new" /\ closed' = closed /\ \A d \in Conn \ {c} : life'[d] = life[d]
    BY <1>1, <1>3 DEF Accept, TypeOK
  <2>2. ~closed[c] /\ sock[c]["client"] = Invalid /\ "client" \in Sides
    BY <1>1, <2>1 DEF Fine, Untouched, GoingOn, Sides
  <2>3. PICK h \in Handle : Open(c, "client", h)
    BY <1>3 DEF Accept
  <2> QED BY <1>1, <1>2, <2>1, <2>2, <2>3, SocketOpens
<1>4. ASSUME NEW h \in Handle, Dial(c), Open(c, "origin", h)
      PROVE  InVariables' /\ Undisturbed'
  BY <1>1, <1>2, <1>4, SocketOpens DEF Dial, Sides
<1>5. CASE Release(c) /\ Head(undo[c]) \in Sides
  BY <1>1, <1>2, <1>5, SocketCloses
<1>6. ASSUME UNCHANGED <<table, sock, closed>>, life' = life
      PROVE  InVariables' /\ Undisturbed'
  BY <1>1, <1>2, <1>6, SocketsAlone
<1>7. CASE Plainly(c) \/ Refuse(c) \/ BlindReply(c) \/ Upgrade(c) \/ Redial(c) \/ OwnContext(c)
           \/ AcceptTls(c) \/ Handshake(c) \/ Agree(c) \/ Serve(c)
  BY <1>6, <1>7 DEF Plainly, Refuse, BlindReply, Upgrade, Redial, OwnContext, AcceptTls, Handshake, Agree, Serve
<1>8. CASE Dial(c) /\ ConnectFails(c)
  BY <1>6, <1>8 DEF Dial, ConnectFails
<1>9. CASE Release(c) /\ Head(undo[c]) \notin Sides
  BY <1>6, <1>9 DEF Release, FreeObject
<1>10. CASE End(c)
  <2>1. life[c] = "open" /\ life'[c] = "over" /\ \A d \in Conn \ {c} : life'[d] = life[d]
    BY <1>1, <1>10 DEF End, TypeOK
  <2> QED BY <1>1, <1>2, <1>10, <2>1, SocketsAlone DEF End
<1>11. Dial(c) => (\E h \in Handle : Open(c, "origin", h)) \/ ConnectFails(c)
  BY DEF Dial
<1> QED BY <1>3, <1>4, <1>5, <1>7, <1>8, <1>9, <1>10, <1>11 DEF Thread

LEMMA ConnectionsInit == Init => ConnectionsInv
<1> SUFFICES ASSUME Init
             PROVE  ConnectionsInv
  OBVIOUS
<1>1. Types
  BY DEF Init, Types, Protocols
<1>2. \A c \in Conn : Current(c) = WayOf(program, "plain") /\ step[c] = 1
  BY DEF Init, Current, Path, WayOf
<1>3. program \in Names
  BY ConnectionsAssumption, Programs DEF Init
<1>4. \A c \in Conn : InWay(c)
  BY <1>2, <1>3, WaysAreRight DEF InWay, Shaped, Kinds
<1>5. TypeOK
  BY <1>1, <1>4, TypeParts
<1>6. \A h \in Handle, c \in Conn, s \in Sides : table[h] # Owner(c, s)
  BY ConnectionsAssumption DEF Init, Owner, Free
<1>7. InVariables
  BY <1>6 DEF Init, InVariables
<1>8. Undisturbed
  BY DEF Init, Undisturbed, Sides
<1>9. ASSUME NEW c \in Conn
      PROVE  Untouched(c) /\ GoingOn(c) /\ GivingBack(c) /\ HasBio(c) /\ Speaking(c)
  <2>1. Untouched(c)
    BY DEF Init, Untouched
  <2>2. Things(undo[c]) = {}
    BY NothingListed DEF Init
  <2>3. GoingOn(c)
    BY <2>2 DEF Init, GoingOn, Sides
  <2>4. GivingBack(c) /\ HasBio(c)
    BY DEF Init, GivingBack, HasBio, Objects
  <2>5. \A n \in 1..step[c] - 1 : FALSE
    BY <1>2
  <2>6. Speaking(c)
    BY <2>5 DEF Init, Speaking
  <2> QED BY <2>1, <2>3, <2>4, <2>6
<1> QED BY <1>5, <1>7, <1>8, <1>9 DEF ConnectionsInv

LEMMA ConnectionsStep == ConnectionsInv /\ [Next]_vars => ConnectionsInv'
<1> SUFFICES ASSUME ConnectionsInv, [Next]_vars
             PROVE  ConnectionsInv'
  OBVIOUS
<1>1. TypeOK /\ \A d \in Conn : Fine(d)
  BY DEF ConnectionsInv, Fine
<1>2. ASSUME NEW c \in Conn, Accept(c) \/ Thread(c)
      PROVE  ConnectionsInv'
  <2>1. TypeOK' /\ \A d \in Conn : Fine(d)'
    <3>1. Types' /\ Alone(c) /\ Fine(c)' /\ InWay(c)'
      BY <1>1, <1>2, EachStep
    <3> QED BY <1>1, <3>1, ThreadKeeps
  <2>2. InVariables' /\ Undisturbed'
    BY <1>2, SocketsStep
  <2> QED BY <2>1, <2>2 DEF ConnectionsInv, Fine
<1>3. CASE UNCHANGED vars
  <2>1. program' = program /\ \A d \in Conn : Row(d)' = Row(d)
    BY <1>3 DEF vars, Row
  <2>2. \A d \in Conn : Fine(d)'
    BY <1>1, <2>1, OthersKeep
  <2>3. TypeOK'
    BY <1>1, <1>3 DEF vars, TypeOK, Current, Path
  <2>4. InVariables' /\ Undisturbed'
    <3>1. Disturbed' = Disturbed
      BY <1>3 DEF vars, Disturbed, ClosesTwice, Fails, Op, Current, Path
    <3>2. InVariables /\ Undisturbed
      BY DEF ConnectionsInv
    <3> QED BY <1>3, <3>1, <3>2, SocketsAlone DEF vars
  <2> QED BY <2>2, <2>3, <2>4 DEF ConnectionsInv, Fine
<1> QED BY <1>2, <1>3 DEF Next, Terminated

-----------------------------------------------------------------------------
(* The theorems.                                                           *)

\* Both ways of each of the eight programs give back, wherever a step fails and when
\* the last one is over, every object the steps behind have made and the origin they
\* may have connected: the returns of HandleConnect, HandleConnectMITM, HandleHttp
\* and Http1Engine::process, one by one.
THEOREM EveryWayIsBalanced ==
    \A p \in DOMAIN PathOf : Balanced(PathOf[p].connect) /\ Balanced(PathOf[p].plain)
BY Programs, WaysAreRight DEF WayOf, Kinds

\* The inductive invariant holds: the sockets and objects a thread has are those the
\* steps behind it made, until it gives them back, each once.
THEOREM ConnectionsInvariant == Spec => []ConnectionsInv
BY ConnectionsInit, ConnectionsStep, PTL DEF Spec

\* What the invariant says of the four properties.
LEMMA SocketsFollow == ConnectionsInv => SocketsStayOurs
<1> SUFFICES ASSUME ConnectionsInv, NEW c \in Conn
             PROVE  /\ life[c] # "new" /\ ~closed[c] /\ table[sock[c]["client"]] # Owner(c, "client")
                          => \E d \in Conn : d # c /\ ClosesTwice(d)
                    /\ sock[c]["origin"] # Invalid /\ table[sock[c]["origin"]] # Owner(c, "origin")
                          => \E d \in Conn : d # c /\ ClosesTwice(d)
  BY Zenon DEF SocketsStayOurs
<1>1. CASE ~Disturbed
  BY <1>1 DEF ConnectionsInv, Undisturbed
<1>2. CASE Disturbed
  <2>1. PICK d \in Conn : closed[d] /\ ClosesTwice(d)
    BY <1>2 DEF Disturbed
  <2>2. CASE d # c
    BY <2>1, <2>2
  <2>3. CASE d = c
    <3>1. failed[c] /\ GivingBack(c)
      BY <2>1, <2>3 DEF ConnectionsInv, ClosesTwice, Fails
    <3>2. sock[c]["origin"] = Invalid
      BY <2>1, <2>3, <3>1 DEF GivingBack
    <3> QED BY <2>1, <2>3, <3>2
  <2> QED BY <2>2, <2>3
<1> QED BY <1>1, <1>2

LEMMA LeaksFollow == ConnectionsInv => NothingLeaks
<1> SUFFICES ASSUME ConnectionsInv, NEW c \in Conn, life[c] = "over"
             PROVE  /\ \A h \in Handle : table[h].conn = c => ForgetsClient(c) /\ table[h].side = "client"
                    /\ \A o \in Objects : object[c][o] # "live"
  BY Zenon DEF NothingLeaks
<1>1. GoingOn(c) /\ GivingBack(c) /\ TypeOK /\ InVariables
  BY DEF ConnectionsInv
<1>2. failed[c]
  BY <1>1 DEF GoingOn
<1>3. /\ closed[c] \/ ForgetsClient(c)
      /\ sock[c]["origin"] = Invalid
      /\ \A o \in Objects : object[c][o] # "live"
  BY <1>1, <1>2, NothingListed DEF GivingBack
<1>4. ASSUME NEW h \in Handle, table[h].conn = c
      PROVE  ForgetsClient(c) /\ table[h].side = "client"
  <2>1. table[h] = Free \/ \E d \in Conn, s \in Sides : table[h] = Owner(d, s)
    BY <1>1 DEF TypeOK
  <2>2. PICK s \in Sides : table[h] = Owner(c, s)
    <3>1. table[h] # Free
      BY <1>4, ConnectionsAssumption DEF Free
    <3>2. PICK d \in Conn, s \in Sides : table[h] = Owner(d, s)
      BY <2>1, <3>1
    <3>3. d = c
      BY <1>4, <3>2 DEF Owner
    <3> QED BY <3>2, <3>3
  <2>3. s # "origin"
    BY <1>1, <1>3, <2>2, ConnectionsAssumption DEF InVariables
  <2>4. s = "client" /\ table[h].side = "client"
    BY <2>2, <2>3 DEF Sides, Owner
  <2>5. ~closed[c]
    BY <1>1, <2>2, <2>4 DEF InVariables
  <2> QED BY <1>3, <2>4, <2>5
<1> QED BY <1>3, <1>4

LEMMA OrderFollows == ConnectionsInv => FreedInOrder
<1> SUFFICES ASSUME ConnectionsInv, NEW c \in Conn
             PROVE  HasBio(c) /\ \A o \in Objects : object[c][o] # "freedTwice"
  BY DEF FreedInOrder
<1>1. HasBio(c) /\ GoingOn(c) /\ GivingBack(c)
  BY DEF ConnectionsInv
<1>2. CASE failed[c]
  BY <1>1, <1>2 DEF GivingBack
<1>3. CASE ~failed[c]
  BY <1>1, <1>3 DEF GoingOn
<1> QED BY <1>1, <1>2, <1>3

\* The number in clientSock or upstream is that thread's socket until it closes it:
\* no closesocket of another connection hits it, but for the two early returns of
\* proxy_pure_m3's HandleHttp after which the client's socket is closed twice.
THEOREM SocketsAlwaysOurs == Spec => []SocketsStayOurs
BY ConnectionsInvariant, SocketsFollow, PTL

\* A thread that has ended, through whichever return, has closed its sockets and freed
\* its SSL objects, context and BIO data; plan B alone keeps the client's socket, when
\* it refuses the port of a CONNECT.
THEOREM NeverLeaks == Spec => []NothingLeaks
BY ConnectionsInvariant, LeaksFollow, PTL

\* SSL_free, SSL_CTX_free and delete are called once for each object, and the data of
\* the BIO is deleted after the session that reads through it.
THEOREM AlwaysFreedInOrder == Spec => []FreedInOrder
BY ConnectionsInvariant, OrderFollows, PTL
==============================================================================
