----------------------------- MODULE MCEngines ------------------------------
(* Values for Engines: days of two months on which the kinds of schedule    *)
(* differ, expressions of every form, snapshots of up to ten weeks.          *)
EXTENDS Engines

Fields(minute, hour, dom, month, dow) ==
  [form |-> "fields", minute |-> minute, hour |-> hour, dom |-> dom,
   month |-> month, dow |-> dow]
Shorthand(form) ==
  [Fields(Just(0), Just(0), Any, Any, Just(0)) EXCEPT !.form = form]

MCClock == {<<2, 30>>, <<24, 0>>}
MCDayLists == {{<<1, 5>>}, {<<1, 1>>, <<3, 3>>}, {<<6, 7>>}, {<<0, 2>>}, {<<7, 7>>}, {<<8, 8>>}}
MCDoms == {1, 28, 31}
MCCounts == {-1, 0, 1, 2}
MCCrons ==
  {Fields(Just(0), Just(9) \cup Just(17), Any, Any, {Token(1, 5, 1)}),
   Fields(Just(0), Just(9), Any, Any, {Token(1, 1, 2)}),
   Fields({Token(Star, Star, 30)}, Any, Any, Any, Any),
   Fields(Just(0), Just(2), Any, Any, Just(7)),
   Fields(Just(0), Just(2), Just(31), Just(2), Any),
   Fields(Just(0), Just(2), {Token(1, 1, 14)}, Any, Just(5)),
   Fields(Just(60), Just(2), Any, Any, Any),
   Shorthand("shorthand"), Shorthand("Shorthand"), Shorthand("unknown")}
MCDurations == {<<0, Blank>>, <<3, Blank>>, <<2, "d">>, <<5, "w">>, <<1, "m">>, <<1, "y">>}

MCDays ==
  {d \in [dom : {1, 15, 28, 29, 31}, month : {1, 2}, dow : 0..6] :
     d.month = 2 => d.dom < 30}

MCPolicies == {KeepLast(1), Tiered([t \in Tier |-> 2], 0)}

Ages == <<0, 0, 1, 7, 8, 30, 69>>
MCTaken == SUBSET {[no |-> n, day |-> Ages[n]] : n \in 1..7}
=============================================================================
