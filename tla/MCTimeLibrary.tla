---------------------------- MODULE MCTimeLibrary -----------------------------
(***************************************************************************)
(* The time library: its clock, its calendar beside a wall calendar, and   *)
(* the zones built on it.  They share no variable, so each moves only      *)
(* while the others rest: all that side by side could add is the product.  *)
(***************************************************************************)
EXTENDS SystemClock, CivilClock, ZoneRules

-----------------------------------------------------------------------------
ClockRests == Init /\ millis = 0
CivilRests == CivilInit
RulesRest  == RulesInit /\ zone = CHOOSE z \in Zones : TRUE

LibraryInit == Init /\ CivilRests /\ RulesInit /\ (ClockRests \/ RulesRest)

LibraryNext ==
    \/ CivilRests /\ RulesRest /\ Next /\ UNCHANGED <<civil, rules>>
    \/ ClockRests /\ RulesRest /\ Midnight /\ UNCHANGED <<vars, rules>>
    \/ ClockRests /\ CivilRests /\ RulesNext /\ UNCHANGED <<vars, civil>>

LibrarySpec == LibraryInit /\ [][LibraryNext]_<<vars, civil, rules>>

-----------------------------------------------------------------------------
\* The types of the clock and of the zones.
TypesOK == TypeOK /\ ZoneOK

\* Both conversions, in any order and for any years, use the change points of
\* their own year and zone.
ConversionsAreRight == LocalIsRight /\ UTCIsRight

-----------------------------------------------------------------------------
\* Mountain and Eastern time, and a zone east of Greenwich; Arizona.
Several == { [std |-> -420, dst |-> -360], [std |-> -300, dst |-> -240],
             [std |-> 600, dst |-> 660], [std |-> -420, dst |-> -420] }
Two     == { [std |-> -420, dst |-> -360], [std |-> -300, dst |-> -240] }

\* A leap year, and one whose March and November begin on a Sunday, with the
\* days on which the clocks change.
Years   == {2016, 2026}
Changes == [y \in Years |->
              IF y = 2016 THEN [March |-> 13, November |-> 6]
                          ELSE [March |-> 8, November |-> 1]]

Around(t) == {t - 61, t - 60, t - 1, t, t + 59, t + 60}

Edges(z, y) ==
    LET at(d, m, h) == makeTime([Minute |-> 0, Hour |-> h, Day |-> d,
                                      Month |-> m, Year |-> y - 1970])
    IN  Around(at(Changes[y].March, 3, 2) - z.std)
          \cup Around(at(Changes[y].November, 11, 2) - z.dst)
          \cup {at(1, 1, 0), at(1, 1, 0) - 1, at(1, 7, 0)}

EdgesOfAll == UNION {Edges(z, yr) : z \in Several, yr \in Years}
EdgesOfTwo == UNION {Edges(z, 2016) : z \in Two}
=============================================================================
