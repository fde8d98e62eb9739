--------------------------- MODULE MCWeekOptimizer ---------------------------
(* Weeks for TLC, next to the single days of MCDayOptimizer: two teachers who *)
(* can stand in for each other and one with a duty, for the lessons of one    *)
(* who is away.                                                               *)
EXTENDS WeekOptimizer, MCDayOptimizer

WeekStaff == {T("t1", {"g1"}, {}, FALSE, 0), T("ana", {"g1"}, {}, FALSE, 0),
              T("bea", {"g1"}, {}, FALSE, 0), T("pt", {"g1"}, {}, FALSE, 0)}

First  == A("b1", "s1", "CLASS", "t1", "g1", Normal, FALSE, NoSpecialty)
Second == A("b2", "s2", "CLASS", "t1", "g1", Normal, FALSE, NoSpecialty)
Duty   == A("b3", "s1", "PT", "pt", NoGroup, Normal, TRUE, NoSpecialty)

P(date, activities, absences, locked) ==
    [date |-> date, activities |-> activities, absences |-> absences, locked |-> locked]

Ill == {Away("t1", {"s1", "s2"})}
One(date)  == P(date, {First, Duty}, Ill, <<>>)
Two(date)  == P(date, {First, Second, Duty}, Ill, <<>>)
Mine(date) == P(date, {First, Duty}, Ill, <<Lock("b1", "bea")>>)
\* Refused: the locked teacher is away.
Bad(date)  == P(date, {First}, Ill \cup {Away("bea", {"s1"})}, <<Lock("b1", "bea")>>)

Problems == {<<One(2), One(1)>>, <<One(3), Mine(1), One(2)>>, <<One(1), One(1), One(1)>>,
             <<Two(1), One(2)>>, <<One(2), Two(1)>>, <<Bad(2), Mine(1)>>, <<Two(1)>>}

MCWeeks == {[teachers |-> WeekStaff, problems |-> p] : p \in Problems}
=============================================================================
