--------------------------- MODULE MCDayOptimizer ---------------------------
(* Days of a small school for TLC: two classes in one slot that may both lose *)
(* their teachers, a PT teacher who may be called away, a music teacher who   *)
(* is free but only for emergencies, and one who has substituted very often.  *)
EXTENDS DayOptimizer

T(id, groups, specialties, emergency, count) ==
    [id |-> id, groups |-> groups, specialties |-> specialties, emergency |-> emergency,
     count |-> count, last7 |-> 0, last30 |-> 0]

Staff == {T("t1", {"g1"}, {"music"}, FALSE, 0), T("t2", {"g2"}, {}, FALSE, 0),
          T("pt", {"g1", "g2"}, {}, FALSE, 1),
          T("free", {"g1", "g2"}, {"music"}, TRUE, 0),
          T("busy", {"g1"}, {"music"}, FALSE, 600)}

A(id, slot, type, teacher, group, priority, movable, specialty) ==
    [id |-> id, slot |-> slot, type |-> type, teacher |-> teacher, group |-> group,
     priority |-> priority, movable |-> movable, cancelable |-> FALSE,
     specialty |-> specialty]

Lessons == {A("a1", "s1", "CLASS", "t1", "g1", Normal, FALSE, "music"),
            A("a2", "s1", "CLASS", "t2", "g2", Normal, FALSE, NoSpecialty),
            A("a4", "s2", "CLASS", "t2", "g1", Normal, TRUE, "music"),
            A("a5", "s2", "COORDINATION", "busy", NoGroup, High, TRUE, NoSpecialty)}

\* What the PT teacher does in s1.
PtLessons == {A("a3", "s1", "PT", "pt", "g1", Normal, TRUE, NoSpecialty),
              A("a6", "s1", "PT", "pt", NoGroup, High, TRUE, NoSpecialty),
              A("a7", "s1", "CLASS", "pt", "g1", Normal, TRUE, NoSpecialty)}

Away(teacher, slots) == [teacher |-> teacher, slots |-> slots]
Absences == {{}, {Away("t1", {"s1"})},
             {Away("t1", {"s1"}), Away("t2", {"s1", "s2"})},
             {Away("t1", {"s1"}), Away("t2", {"s1"}), Away("free", {"s1", "s2"})}}

Lock(activity, teacher) == [activity |-> activity, teacher |-> teacher]
Locks == {<<>>, <<Lock("a1", "pt")>>, <<Lock("a1", "t1")>>,
          <<Lock("a2", "free")>>, <<Lock("a2", "free"), Lock("a1", "free")>>}

SomeDays ==
    {[teachers |-> Staff, activities |-> Lessons \cup {pt}, absences |-> away, locked |-> locked] :
        pt \in PtLessons, away \in Absences, locked \in Locks}

DoubleBookedDay ==
    [teachers |-> Staff, activities |-> Lessons \cup PtLessons, absences |-> {}, locked |-> <<>>]

MCDays == SomeDays \cup {DoubleBookedDay}
=============================================================================
