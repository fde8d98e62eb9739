----------------------------- MODULE MCStaffing -----------------------------
(* Small schools for TLC: a generalist who likes to be a tutor, a specialist  *)
(* of English, and a part-time teacher; two groups, at most two lessons and   *)
(* two activities.  The variations make minutes, tutors or staff run short,   *)
(* or fix decisions that exclude each other.                                  *)
EXTENDS Staffing

Ann == [id |-> "ann", role |-> "generalista", minutes |-> 180, subjects |-> {"maths", "english"},
        specialties |-> {}, preference |-> "preferente", fixedGroup |-> NoGroup, minTutor |-> 90]
Bea == [id |-> "bea", role |-> "especialista", minutes |-> 120, subjects |-> {"english"},
        specialties |-> {"english"}, preference |-> "evitar", fixedGroup |-> NoGroup, minTutor |-> 0]
Cid == [id |-> "cid", role |-> "mixto", minutes |-> 60, subjects |-> {"maths"},
        specialties |-> {}, preference |-> "no", fixedGroup |-> NoGroup, minTutor |-> 60]

Lesson(id, group, subject, minutes, fixed) ==
    [id |-> id, group |-> group, subject |-> subject, minutes |-> minutes, fixed |-> fixed]

Activity(id, minutes, staff, fixed, eligible, groups) ==
    [id |-> id, minutes |-> minutes, staff |-> staff, fixed |-> fixed, eligible |-> eligible,
     groups |-> groups]

Staffs == {{Ann, Bea, Cid}, {Ann, [Cid EXCEPT !.preference = "disponible"]},
           {[Ann EXCEPT !.minutes = 90], Bea, [Cid EXCEPT !.fixedGroup = "g1"]},
           {[Ann EXCEPT !.fixedGroup = "g1"], [Cid EXCEPT !.fixedGroup = "g1"]}}

LessonSets == {{Lesson("m", "g1", "maths", 90, Nobody), Lesson("e", "g1", "english", 90, Nobody)},
               {Lesson("m", "g1", "maths", 60, "ann"), Lesson("e", "g2", "english", 150, Nobody)},
               {Lesson("m", "g2", "maths", 60, "cid"), Lesson("e", "g2", "english", 120, "ann")}}

ActivitySets == {{},
                 {Activity("library", 60, 1, {}, {"ann", "cid"}, {"g1"})},
                 {Activity("meeting", 30, 1, {"ann", "cid"}, {}, {})},
                 {Activity("trip", 60, 3, {"cid"}, {"ann"}, {"g1", "g2"})}}

School(teachers, requirements, activities) ==
    [teachers |-> teachers, requirements |-> requirements, activities |-> activities,
     groups |-> {"g1", "g2"}]

\* Nobody but the generalist, who cannot do both, may give the short lesson and
\* look after the long activity.
ShortLesson ==
    School({[Ann EXCEPT !.minutes = 120]}, {Lesson("m", "g1", "maths", 30, Nobody)},
           {Activity("library", 120, 1, {}, {"ann"}, {})})

Invalid == School({[Bea EXCEPT !.subjects = {}]}, {}, {})

Schools == {School(t, r, a) : t \in Staffs, r \in LessonSets, a \in ActivitySets}
              \cup {ShortLesson, Invalid}
=============================================================================
