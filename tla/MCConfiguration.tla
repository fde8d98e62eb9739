--------------------------- MODULE MCConfiguration ---------------------------
(* Small timetables, duties and students for TLC: one slot, two teachers, two *)
(* days, one student.                                                        *)
EXTENDS Configuration

Item(id, refs)         == [nr |-> 1, id |-> id, refs |-> refs, days |-> {}]
Lesson(id, refs, days) == [nr |-> 1, id |-> id, refs |-> refs, days |-> days]

Nothing == [t \in Tables |-> {}]

\* One lesson of the teacher in the slot s1, with the group and subject it needs.
Timetable(lesson, teacher, days) ==
    [Nothing EXCEPT
       !["activities"] = {Lesson(lesson, {<<"teachers", teacher>>, <<"slots", "s1">>,
                                          <<"groups", "g1">>, <<"subjects", "m1">>}, days)},
       !["subjects"]   = {Item("m1", {})},
       !["teachers"]   = {Item(teacher, {<<"groups", "g1">>})},
       !["slots"]      = {Item("s1", {})},
       !["groups"]     = {Item("g1", {})}]

\* The lessons a1 and a2 of the teacher on two days, without group and subject, one
\* of them listed first.
TwoLessons(first, second, teacher) ==
    LET needs == {<<"teachers", teacher>>, <<"slots", "s1">>}
    IN  [Nothing EXCEPT
           !["activities"] = {Lesson(first, needs, {"mon"}),
                              [Lesson(second, needs, {"tue"}) EXCEPT !.nr = 2]},
           !["teachers"]   = {Item(teacher, {})},
           !["slots"]      = {Item("s1", {})}]

\* One lesson as the legacy handler takes it, without subject.
LegacyTimetable(lesson, teacher) ==
    [Timetable(lesson, teacher, Days) EXCEPT
       !["activities"] = {Lesson(lesson, {<<"teachers", teacher>>, <<"slots", "s1">>,
                                          <<"groups", "g1">>}, Days)},
       !["subjects"]   = {}]

\* A lesson of a teacher nobody sent.
Dangling ==
    [Timetable("a1", "t1", Days) EXCEPT !["teachers"] = {Item("t2", {<<"groups", "g1">>})}]

\* A shift and a scheduled activity of the teacher.
Duties(teacher) ==
    [Nothing EXCEPT !["shifts"] = {Item("d1", {<<"teachers", teacher>>})},
                    !["duties"] = {Item("d2", {<<"teachers", teacher>>})}]

\* A student of the group with a support of its own.
Roster(group, support) ==
    [Nothing EXCEPT !["students"] = {Item("u1", {<<"groups", group>>})},
                    !["supports"] = {Item(support, {<<"students", "u1">>})}]

MCDays == {"mon", "tue"}

MCKind ==
    [r \in Puts |-> CASE r \in {"p1", "p2", "p5"} -> "academic"
                      [] r = "p3"                 -> "legacy"
                      [] r \in {"o1", "o2"}       -> "operations"
                      [] OTHER                    -> "roster"]

\* Every timetable has the activity a1: edits of one timetable.
SharedIds ==
    [w \in Writers |->
        CASE w = "seed" -> Timetable("a1", "t1", MCDays)
          [] w = "p1"   -> TwoLessons("a1", "a2", "t2")
          [] w = "p2"   -> TwoLessons("a2", "a1", "t1")
          [] w = "p3"   -> LegacyTimetable("a1", "t2")
          [] w = "p5"   -> Dangling
          [] w = "o1"   -> Duties("t1")
          [] w = "o2"   -> Duties("t2")
          [] w = "r1"   -> Roster("g1", "v1")
          [] w = "r2"   -> Roster("g1", "v2")
          [] w = "r3"   -> Roster("g2", "v3")]

\* Timetables with a solver, with one that is refused, with duties, with students.
MCMixes == {{"p1", "p2", "p3", "s1"}, {"p1", "p5", "s1"}, {"p1", "p3", "o1", "o2"},
            {"p3", "r1", "r2", "r3"}}
FreshMixes == {{"p1", "p2"}}

\* Each replacement names its activities anew: newly drawn up timetables.
FreshIds ==
    [w \in Writers |->
        CASE w = "seed" -> Timetable("a0", "t1", MCDays)
          [] w = "p1"   -> Timetable("a1", "t1", MCDays)
          [] w = "p2"   -> Timetable("a2", "t1", MCDays)]
=============================================================================
