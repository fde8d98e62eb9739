---------------------------- MODULE WeekOptimizer ----------------------------
(* SchoolWeekOptimizer.solve: the days of a week in the order of their dates, *)
(* each solved by the strict optimizer with the counts that the days before   *)
(* it have left.  A day that is refused or times out ends the week.           *)
EXTENDS DayOptimizer

CONSTANTS Weeks,     \* [teachers: a set, problems: a sequence of days with a date]
          NoWeek

\* The fields of Teacher that the optimizers look at.
IsRecord(t) ==
    t = [field \in {"id", "groups", "specialties", "emergency", "count", "last7", "last30"} |->
           t[field]]

\* A week without days is returned at once.  Its teachers and its days are as in
\* IdsAssumption; dates are numbered.
ASSUME WeeksAssumption ==
    /\ NoWeek \notin Weeks
    /\ \A w \in Weeks :
          /\ w.problems # <<>>
          /\ \A t, u \in w.teachers : t.id = u.id => t = u
          /\ \A t \in w.teachers : IsRecord(t)
          /\ WellFormedTeachers(w.teachers)
          /\ IsList(w.problems)
          /\ \A i \in DOMAIN w.problems :
                /\ w.problems[i].date \in Int
                /\ WellFormedLessons(w.problems[i].activities)
                /\ IsList(w.problems[i].locked)

VARIABLES week,      \* the input of solve; NoWeek: a single day is asked for
          current,   \* the problem that is being solved
          evolving,  \* the teachers with their counts so far
          solved     \* the days solved: problem, plan and the teachers it was solved with

weekVars == <<week, current, evolving, solved>>

\* (with a bug: the days are solved in the order they are given)
IsNextAsGiven(i, some) == i \in some /\ \A j \in some : i <= j

\* i comes next of some problems.  sorted is stable.
IsNext(i, some) ==
    /\ i \in some
    /\ \A j \in some : \/ week.problems[i].date < week.problems[j].date
                       \/ week.problems[i].date = week.problems[j].date /\ i <= j

\* (with a bug: every day is solved with the counts before the week)
DayOfGivenTeachers(i, teachers) ==
    [teachers |-> week.teachers, activities |-> week.problems[i].activities,
     absences |-> week.problems[i].absences, locked |-> week.problems[i].locked]

DayOf(i, teachers) ==
    [teachers |-> teachers, activities |-> week.problems[i].activities,
     absences |-> week.problems[i].absences, locked |-> week.problems[i].locked]

WeekInit ==
    /\ solved = <<>>
    /\ \/ week = NoWeek /\ current = 0 /\ evolving = {} /\ Init
       \/ /\ week \in Weeks
          /\ IsNext(current, DOMAIN week.problems)
          /\ evolving = week.teachers
          /\ day = DayOf(current, week.teachers)
          /\ engine = "strict"
          /\ pc = "start" /\ status = [i \in 1 .. 2 |-> "none"]
          /\ minimum = 0 /\ plan = <<>> /\ report = {}

\* t after so many more substitutions
After(t, added) ==
    [t EXCEPT !.count = @ + added, !.last7 = @ + added, !.last30 = @ + added]

\* The lessons that a teacher takes over in the plan f for the day d.
Taken(id, d, f) == Cardinality({n \in Needs(d) : f[n] = id})

Evolved == {After(t, Taken(t.id, day, plan)) : t \in evolving}

Rest == DOMAIN week.problems \ ({solved[k].problem : k \in DOMAIN solved} \cup {current})

\* The counts of a solved day are carried over to the next one.
CarryOver ==
    /\ current # 0 /\ pc = "reported"
    /\ evolving' = Evolved
    /\ solved' = Append(solved, [problem |-> current, plan |-> plan, teachers |-> day.teachers])
    /\ \/ /\ Rest = {}
          /\ current' = 0
          /\ UNCHANGED vars
       \/ \E i \in Rest :
             /\ IsNext(i, Rest)
             /\ current' = i
             /\ day' = DayOf(i, Evolved)
             /\ pc' = "start" /\ status' = [j \in 1 .. 2 |-> "none"]
             /\ minimum' = 0 /\ plan' = <<>> /\ report' = {}
             /\ UNCHANGED engine
    /\ UNCHANGED week

WeekNext == (Next /\ UNCHANGED weekVars) \/ CarryOver

WeekSpec == WeekInit /\ [][WeekNext]_<<vars, weekVars>>

-----------------------------------------------------------------------------
\* What the teacher takes over on the days of some solved entries.
TakenOn(id, some) ==
    SumFunction([k \in some |-> Taken(id, DayOf(solved[k].problem, {}), solved[k].plan)])

\* Entries of days before the problem i.
Earlier(i) ==
    {k \in DOMAIN solved : \/ week.problems[solved[k].problem].date < week.problems[i].date
                           \/ /\ week.problems[solved[k].problem].date = week.problems[i].date
                              /\ solved[k].problem < i}

\* Whatever order the days are given in, each of them is solved with the counts
\* from before the week and one more for every lesson taken over on a day before
\* it; the teachers that are returned have those of the whole week.
CountsAreCarried ==
    week # NoWeek =>
        /\ \A k \in DOMAIN solved :
              solved[k].teachers =
                  {After(t, TakenOn(t.id, Earlier(solved[k].problem))) : t \in week.teachers}
        /\ evolving = {After(t, TakenOn(t.id, DOMAIN solved)) : t \in week.teachers}

\* A lesson goes to none who has already substituted more often in this week than
\* somebody on offer who has the same counts and duties
\* (tests/test_weekly_solver.py: first != second).
Interchangeable(a, b, n) ==
    /\ [a EXCEPT !.id = b.id] = b
    /\ Current(day, a.id, n.slot) = {} /\ Current(day, b.id, n.slot) = {}

WeekIsShared ==
    current # 0 /\ pc = "reported" /\ Optimal =>
        \A n \in Covered(day, plan) : \A a \in report : \A s, t \in week.teachers :
            /\ a.need = n /\ a.status \in Alternative /\ ~ Locked(n)
            /\ s.id = plan[n] /\ t.id = a.teacher /\ Interchangeable(s, t, n)
            => TakenOn(s.id, Earlier(current)) <= TakenOn(t.id, Earlier(current))
=============================================================================
