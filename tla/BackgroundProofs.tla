--------------------------- MODULE BackgroundProofs ---------------------------
(***************************************************************************)
(* Theorems about BackgroundTaskManager, for any types of tasks, stacks    *)
(* and bounds.                                                             *)
(***************************************************************************)
EXTENDS BackgroundTaskManager, TLAPS

------------------------------------------------------------------------------
(* The inductive invariant, over a Map m, the tasks s, and the types R of   *)
(* which a task was made or disabled behind the back of another.            *)

(* What the Map holds is alive and was not stopped.                         *)
MapInv(m, s) ==
  \A y \in Types : m[y] # None =>
    /\ m[y] \in DOMAIN s /\ s[m[y]].type = y
    /\ s[m[y]].at \in {"running", "ending"} /\ ~s[m[y]].stopped

(* Only a task that is alive and registered can be stopped, and without a   *)
(* race one that is alive is being made, registered, or was stopped.        *)
TaskInv(m, s, R) ==
  \A i \in DOMAIN s :
    /\ s[i].at # "over" /\ s[i].type \notin R
         => s[i].stopped \/ s[i].at = "init" \/ m[s[i].type] = i
    /\ s[i].at \in {"init", "running"} => ~s[i].stopped

(* No type has two tasks that are alive, without a race.                    *)
OneLive(s, R) ==
  \A i, j \in DOMAIN s :
    s[i].at # "over" /\ s[j].at # "over" /\ s[i].type = s[j].type /\ s[i].type \notin R
      => i = j

Known(m, s, R) ==
  /\ m \in [Types -> Nat] /\ s \in Seq(TaskStates)
  /\ MapInv(m, s) /\ TaskInv(m, s, R) /\ OneLive(s, R)

(* A sticky gather, or one that is to be sticky once it is registered.      *)
Sticks(t) ==
  /\ t.type = "bargeIn" /\ t.at # "over" /\ ~t.stopped
  /\ t.at = "init" => t.wants
  /\ t.at # "init" => t.sticky

(* Bot mode: a gather that was stopped will not start again, a sticky one   *)
(* is alive as long as it is wanted, and none is when bot mode is off.      *)
StoppedEnds(s) == \A i \in DOMAIN s : s[i].type = "bargeIn" /\ s[i].stopped => ~s[i].sticky
AllOff(s) ==
  \A i \in DOMAIN s : s[i].type = "bargeIn" /\ s[i].at # "over" => s[i].stopped
BotInv ==
  call = "up" /\ "bargeIn" \notin raced
    => /\ StoppedEnds(task)
       /\ wish = "sticky" => \E i \in DOMAIN task : Sticks(task[i])
       /\ wish = "off" => AllOff(task)

IInv == Known(tasks, task, raced) /\ BotInv

------------------------------------------------------------------------------
(* What the handlers do to the tasks.                                       *)

(* The type of the gather of bot mode is one of the types.                 *)
LEMMA TypesHave == "bargeIn" \in Types
  BY DEF Types

(* The sequence r is s with a new task that is to be registered.            *)
Adds(s, r, y, wants) ==
  LET n == Len(s) + 1
  IN  /\ DOMAIN r = DOMAIN s \cup {n} /\ n \notin DOMAIN s
      /\ \A i \in DOMAIN s : r[i] = s[i]
      /\ r[n].type = y /\ r[n].at = "init" /\ ~r[n].stopped /\ r[n].wants = wants

(* newTask() of a type without a task that is alive.                        *)
LEMMA AddedKnown ==
  ASSUME NEW m, NEW s, NEW R, Known(m, s, R),
         NEW y \in Types, NEW input \in {"speech", "digits"},
         NEW owner \in {"none", "enable", "restart"}, NEW wants \in BOOLEAN,
         m[y] = None,
         y \notin R => \A i \in DOMAIN s : s[i].at # "over" => s[i].type # y
  PROVE  /\ Known(m, NewTask(s, y, input, owner, wants), R)
         /\ Adds(s, NewTask(s, y, input, owner, wants), y, wants)
  <1> DEFINE n == Len(s) + 1
             e == [type |-> y, at |-> "init", sticky |-> FALSE, input |-> input,
                   listening |-> y = "bargeIn", stopped |-> FALSE,
                   owner |-> owner, wants |-> wants]
             new == Append(s, e)
  <1>1. e \in TaskStates
    BY DEF TaskStates
  <1>2. e.type = y /\ e.at = "init" /\ ~e.stopped /\ e.wants = wants
    OBVIOUS
  <1>3. NewTask(s, y, input, owner, wants) = new
    BY DEF NewTask
  <1> HIDE DEF e
  <1>4. s \in Seq(TaskStates)
    BY DEF Known
  <1>5. /\ new \in Seq(TaskStates)
        /\ DOMAIN new = DOMAIN s \cup {n} /\ n \notin DOMAIN s
        /\ \A i \in DOMAIN s : new[i] = s[i]
        /\ new[n] = e
    BY <1>1, <1>4
  <1> HIDE DEF new, n
  <1>6. MapInv(m, new)
    BY <1>5 DEF Known, MapInv
  <1>7. TaskInv(m, new, R)
    BY <1>2, <1>5 DEF Known, TaskInv
  <1>8. OneLive(new, R)
    BY <1>2, <1>5 DEF Known, OneLive
  <1> QED
    BY <1>2, <1>3, <1>5, <1>6, <1>7, <1>8 DEF Known, Adds, new, n

(* More races ask less of the tasks.                                       *)
LEMMA KnownUpTo ==
  ASSUME NEW m, NEW s, NEW R, NEW S, R \subseteq S, Known(m, s, R)
  PROVE  Known(m, s, S)
  <1>1. TaskInv(m, s, S)
    BY DEF Known, TaskInv
  <1>2. OneLive(s, S)
    BY DEF Known, OneLive
  <1> QED
    BY <1>1, <1>2 DEF Known

(* Changes that neither stop a task nor begin it, at most one resolves.     *)
LEMMA ChangedKnown ==
  ASSUME NEW m, NEW s, NEW R, Known(m, s, R), NEW f \in Seq(TaskStates), DOMAIN f = DOMAIN s,
         \A i \in DOMAIN s : /\ f[i].type = s[i].type /\ f[i].stopped = s[i].stopped
                             /\ \/ f[i].at = s[i].at
                                \/ s[i].at = "running" /\ f[i].at = "ending"
  PROVE  Known(m, f, R)
  <1>1. MapInv(m, f)
    BY DEF Known, MapInv
  <1>2. TaskInv(m, f, R)
    BY DEF Known, TaskInv
  <1>3. OneLive(f, R)
    BY DEF Known, OneLive
  <1> QED
    BY <1>1, <1>2, <1>3 DEF Known

(* stop() of one task changes neither its type nor whether it is over.     *)
LEMMA StoppedType ==
  ASSUME NEW t \in TaskStates
  PROVE  /\ Stopped(t) \in TaskStates /\ Stopped(t).type = t.type /\ Stopped(t).stopped
         /\ Stopped(t).sticky = t.sticky /\ Stopped(t).at # "running"
         /\ (Stopped(t).at = "over") <=> (t.at = "over")
         /\ (Stopped(t).at = "init") <=> (t.at = "init")
  <1>1. CASE t.at = "running"
    BY <1>1 DEF Stopped, TaskStates
  <1>2. CASE t.at # "running"
    BY <1>2 DEF Stopped, TaskStates
  <1> QED
    BY <1>1, <1>2

(* stop(): of these types, the tasks that are registered.                   *)
LEMMA StoppedTasksAre ==
  ASSUME Known(tasks, task, raced), NEW S \in SUBSET Types
  PROVE  /\ StoppedTasks(S) \in Seq(TaskStates) /\ DOMAIN StoppedTasks(S) = DOMAIN task
         /\ \A i \in DOMAIN task :
              IF task[i].type \in S /\ tasks[task[i].type] = i
              THEN StoppedTasks(S)[i] = Stopped(task[i])
              ELSE StoppedTasks(S)[i] = task[i]
  <1> DEFINE f == StoppedTasks(S)
  <1>0. task \in Seq(TaskStates) /\ \A i \in DOMAIN task : task[i] \in TaskStates
    BY DEF Known
  <1>1. ASSUME NEW i \in DOMAIN task
        PROVE  (\E y \in S : tasks[y] = i) <=> (task[i].type \in S /\ tasks[task[i].type] = i)
    <2>1. i # None
      BY <1>0 DEF None
    <2> QED
      BY <2>1 DEF Known, MapInv
  <1>2. DOMAIN f = DOMAIN task
    BY DEF StoppedTasks
  <1>3. \A i \in DOMAIN task :
          IF task[i].type \in S /\ tasks[task[i].type] = i
          THEN f[i] = Stopped(task[i]) ELSE f[i] = task[i]
    BY <1>1 DEF StoppedTasks
  <1>4. \A i \in DOMAIN task : f[i] \in TaskStates
    BY <1>0, <1>3, StoppedType
  <1>5. f \in Seq(TaskStates)
    <2>1. f = [i \in DOMAIN task |-> f[i]]
      BY DEF StoppedTasks
    <2> HIDE DEF f
    <2> QED
      BY <1>0, <1>4, <2>1
  <1> QED
    BY <1>2, <1>3, <1>5

(* The Map without these types.                                             *)
Without(S) == [y \in Types |-> IF y \in S THEN None ELSE tasks[y]]

(* Stopping all tasks of some types, and dropping them from the Map.       *)
LEMMA StoppedKnown ==
  ASSUME Known(tasks, task, raced), NEW S \in SUBSET Types
  PROVE  /\ Known(Without(S), StoppedTasks(S), raced)
         /\ \A i \in DOMAIN task :
              /\ task[i].type \in S \ raced /\ StoppedTasks(S)[i].at \notin {"init", "over"}
              => StoppedTasks(S)[i].stopped
  <1> DEFINE f == StoppedTasks(S)
             m == Without(S)
  <1>1. /\ f \in Seq(TaskStates) /\ DOMAIN f = DOMAIN task
        /\ \A i \in DOMAIN task :
             IF task[i].type \in S /\ tasks[task[i].type] = i
             THEN f[i] = Stopped(task[i]) ELSE f[i] = task[i]
    BY StoppedTasksAre
  <1>2. /\ m \in [Types -> Nat]
        /\ \A y \in Types : m[y] = IF y \in S THEN None ELSE tasks[y]
    BY DEF Without, None, Known
  <1>3. \A i \in DOMAIN task : task[i] \in TaskStates
    BY DEF Known
  <1> HIDE DEF f, m
  <1>4. \A i \in DOMAIN task :
          /\ f[i].type = task[i].type /\ (f[i].at = "over" <=> task[i].at = "over")
          /\ (f[i].at = "init" <=> task[i].at = "init")
          /\ task[i].stopped => f[i].stopped
          /\ f[i].at \in {"init", "running"} => /\ task[i].at = f[i].at
                                                /\ f[i].stopped = task[i].stopped
    <2> SUFFICES ASSUME NEW i \in DOMAIN task
                 PROVE  /\ f[i].type = task[i].type /\ (f[i].at = "over" <=> task[i].at = "over")
                        /\ (f[i].at = "init" <=> task[i].at = "init")
                        /\ task[i].stopped => f[i].stopped
                        /\ f[i].at \in {"init", "running"} => /\ task[i].at = f[i].at
                                                              /\ f[i].stopped = task[i].stopped
      OBVIOUS
    <2>1. CASE task[i].type \in S /\ tasks[task[i].type] = i
      <3>1. f[i] = Stopped(task[i])
        BY <1>1, <2>1
      <3>2. task[i].at # "init"
        <4>1. task[i].type \in Types /\ i # None
          BY <2>1 DEF Known, None
        <4> QED
          BY <2>1, <4>1 DEF Known, MapInv
      <3> QED
        BY <1>3, <3>1, <3>2, StoppedType
    <2>2. CASE ~(task[i].type \in S /\ tasks[task[i].type] = i)
      BY <1>1, <2>2
    <2> QED
      BY <2>1, <2>2
  <1>5. MapInv(m, f)
    BY <1>1, <1>2 DEF Known, MapInv
  <1>6. \A i \in DOMAIN task :
          task[i].type \in S \ raced /\ f[i].at \notin {"init", "over"} => f[i].stopped
    BY <1>1, <1>3, <1>4, StoppedType DEF Known, TaskInv
  <1>7. TaskInv(m, f, raced)
    <2> SUFFICES ASSUME NEW i \in DOMAIN f
                 PROVE  /\ f[i].at # "over" /\ f[i].type \notin raced
                             => f[i].stopped \/ f[i].at = "init" \/ m[f[i].type] = i
                        /\ f[i].at \in {"init", "running"} => ~f[i].stopped
      BY DEF TaskInv
    <2>0. task[i].type \in Types
      BY <1>1, <1>3 DEF TaskStates
    <2>1. f[i].at \in {"init", "running"} => ~f[i].stopped
      BY <1>1, <1>4 DEF Known, TaskInv
    <2>2. CASE task[i].type \in S
      BY <1>1, <1>4, <1>6, <2>1, <2>2
    <2>3. CASE task[i].type \notin S
      BY <1>1, <1>2, <2>0, <2>1, <2>3 DEF Known, TaskInv
    <2> QED
      BY <2>2, <2>3
  <1>8. OneLive(f, raced)
    <2> SUFFICES ASSUME NEW i \in DOMAIN f, NEW j \in DOMAIN f,
                        f[i].at # "over", f[j].at # "over", f[i].type = f[j].type,
                        f[i].type \notin raced
                 PROVE  i = j
      BY DEF OneLive
    <2>1. /\ task[i].at # "over" /\ task[j].at # "over" /\ task[i].type = task[j].type
          /\ task[i].type \notin raced
      <3>1. i \in DOMAIN task /\ j \in DOMAIN task
        BY <1>1
      <3>2. /\ f[i].type = task[i].type /\ (f[i].at = "over" <=> task[i].at = "over")
            /\ f[j].type = task[j].type /\ (f[j].at = "over" <=> task[j].at = "over")
        BY <1>4, <3>1
      <3> QED
        BY <3>2
    <2> QED
      BY <1>1, <2>1 DEF Known, OneLive
  <1> QED
    BY <1>1, <1>2, <1>5, <1>6, <1>7, <1>8 DEF Known, f, m

(* The gather i is no longer sticky.                                        *)
Unstuck(s, k) ==
  [i \in DOMAIN s |-> IF i = k THEN [s[i] EXCEPT !.sticky = FALSE] ELSE s[i]]

(* Which nothing but bot mode looks at.                                    *)
LEMMA UnstuckKnown ==
  ASSUME NEW m, NEW s, NEW R, Known(m, s, R), NEW k
  PROVE  /\ Known(m, Unstuck(s, k), R) /\ DOMAIN Unstuck(s, k) = DOMAIN s
         /\ \A i \in DOMAIN s :
              /\ Unstuck(s, k)[i].type = s[i].type /\ Unstuck(s, k)[i].at = s[i].at
              /\ Unstuck(s, k)[i].stopped = s[i].stopped
              /\ Unstuck(s, k)[i].sticky => s[i].sticky /\ i # k
  <1> DEFINE f == Unstuck(s, k)
  <1>1. s \in Seq(TaskStates) /\ \A i \in DOMAIN s : s[i] \in TaskStates
    BY DEF Known
  <1>2. /\ DOMAIN f = DOMAIN s /\ f = [i \in DOMAIN s |-> f[i]]
        /\ \A i \in DOMAIN s : f[i] = IF i = k THEN [s[i] EXCEPT !.sticky = FALSE] ELSE s[i]
    BY DEF Unstuck
  <1> HIDE DEF f
  <1>3. \A i \in DOMAIN s :
          /\ f[i] \in TaskStates /\ f[i].type = s[i].type /\ f[i].at = s[i].at
          /\ f[i].stopped = s[i].stopped /\ (f[i].sticky => s[i].sticky /\ i # k)
    <2> SUFFICES ASSUME NEW i \in DOMAIN s
                 PROVE  /\ f[i] \in TaskStates /\ f[i].type = s[i].type
                        /\ f[i].at = s[i].at /\ f[i].stopped = s[i].stopped
                        /\ (f[i].sticky => s[i].sticky /\ i # k)
      OBVIOUS
    <2>1. CASE i = k
      <3>1. s[i] \in TaskStates /\ f[i] = [s[i] EXCEPT !.sticky = FALSE]
        BY <1>1, <1>2, <2>1
      <3> QED
        BY <3>1 DEF TaskStates
    <2>2. CASE i # k
      BY <1>1, <1>2, <2>2
    <2> QED
      BY <2>1, <2>2
  <1>4. f \in Seq(TaskStates)
    BY <1>1, <1>2, <1>3
  <1>5. Known(m, f, R)
    BY <1>2, <1>3, <1>4, ChangedKnown
  <1> QED
    BY <1>2, <1>3, <1>5 DEF f

(* exec() of a task returned or failed; no other task of its type runs.     *)
LEMMA CompletedKnown ==
  ASSUME Known(tasks, task, raced), NEW i \in DOMAIN task, task[i].at # "over"
  PROVE  /\ Known([tasks EXCEPT ![task[i].type] = None], Completed(i), raced)
         /\ DOMAIN Completed(i) = DOMAIN task
         /\ Completed(i)[i].at = "over" /\ Completed(i)[i].type = task[i].type
         /\ Completed(i)[i].stopped = task[i].stopped
         /\ Completed(i)[i].sticky = task[i].sticky
         /\ \A j \in DOMAIN task \ {i} : Completed(i)[j] = task[j]
  <1> DEFINE f == Completed(i)
             m == [tasks EXCEPT ![task[i].type] = None]
  <1>1. /\ task \in Seq(TaskStates) /\ \A j \in DOMAIN task : task[j] \in TaskStates
        /\ tasks \in [Types -> Nat]
    BY DEF Known
  <1>2. task[i].type \in Types
    BY <1>1 DEF TaskStates
  <1>3. /\ m \in [Types -> Nat] /\ m[task[i].type] = None
        /\ \A y \in Types \ {task[i].type} : m[y] = tasks[y]
    BY <1>1, <1>2 DEF None
  <1>4. /\ f = [task EXCEPT ![i] = [task[i] EXCEPT !.at = "over", !.listening = FALSE]]
        /\ [task[i] EXCEPT !.at = "over", !.listening = FALSE] \in TaskStates
    BY <1>1 DEF Completed, TaskStates
  <1>5. /\ f \in Seq(TaskStates) /\ DOMAIN f = DOMAIN task
        /\ \A j \in DOMAIN task \ {i} : f[j] = task[j]
        /\ f[i] = [task[i] EXCEPT !.at = "over", !.listening = FALSE]
    BY <1>1, <1>4
  <1>6. /\ f[i].at = "over" /\ f[i].type = task[i].type
        /\ f[i].stopped = task[i].stopped /\ f[i].sticky = task[i].sticky
    BY <1>1, <1>5 DEF TaskStates
  <1> HIDE DEF f, m
  <1>7. MapInv(m, f)
    <2> SUFFICES ASSUME NEW y \in Types, m[y] # None
                 PROVE  /\ m[y] \in DOMAIN f /\ f[m[y]].type = y
                        /\ f[m[y]].at \in {"running", "ending"} /\ ~f[m[y]].stopped
      BY DEF MapInv
    <2>1. y # task[i].type /\ m[y] = tasks[y]
      BY <1>3
    <2>2. /\ tasks[y] \in DOMAIN task /\ task[tasks[y]].type = y
          /\ task[tasks[y]].at \in {"running", "ending"} /\ ~task[tasks[y]].stopped
      BY <2>1 DEF Known, MapInv
    <2>3. f[tasks[y]] = task[tasks[y]]
      BY <1>5, <2>1, <2>2
    <2> QED
      BY <1>5, <2>1, <2>2, <2>3
  <1>8. TaskInv(m, f, raced)
    <2> SUFFICES ASSUME NEW j \in DOMAIN f
                 PROVE  /\ f[j].at # "over" /\ f[j].type \notin raced
                             => f[j].stopped \/ f[j].at = "init" \/ m[f[j].type] = j
                        /\ f[j].at \in {"init", "running"} => ~f[j].stopped
      BY DEF TaskInv
    <2>1. CASE j = i
      BY <1>6, <2>1
    <2>2. CASE j # i
      <3>1. f[j] = task[j] /\ j \in DOMAIN task /\ task[j].type \in Types
        BY <1>1, <1>5, <2>2 DEF TaskStates
      <3>2. task[j].at # "over" /\ task[j].type \notin raced => task[j].type # task[i].type
        BY <2>2, <3>1 DEF Known, OneLive
      <3> QED
        BY <1>3, <3>1, <3>2 DEF Known, TaskInv
    <2> QED
      BY <2>1, <2>2
  <1>9. OneLive(f, raced)
    <2> SUFFICES ASSUME NEW j \in DOMAIN f, NEW k \in DOMAIN f,
                        f[j].at # "over", f[k].at # "over", f[j].type = f[k].type,
                        f[j].type \notin raced
                 PROVE  j = k
      BY DEF OneLive
    <2>1. j # i /\ k # i
      BY <1>6
    <2>2. f[j] = task[j] /\ f[k] = task[k] /\ j \in DOMAIN task /\ k \in DOMAIN task
      BY <1>5, <2>1
    <2> QED
      BY <2>2 DEF Known, OneLive
  <1> QED
    BY <1>3, <1>5, <1>6, <1>7, <1>8, <1>9 DEF Known, f, m

------------------------------------------------------------------------------
(* The steps.                                                               *)

(* A new task whose type does not race is the only one that is alive.      *)
LEMMA NoneAlive ==
  ASSUME NEW m, NEW s, Known(m, s, raced), NEW y, m[y] = None,
         y \notin Racing(m, s, y)
  PROVE  \A i \in DOMAIN s : s[i].at # "over" => s[i].type # y
  <1> SUFFICES ASSUME NEW i \in DOMAIN s, s[i].at # "over", s[i].type = y
               PROVE  FALSE
    OBVIOUS
  <1>1. i # None
    BY DEF Known, None
  <1>2. s[i].at \in {"init", "running", "ending"}
    <2>1. s[i] \in TaskStates
      BY DEF Known
    <2> QED
      BY <2>1 DEF TaskStates
  <1> QED
    BY <1>1, <1>2 DEF Racing, Unregistered

(* Races are not forgotten.                                                *)
LEMMA RacingGrows ==
  ASSUME NEW m, NEW s, NEW y
  PROVE  /\ raced \subseteq Racing(m, s, y)
         /\ \A z : z # y => (z \in Racing(m, s, y) <=> z \in raced)
  BY DEF Racing

(* newTask(), whichever tasks are alive.                                   *)
LEMMA MadeKnown ==
  ASSUME NEW m, NEW s, Known(m, s, raced), NEW y \in Types, m[y] = None,
         NEW input \in {"speech", "digits"},
         NEW owner \in {"none", "enable", "restart"}, NEW wants \in BOOLEAN
  PROVE  /\ Known(m, NewTask(s, y, input, owner, wants), Racing(m, s, y))
         /\ Adds(s, NewTask(s, y, input, owner, wants), y, wants)
  <1>1. Known(m, s, Racing(m, s, y))
    BY KnownUpTo, RacingGrows
  <1>2. y \notin Racing(m, s, y) => \A i \in DOMAIN s : s[i].at # "over" => s[i].type # y
    BY NoneAlive
  <1> QED
    BY <1>1, <1>2, AddedKnown

(* A task of a type other than bargeIn starts.                             *)
LEMMA StartKnown ==
  ASSUME IInv, NEW y \in Types, Start(y)
  PROVE  IInv'
  <1>1. /\ Known(tasks, task, raced) /\ BotInv /\ y # "bargeIn" /\ tasks[y] = None
        /\ task' = NewTask(task, y, "speech", "none", FALSE)
        /\ raced' = Racing(tasks, task, y)
        /\ tasks' = tasks /\ call' = call /\ wish' = wish
    BY DEF IInv, Start, MayStart, Has
  <1>2. Known(tasks, task', raced') /\ Adds(task, task', y, FALSE)
    BY <1>1, MadeKnown
  <1>3. "bargeIn" \in raced' <=> "bargeIn" \in raced
    BY <1>1, RacingGrows
  <1>4. BotInv'
    BY <1>1, <1>2, <1>3 DEF Adds, BotInv, StoppedEnds, AllOff, Sticks
  <1> QED
    BY <1>1, <1>2, <1>4 DEF IInv

(* tasks.delete(type)                                                      *)
LEMMA WithoutIs ==
  ASSUME Known(tasks, task, raced), NEW y \in Types
  PROVE  [tasks EXCEPT ![y] = None] = Without({y})
  BY DEF Known, Without

(* A task of such a type is stopped.                                       *)
LEMMA StopKnown ==
  ASSUME IInv, NEW y \in Types, Stop(y)
  PROVE  IInv'
  <1>1. /\ Known(tasks, task, raced) /\ BotInv
        /\ y # "bargeIn" /\ task' = StoppedTasks({y})
        /\ tasks' = Without({y}) /\ call' = call /\ wish' = wish /\ raced' = raced
    BY WithoutIs DEF IInv, Stop
  <1>2. /\ Known(tasks', task', raced') /\ DOMAIN task' = DOMAIN task
        /\ \A i \in DOMAIN task : IF task[i].type = y /\ tasks[y] = i
                                  THEN task'[i] = Stopped(task[i]) ELSE task'[i] = task[i]
    BY <1>1, StoppedKnown, StoppedTasksAre
  <1>3. \A i \in DOMAIN task : task[i].type = "bargeIn" \/ task'[i].type = "bargeIn"
                                => task'[i] = task[i]
    <2> SUFFICES ASSUME NEW i \in DOMAIN task
                 PROVE  /\ task'[i].type = task[i].type
                        /\ task[i].type = "bargeIn" => task'[i] = task[i]
      OBVIOUS
    <2>1. task[i] \in TaskStates
      BY <1>1 DEF Known
    <2> QED
      BY <1>1, <1>2, <2>1, StoppedType
  <1>4. BotInv'
    BY <1>1, <1>2, <1>3 DEF BotInv, StoppedEnds, AllOff, Sticks
  <1> QED
    BY <1>2, <1>4 DEF IInv

(* The task that is registered is the only one of its type that is alive.  *)
LEMMA RegisteredKnown ==
  ASSUME IInv, NEW i \in Ids, Registered(i)
  PROVE  IInv'
  <1> DEFINE y == task[i].type
             t == [task[i] EXCEPT !.at = "running", !.sticky = task[i].wants]
  <1>1. /\ Known(tasks, task, raced) /\ BotInv /\ i \in DOMAIN task /\ task[i].at = "init"
        /\ tasks' = [tasks EXCEPT ![y] = i]
        /\ task' = [task EXCEPT ![i].at = "running", ![i].sticky = task[i].wants]
        /\ call' = call /\ wish' = wish /\ raced' = raced
    BY DEF IInv, Registered
  <1>2. /\ task \in Seq(TaskStates) /\ \A j \in DOMAIN task : task[j] \in TaskStates
        /\ tasks \in [Types -> Nat] /\ DOMAIN task \subseteq Nat
    BY <1>1 DEF Known
  <1>3. y \in Types /\ ~task[i].stopped
    BY <1>1, <1>2 DEF TaskStates, Known, TaskInv
  <1>4. /\ t \in TaskStates /\ t.type = y /\ t.at = "running" /\ ~t.stopped
        /\ t.sticky = task[i].wants
    <2>1. task[i] \in TaskStates
      BY <1>1, <1>2
    <2> QED
      BY <1>3, <2>1 DEF TaskStates
  <1>5. /\ task' \in Seq(TaskStates) /\ DOMAIN task' = DOMAIN task /\ task'[i] = t
        /\ \A j \in DOMAIN task \ {i} : task'[j] = task[j]
    <2>1. task' = [task EXCEPT ![i] = t]
      BY <1>1, <1>2
    <2>2. i \in DOMAIN task /\ task \in Seq(TaskStates) /\ t \in TaskStates
      BY <1>1, <1>2, <1>4
    <2> HIDE DEF t
    <2> QED
      BY <2>1, <2>2
  <1>6. /\ tasks' \in [Types -> Nat] /\ tasks'[y] = i
        /\ \A z \in Types \ {y} : tasks'[z] = tasks[z]
    BY <1>1, <1>2, <1>3
  <1> HIDE DEF t, y
  <1>7. MapInv(tasks', task')
    <2> SUFFICES ASSUME NEW z \in Types, tasks'[z] # None
                 PROVE  /\ tasks'[z] \in DOMAIN task' /\ task'[tasks'[z]].type = z
                        /\ task'[tasks'[z]].at \in {"running", "ending"}
                        /\ ~task'[tasks'[z]].stopped
      BY DEF MapInv
    <2>1. CASE z = y
      BY <1>1, <1>4, <1>5, <1>6, <2>1
    <2>2. CASE z # y
      <3>1. /\ tasks'[z] = tasks[z] /\ tasks[z] \in DOMAIN task /\ task[tasks[z]].type = z
            /\ task[tasks[z]].at \in {"running", "ending"} /\ ~task[tasks[z]].stopped
        BY <1>1, <1>6, <2>2 DEF Known, MapInv
      <3>2. tasks[z] # i
        BY <2>2, <3>1 DEF y
      <3> QED
        BY <1>5, <3>1, <3>2
    <2> QED
      BY <2>1, <2>2
  <1>8. \A j \in DOMAIN task : task'[j].type = task[j].type /\ task'[j].stopped = task[j].stopped
                               /\ (task'[j].at = "over" <=> task[j].at = "over")
    BY <1>1, <1>3, <1>4, <1>5 DEF y
  <1>9. TaskInv(tasks', task', raced')
    <2> SUFFICES ASSUME NEW j \in DOMAIN task'
                 PROVE  /\ task'[j].at # "over" /\ task'[j].type \notin raced
                             => \/ task'[j].stopped \/ task'[j].at = "init"
                                \/ tasks'[task'[j].type] = j
                        /\ task'[j].at \in {"init", "running"} => ~task'[j].stopped
      BY <1>1 DEF TaskInv
    <2>1. CASE j = i
      BY <1>4, <1>5, <1>6, <2>1
    <2>2. CASE j # i
      <3>1. task'[j] = task[j] /\ j \in DOMAIN task /\ task[j].type \in Types
        BY <1>2, <1>5, <2>2 DEF TaskStates
      <3>2. task[j].at # "over" /\ task[j].type \notin raced => task[j].type # y
        BY <1>1, <2>2, <3>1 DEF Known, OneLive, y
      <3> QED
        BY <1>1, <1>6, <3>1, <3>2 DEF Known, TaskInv
    <2> QED
      BY <2>1, <2>2
  <1>10. OneLive(task', raced')
    <2> SUFFICES ASSUME NEW j \in DOMAIN task', NEW k \in DOMAIN task',
                        task'[j].at # "over", task'[k].at # "over",
                        task'[j].type = task'[k].type, task'[j].type \notin raced
                 PROVE  j = k
      BY <1>1 DEF OneLive
    <2>1. j \in DOMAIN task /\ k \in DOMAIN task
      BY <1>5
    <2>2. /\ task[j].at # "over" /\ task[k].at # "over" /\ task[j].type = task[k].type
          /\ task[j].type \notin raced
      BY <1>8, <2>1
    <2> QED
      BY <1>1, <2>1, <2>2 DEF Known, OneLive
  <1>11. \A j \in DOMAIN task : Sticks(task[j]) => Sticks(task'[j])
    <2> SUFFICES ASSUME NEW j \in DOMAIN task, Sticks(task[j])
                 PROVE  Sticks(task'[j])
      OBVIOUS
    <2>1. CASE j = i
      BY <1>1, <1>4, <1>5, <1>8, <2>1 DEF Sticks, y
    <2>2. CASE j # i
      BY <1>5, <2>2
    <2> QED
      BY <2>1, <2>2
  <1>12. BotInv'
    <2> SUFFICES ASSUME call = "up", "bargeIn" \notin raced
                 PROVE  /\ StoppedEnds(task')
                        /\ wish = "sticky" => \E j \in DOMAIN task' : Sticks(task'[j])
                        /\ wish = "off" => AllOff(task')
      BY <1>1 DEF BotInv
    <2>1. StoppedEnds(task')
      BY <1>1, <1>3, <1>5, <1>8 DEF BotInv, StoppedEnds
    <2>2. wish = "sticky" => \E j \in DOMAIN task' : Sticks(task'[j])
      BY <1>1, <1>5, <1>11 DEF BotInv
    <2>3. wish = "off" => AllOff(task')
      BY <1>1, <1>5, <1>8 DEF BotInv, AllOff
    <2> QED
      BY <2>1, <2>2, <2>3
  <1> QED
    BY <1>5, <1>6, <1>7, <1>9, <1>10, <1>12 DEF IInv, Known

(* What is asked of bot mode when its gather does not race.                *)
LEMMA BotKeeps ==
  ASSUME BotInv, raced \subseteq raced', call' = call, wish' = wish,
         call = "up" /\ "bargeIn" \notin raced' =>
           /\ StoppedEnds(task) => StoppedEnds(task')
           /\ \A j \in DOMAIN task : Sticks(task[j]) => \E k \in DOMAIN task' : Sticks(task'[k])
           /\ wish = "off" /\ AllOff(task) /\ StoppedEnds(task) => AllOff(task')
  PROVE  BotInv'
  <1> SUFFICES ASSUME call = "up", "bargeIn" \notin raced'
               PROVE  /\ StoppedEnds(task')
                      /\ wish = "sticky" => \E i \in DOMAIN task' : Sticks(task'[i])
                      /\ wish = "off" => AllOff(task')
    BY DEF BotInv
  <1>1. /\ StoppedEnds(task)
        /\ wish = "sticky" => \E i \in DOMAIN task : Sticks(task[i])
        /\ wish = "off" => AllOff(task)
    BY DEF BotInv
  <1> QED
    BY <1>1

(* A gather is made when bot mode is enabled, unless it is on with the same *)
(* input.                                                                  *)
LEMMA EnableKnown ==
  ASSUME IInv, NEW input \in {"speech", "digits"}, NEW sticky \in BOOLEAN,
         EnableBotMode(input, sticky)
  PROVE  IInv'
  <1> DEFINE old == StoppedTasks({"bargeIn"})
             k == tasks["bargeIn"]
  <1>1. Known(tasks, task, raced) /\ BotInv /\ call' = call
    BY DEF IInv, EnableBotMode
  <1>2. CASE tasks' = tasks /\ task' = task /\ wish' = wish /\ raced' = raced
    BY <1>1, <1>2 DEF IInv, BotInv, StoppedEnds, AllOff
  <1>3. CASE /\ tasks' = [tasks EXCEPT !["bargeIn"] = None]
             /\ task' = NewTask(Unstuck(old, k), "bargeIn", input, "enable", sticky)
             /\ wish' = IF sticky THEN "sticky" ELSE "plain"
             /\ raced' = Racing(tasks', old, "bargeIn")
    <2>1. tasks' = Without({"bargeIn"}) /\ tasks'["bargeIn"] = None
      BY <1>1, <1>3, WithoutIs, TypesHave DEF Without
    <2>2. /\ Known(tasks', old, raced) /\ DOMAIN old = DOMAIN task
          /\ \A i \in DOMAIN task : IF task[i].type = "bargeIn" /\ tasks[task[i].type] = i
                                    THEN old[i] = Stopped(task[i]) ELSE old[i] = task[i]
      <3>1. {"bargeIn"} \in SUBSET Types
        BY TypesHave
      <3> QED
        BY <1>1, <2>1, <3>1, StoppedKnown, StoppedTasksAre
    <2> HIDE DEF old
    <2>3. /\ Known(tasks', Unstuck(old, k), raced) /\ DOMAIN Unstuck(old, k) = DOMAIN old
          /\ \A i \in DOMAIN old :
               /\ Unstuck(old, k)[i].type = old[i].type /\ Unstuck(old, k)[i].at = old[i].at
               /\ Unstuck(old, k)[i].stopped = old[i].stopped
               /\ Unstuck(old, k)[i].sticky => old[i].sticky /\ i # k
      BY <2>2, UnstuckKnown
    <2>4. Racing(tasks', Unstuck(old, k), "bargeIn") = raced'
      BY <1>3, <2>3 DEF Racing, Unregistered
    <2>5. /\ Known(tasks', task', raced')
          /\ Adds(Unstuck(old, k), task', "bargeIn", sticky)
      <3>1. \A made : made = NewTask(Unstuck(old, k), "bargeIn", input, "enable", sticky)
              => /\ Known(tasks', made, Racing(tasks', Unstuck(old, k), "bargeIn"))
                 /\ Adds(Unstuck(old, k), made, "bargeIn", sticky)
        BY <2>1, <2>3, MadeKnown, TypesHave
      <3> QED
        BY <1>3, <2>4, <3>1
    <2>6. raced \subseteq raced'
      BY <1>3, RacingGrows
    <2>7. StoppedEnds(task) => StoppedEnds(task')
      <3>1. ASSUME StoppedEnds(task), NEW i \in DOMAIN old, Unstuck(old, k)[i].type = "bargeIn",
                   Unstuck(old, k)[i].stopped
            PROVE  ~Unstuck(old, k)[i].sticky
        <4>1. CASE i = k
          BY <2>3, <4>1
        <4>2. CASE i # k
          <5>1. old[i].type = "bargeIn" /\ old[i].stopped /\ i \in DOMAIN task
            BY <2>2, <2>3, <3>1
          <5>2. task[i] \in TaskStates
            BY <1>1, <5>1 DEF Known
          <5>3. old[i] = task[i]
            BY <2>2, <4>2, <5>1, <5>2, StoppedType
          <5> QED
            BY <2>3, <3>1, <5>1, <5>3 DEF StoppedEnds
        <4> QED
          BY <4>1, <4>2
      <3> QED
        BY <2>3, <2>5, <3>1 DEF Adds, StoppedEnds
    <2>8. sticky => \E i \in DOMAIN task' : Sticks(task'[i])
      BY <2>5 DEF Adds, Sticks
    <2> QED
      BY <1>1, <1>3, <2>5, <2>6, <2>7, <2>8 DEF IInv, BotInv
  <1> QED
    BY <1>2, <1>3 DEF EnableBotMode, Unstuck

(* A gather that is stopped by disableBotMode() is not started again.      *)
LEMMA DisableKnown ==
  ASSUME IInv, DisableBotMode
  PROVE  IInv'
  <1> DEFINE f == StoppedTasks({"bargeIn"})
             k == tasks["bargeIn"]
  <1>1. /\ Known(tasks, task, raced) /\ BotInv /\ call = "up" /\ wish' = "off"
        /\ tasks' = Without({"bargeIn"}) /\ task' = Unstuck(f, k) /\ raced' = Missed
    BY WithoutIs, TypesHave DEF IInv, DisableBotMode, Unstuck
  <1>2. /\ Known(tasks', f, raced) /\ DOMAIN f = DOMAIN task
        /\ \A i \in DOMAIN task :
             /\ task[i].type \in {"bargeIn"} \ raced /\ f[i].at \notin {"init", "over"}
             => f[i].stopped
        /\ \A i \in DOMAIN task : IF task[i].type = "bargeIn" /\ tasks[task[i].type] = i
                                  THEN f[i] = Stopped(task[i]) ELSE f[i] = task[i]
    <2>1. {"bargeIn"} \in SUBSET Types
      BY TypesHave
    <2> QED
      BY <1>1, <2>1, StoppedKnown, StoppedTasksAre
  <1> HIDE DEF f
  <1>3. /\ Known(tasks', task', raced) /\ DOMAIN task' = DOMAIN task
        /\ \A i \in DOMAIN task : /\ task'[i].type = f[i].type /\ task'[i].at = f[i].at
                                  /\ task'[i].stopped = f[i].stopped
                                  /\ task'[i].sticky => f[i].sticky /\ i # k
    BY <1>1, <1>2, UnstuckKnown
  <1>4. \A i \in DOMAIN task : f[i].type = task[i].type /\ (f[i].at = "init" => task[i].at = "init")
    BY <1>1, <1>2, StoppedType DEF Known
  <1>5. Known(tasks', task', raced') /\ raced \subseteq raced'
    <2>1. raced \subseteq raced'
      BY <1>1 DEF Missed
    <2> QED
      BY <1>3, <2>1, KnownUpTo
  <1>6. ASSUME "bargeIn" \notin raced', NEW i \in DOMAIN task,
               task[i].type = "bargeIn", task[i].at = "init"
        PROVE  FALSE
    <2>1. tasks["bargeIn"] # i
      <3>1. i # None
        BY <1>1 DEF Known, None
      <3> QED
        BY <1>1, <1>6, <3>1, TypesHave DEF Known, MapInv
    <2> QED
      BY <1>1, <1>6, <2>1 DEF Missed, Unregistered
  <1>7. "bargeIn" \notin raced' => AllOff(task')
    BY <1>2, <1>3, <1>4, <1>5, <1>6 DEF AllOff
  <1>8. StoppedEnds(task) => StoppedEnds(task')
    BY <1>2, <1>3, <1>4 DEF StoppedEnds
  <1> QED
    BY <1>1, <1>5, <1>7, <1>8 DEF IInv, BotInv

(* A gather that heard the caller may resolve, and stays registered.       *)
LEMMA BargeInKnown ==
  ASSUME IInv, NEW i \in Ids, NEW resolves \in BOOLEAN, BargeIn(i, resolves)
  PROVE  IInv'
  <1>1. /\ Known(tasks, task, raced) /\ BotInv /\ i \in DOMAIN task /\ task[i].at = "running"
        /\ tasks' = tasks /\ wish' = wish /\ call' = call /\ raced' = raced
    BY DEF IInv, BargeIn, Running
  <1>2. CASE task' = task
    BY <1>1, <1>2 DEF BotInv, IInv, StoppedEnds, AllOff
  <1>3. CASE task' = [task EXCEPT ![i].at = "ending"]
    <2> DEFINE t == [task[i] EXCEPT !.at = "ending"]
    <2>1. task \in Seq(TaskStates) /\ task[i] \in TaskStates
      BY <1>1 DEF Known
    <2>2. /\ t \in TaskStates /\ t.at = "ending" /\ t.type = task[i].type
          /\ t.stopped = task[i].stopped /\ t.sticky = task[i].sticky
          /\ t.wants = task[i].wants
      BY <2>1 DEF TaskStates
    <2>3. task' = [task EXCEPT ![i] = t]
      BY <1>3
    <2> HIDE DEF t
    <2>4. /\ task' \in Seq(TaskStates) /\ DOMAIN task' = DOMAIN task /\ task'[i] = t
          /\ \A j \in DOMAIN task \ {i} : task'[j] = task[j]
      BY <1>1, <2>1, <2>2, <2>3
    <2>5. \A j \in DOMAIN task :
            /\ task'[j].type = task[j].type /\ task'[j].stopped = task[j].stopped
            /\ task'[j].sticky = task[j].sticky /\ task'[j].wants = task[j].wants
            /\ \/ task'[j].at = task[j].at
               \/ task[j].at = "running" /\ task'[j].at = "ending"
      BY <1>1, <2>2, <2>4
    <2>6. Known(tasks, task', raced')
      BY <1>1, <2>4, <2>5, ChangedKnown
    <2>7. BotInv'
      <3>1. \A j \in DOMAIN task : Sticks(task[j]) => Sticks(task'[j])
        BY <2>5 DEF Sticks
      <3>2. StoppedEnds(task) => StoppedEnds(task')
        BY <2>4, <2>5 DEF StoppedEnds
      <3>3. AllOff(task) => AllOff(task')
        BY <2>4, <2>5 DEF AllOff
      <3> QED
        BY <1>1, <2>4, <3>1, <3>2, <3>3 DEF BotInv
    <2> QED
      BY <1>1, <2>6, <2>7 DEF IInv
  <1> QED
    BY <1>2, <1>3 DEF BargeIn

(* The sticky gather that ended is replaced in the same step.              *)
LEMMA ReturnsKnown ==
  ASSUME IInv, NEW i \in Ids, ExecReturns(i)
  PROVE  IInv'
  <1> DEFINE y == task[i].type
             f == Completed(i)
             m == [tasks EXCEPT ![y] = None]
  <1>1. /\ Known(tasks, task, raced) /\ BotInv /\ i \in DOMAIN task /\ task[i].at = "ending"
        /\ tasks' = m /\ wish' = wish /\ call' = call
        /\ IF Restarts(i) THEN /\ task' = NewTask(f, y, task[i].input, "restart", TRUE)
                               /\ raced' = Racing(m, f, y)
                          ELSE task' = f /\ raced' = raced
    BY DEF IInv, ExecReturns
  <1>2. /\ y \in Types /\ task[i].input \in {"speech", "digits"} /\ tasks \in [Types -> Nat]
    <2>1. tasks \in [Types -> Nat] /\ task[i] \in TaskStates
      BY <1>1 DEF Known
    <2> QED
      BY <2>1 DEF TaskStates
  <1>3. /\ Known(m, f, raced) /\ DOMAIN f = DOMAIN task
        /\ f[i].at = "over" /\ f[i].type = y /\ f[i].stopped = task[i].stopped
        /\ f[i].sticky = task[i].sticky
        /\ \A j \in DOMAIN task \ {i} : f[j] = task[j]
    BY <1>1, CompletedKnown
  <1>4. m[y] = None
    BY <1>2
  <1> HIDE DEF f, m
  <1>5. StoppedEnds(task) => StoppedEnds(f)
    BY <1>3 DEF StoppedEnds
  <1>6. AllOff(task) => AllOff(f)
    BY <1>3 DEF AllOff
  <1>7. CASE Restarts(i)
    <2>1. /\ Known(tasks', task', raced') /\ Adds(f, task', y, TRUE) /\ y = "bargeIn"
          /\ raced \subseteq raced' /\ task[i].sticky /\ call = "up"
      <3>1. \A made : made = NewTask(f, y, task[i].input, "restart", TRUE)
              => Known(m, made, Racing(m, f, y)) /\ Adds(f, made, y, TRUE)
        BY <1>2, <1>3, <1>4, MadeKnown
      <3>2. y = "bargeIn" /\ task[i].sticky /\ call = "up"
        BY <1>7 DEF Restarts
      <3>3. task' = NewTask(f, y, task[i].input, "restart", TRUE) /\ raced' = Racing(m, f, y)
        BY <1>1, <1>7
      <3>4. Known(tasks', task', raced') /\ Adds(f, task', y, TRUE)
        BY <1>1, <3>1, <3>3
      <3>5. raced \subseteq raced'
        BY <3>3, RacingGrows
      <3> QED
        BY <3>2, <3>4, <3>5
    <2>2. StoppedEnds(task) => StoppedEnds(task')
      BY <1>5, <2>1 DEF Adds, StoppedEnds
    <2>3. \E j \in DOMAIN task' : Sticks(task'[j])
      BY <2>1 DEF Adds, Sticks
    <2>4. ~(AllOff(task) /\ StoppedEnds(task))
      BY <1>1, <2>1 DEF AllOff, StoppedEnds
    <2>5. BotInv'
      BY <1>1, <2>1, <2>2, <2>3, <2>4, BotKeeps
    <2> QED
      BY <2>1, <2>5 DEF IInv
  <1>8. CASE ~Restarts(i)
    <2>1. task' = f /\ raced' = raced
      BY <1>1, <1>8
    <2>2. ASSUME call = "up", NEW j \in DOMAIN task, Sticks(task[j])
          PROVE  Sticks(f[j])
      <3>1. j # i
        BY <1>1, <1>8, <2>2 DEF Restarts, Sticks
      <3> QED
        BY <1>3, <2>2, <3>1
    <2>3. BotInv'
      BY <1>1, <1>3, <1>5, <1>6, <2>1, <2>2, BotKeeps
    <2> QED
      BY <1>1, <1>3, <2>1, <2>3 DEF IInv
  <1> QED
    BY <1>7, <1>8

(* A gather that failed ends bot mode.                                     *)
LEMMA FailsKnown ==
  ASSUME IInv, NEW i \in Ids, ExecFails(i)
  PROVE  IInv'
  <1> DEFINE f == Completed(i)
             m == [tasks EXCEPT ![task[i].type] = None]
  <1>1. /\ Known(tasks, task, raced) /\ BotInv /\ i \in DOMAIN task /\ task[i].at = "running"
        /\ tasks' = m /\ task' = f /\ call' = call /\ raced' = raced
        /\ wish' = IF task[i].type = "bargeIn" THEN "off" ELSE wish
    BY DEF IInv, ExecFails, Running
  <1>2. /\ Known(m, f, raced) /\ DOMAIN f = DOMAIN task
        /\ f[i].at = "over" /\ f[i].type = task[i].type /\ f[i].stopped = task[i].stopped
        /\ f[i].sticky = task[i].sticky
        /\ \A j \in DOMAIN task \ {i} : f[j] = task[j]
    BY <1>1, CompletedKnown
  <1> HIDE DEF f, m
  <1>3. StoppedEnds(task) => StoppedEnds(f)
    BY <1>2 DEF StoppedEnds
  <1>4. CASE task[i].type = "bargeIn"
    <2>1. "bargeIn" \notin raced => AllOff(f)
      BY <1>1, <1>2, <1>4 DEF AllOff, Known, OneLive
    <2> QED
      BY <1>1, <1>2, <1>3, <1>4, <2>1 DEF IInv, BotInv
  <1>5. CASE task[i].type # "bargeIn"
    <2>1. \A j \in DOMAIN task : Sticks(task[j]) => Sticks(f[j])
      BY <1>2, <1>5 DEF Sticks
    <2>2. AllOff(task) => AllOff(f)
      BY <1>2 DEF AllOff
    <2> QED
      BY <1>1, <1>2, <1>3, <1>5, <2>1, <2>2 DEF IInv, BotInv
  <1> QED
    BY <1>4, <1>5

(* stopAll() leaves nothing registered.                                    *)
LEMMA StopAllKnown ==
  ASSUME IInv, StopAll
  PROVE  IInv'
  <1>1. /\ Known(tasks, task, raced) /\ raced' = raced
        /\ tasks' = Without(Types) /\ task' = StoppedTasks(Types) /\ call' = "cleared"
    BY DEF IInv, StopAll, Without
  <1>2. Known(tasks', task', raced')
    BY <1>1, StoppedKnown
  <1> QED
    BY <1>1, <1>2 DEF IInv, BotInv

(***************************************************************************)
(* The inductive invariant holds in every reachable state of a manager,    *)
(* with the conjuncts about a type as long as none of its tasks raced.     *)
(***************************************************************************)
THEOREM Invariance ==
  Spec => []IInv
  <1>1. Init => IInv
    <2> SUFFICES ASSUME Init PROVE IInv
      OBVIOUS
    <2>1. Known(tasks, task, raced)
      BY DEF Init, Known, MapInv, TaskInv, OneLive, None
    <2>2. BotInv
      BY DEF Init, BotInv, StoppedEnds, AllOff
    <2> QED
      BY <2>1, <2>2 DEF IInv
  <1>2. IInv /\ [Next]_vars => IInv'
    <2> SUFFICES ASSUME IInv, [Next]_vars PROVE IInv'
      OBVIOUS
    <2>1. ASSUME NEW y \in Types, Start(y) PROVE IInv'
      BY <2>1, StartKnown
    <2>2. ASSUME NEW y \in Types, Stop(y) PROVE IInv'
      BY <2>2, StopKnown
    <2>3. ASSUME NEW input \in {"speech", "digits"}, NEW sticky \in BOOLEAN,
                 EnableBotMode(input, sticky)
          PROVE  IInv'
      BY <2>3, EnableKnown
    <2>4. CASE DisableBotMode
      BY <2>4, DisableKnown
    <2>5. CASE CallGone
      BY <2>5 DEF CallGone, IInv, BotInv
    <2>6. CASE StopAll
      BY <2>6, StopAllKnown
    <2>7. ASSUME NEW i \in Ids, Registered(i) PROVE IInv'
      BY <2>7, RegisteredKnown
    <2>8. ASSUME NEW i \in Ids, ExecReturns(i) PROVE IInv'
      BY <2>8, ReturnsKnown
    <2>9. ASSUME NEW i \in Ids, ExecFails(i) PROVE IInv'
      BY <2>9, FailsKnown
    <2>10. ASSUME NEW i \in Ids, NEW resolves \in BOOLEAN, BargeIn(i, resolves) PROVE IInv'
      BY <2>10, BargeInKnown
    <2>11. CASE UNCHANGED vars
      BY <2>11 DEF vars, IInv, BotInv, StoppedEnds, AllOff
    <2> QED
      BY <2>1, <2>2, <2>3, <2>4, <2>5, <2>6, <2>7, <2>8, <2>9, <2>10, <2>11 DEF Next
  <1> QED
    BY <1>1, <1>2, PTL DEF Spec

(***************************************************************************)
(* A background task that runs is the one that is registered for its type, *)
(* whatever is started, stopped, heard or replaced in between, so that the *)
(* manager can stop it: only newTask() for a type of which another task is *)
(* alive that is not registered can break this, for that type.             *)
(***************************************************************************)
THEOREM RunningIsKnownCorrect ==
  Spec => []RunningIsKnown
  <1>1. IInv => RunningIsKnown
    BY DEF IInv, Known, TaskInv, RunningIsKnown, Running
  <1> QED
    BY <1>1, Invariance, PTL

(***************************************************************************)
(* A sticky gather is alive, or is being made, as long as bot mode is on   *)
(* and its gathers did not race.                                           *)
(***************************************************************************)
THEOREM StickyStaysCorrect ==
  Spec => []StickyStays
  <1>1. IInv => StickyStays
    BY DEF IInv, BotInv, Sticks, StickyStays
  <1> QED
    BY <1>1, Invariance, PTL

(***************************************************************************)
(* No step drops verbs of the session once bot mode is off: a gather that  *)
(* still ends is not heard any more.  Only a gather that was being made    *)
(* when bot mode was disabled, or made while another was alive, may be.    *)
(***************************************************************************)
THEOREM OffIsOffCorrect ==
  Spec => OffIsOff
  <1>1. IInv /\ [Next]_vars => [wish = "off" /\ "bargeIn" \notin raced => stack' = stack]_vars
    <2> SUFFICES ASSUME IInv, Next, wish = "off", "bargeIn" \notin raced PROVE stack' = stack
      OBVIOUS
    <2>1. ASSUME NEW i \in Ids, NEW resolves \in BOOLEAN, BargeIn(i, resolves)
          PROVE  FALSE
      BY <2>1 DEF BargeIn, Running, IInv, BotInv, AllOff, Known, TaskInv
    <2> QED
      BY <2>1 DEF Next, Start, Stop, EnableBotMode, DisableBotMode, CallGone, StopAll,
                  Registered, ExecReturns, ExecFails
  <1> QED
    BY <1>1, Invariance, PTL DEF Spec, OffIsOff
=============================================================================
