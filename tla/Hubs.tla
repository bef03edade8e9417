---------------------------------- MODULE Hubs ----------------------------------
(***************************************************************************)
(* How the demo programs find what to run: cmdhub (demo/cmdhub/cmdhub.h,   *)
(* which demo/jobhub has a copy of), JobHub (demo/jobhub/jobhub.h) and     *)
(* CCmdProg (demo/cmdprog/cmdprog.h).  Paths and arguments are sequences   *)
(* of words and separators, the names of jobs numbers, for their order.  A *)
(* file registers its command in a function that runs before main, in an   *)
(* order nobody determines.                                                *)
(***************************************************************************)
EXTENDS Integers, FiniteSets, SequencesExt

NULL == {}
NoName == ""
NoExec == ""
Help == <<"--help">>
Finally == 0     \* _job4Stop among the jobs

Put(f, key, value) ==    \* map[key] = value
  [k \in DOMAIN f \union {key} |-> IF k = key THEN value ELSE f[k]]
Insert(f, key, value) == IF key \in DOMAIN f THEN f ELSE Put(f, key, value)   \* map.insert

-----------------------------------------------------------------------------
(***************************************************************************)
(* cmdhub.  ran is what was called, "ready" or an exec; said what printed. *)
(***************************************************************************)
NewHub ==
  [good |-> TRUE, exec |-> <<>>, opts |-> <<>>, vals |-> <<>>, last |-> <<>>,
   ready |-> NULL, ran |-> <<>>, said |-> "", ret |-> 0]

printPanic(h) == [h EXCEPT !.good = FALSE, !.said = "panic"]
OptsOf(h, name) == IF name \in DOMAIN h.opts THEN h.opts[name] ELSE <<>>

\* getFileName: the name of a command is that of its file, without the
\* directories and what is behind the last dot.
getFileName(path) ==
  LET last(s, c) == Max({0} \union {i \in DOMAIN s : s[i] = c})
      name == SubSeq(path, last(path, "/") + 1, Len(path))
  IN IF last(name, ".") = 0 THEN name ELSE SubSeq(name, 1, last(name, ".") - 1)

\* ready: ret is what the callback will answer
doReady(h, ret) == [h EXCEPT !.ready = {ret}]

doAddCmd(h, file, exec) ==
  LET name == getFileName(file)
  IN IF exec = NoExec \/ name \in DOMAIN h.exec THEN printPanic(h)
     ELSE [h EXCEPT !.last = name, !.exec = Insert(@, name, exec)]

addOpt(h, opt) ==
  IF opt.name = NoName THEN printPanic(h)
  ELSE [h EXCEPT !.opts = Put(@, h.last, Append(OptsOf(h, h.last), [opt EXCEPT !.good = FALSE]))]

\* One file's constructor: its command and its options
Register(h, reg) == FoldLeft(addOpt, doAddCmd(h, reg.file, reg.exec), reg.opts)

\* printHelp gives each command an entry of options, empty where it had none.
printHelp(h) ==
  [h EXCEPT !.said = "help",
            !.opts = [n \in DOMAIN @ \union DOMAIN h.exec |-> OptsOf(h, n)]]
printHelp4Cmd(h, name) == [h EXCEPT !.said = "help of", !.opts = Put(@, name, OptsOf(h, name))]
printError(h) == [h EXCEPT !.said = "error"]

\* The arguments behind the command go to its options, in order.
Filled(h, name, args) ==
  LET n == Min({Len(args), Len(OptsOf(h, name))})
  IN [h EXCEPT !.opts = IF name \in DOMAIN @ THEN [@ EXCEPT ![name] =
                          [i \in DOMAIN @ |-> IF i <= n THEN [@[i] EXCEPT !.good = TRUE] ELSE @[i]]] ELSE @,
               !.vals = FoldLeft(LAMBDA f, i : Put(f, OptsOf(h, name)[i].name, args[i]),
                                 @, [i \in 1 .. n |-> i])]

Missing(h, name) == \E i \in DOMAIN OptsOf(h, name) :
                      ~OptsOf(h, name)[i].optional /\ ~OptsOf(h, name)[i].good

Returns(h, ret) == [h EXCEPT !.ret = ret]

\* argv without the program's name; answers of exec is what the routine returns
doLaunch(h, argv, answer) ==
  LET name == argv[1]
      filled == Filled(h, name, Tail(argv))
      readied == IF h.ready = NULL THEN filled ELSE [filled EXCEPT !.ran = Append(@, "ready")]
  IN IF ~h.good THEN Returns(h, -1)
     ELSE IF argv = <<>> THEN Returns(printHelp(h), 1)
     ELSE IF name = Help THEN Returns(printHelp(h), 0)
     ELSE IF name \notin DOMAIN h.exec THEN Returns(printError(h), 2)
     ELSE IF Len(argv) > 1 /\ argv[2] = Help THEN Returns(printHelp4Cmd(h, name), 0)
     ELSE IF Missing(filled, name) THEN Returns(printError(filled), 1)
     ELSE IF h.ready \notin {NULL, {0}} THEN Returns(printPanic(readied), -1)
     ELSE Returns([readied EXCEPT !.ran = Append(@, h.exec[name])], answer)

\* getVal: the text of an option; {} stands for "" and for 0
getVal(h, name) == IF name \in DOMAIN h.vals THEN {h.vals[name]} ELSE {}

-----------------------------------------------------------------------------
(***************************************************************************)
(* JobHub: jobs are [name, status], the status being what the job will     *)
(* answer; started is what start calls, Finally at the end.         *)
(***************************************************************************)
run(jobs, job) == Insert(jobs, job.name, job.status)

start(jobs) ==
  LET names == SetToSortSeq(DOMAIN jobs, <)
      stop == {i \in DOMAIN names : jobs[names[i]] = "STOP"}
  IN SubSeq(names, 1, Min(stop \union {Len(names)})) \o <<Finally>>

-----------------------------------------------------------------------------
(***************************************************************************)
(* CCmdProg: cmds is keyed by the address of a name, so its order is any;  *)
(* a command is taken when its name is what the argument begins with.  The *)
(* answers are the names that may be executed, and "help".                 *)
(***************************************************************************)
Begins(name, arg) == Len(name) <= Len(arg) /\ SubSeq(arg, 1, Len(name)) = name
execute(names, arg) ==
  IF {n \in names : Begins(n, arg)} = {} THEN {<<"help">>} ELSE {n \in names : Begins(n, arg)}

-----------------------------------------------------------------------------
(***************************************************************************)
(* Properties                                                              *)
(***************************************************************************)
Build(regs, ready) == doReady(FoldLeft(Register, NewHub, regs), ready)

\* Whatever the order in which the files register, the program does the same:
\* the command named runs, once, behind the callback of ready, if everything
\* required is given; its options have the values at their places.  Two files
\* of a name, a missing routine or an option without a name keep it from
\* running at all.  A command is called as its file is, without directories
\* and extension.
HubDispatches(regs, argv, ready) ==
  LET clash == \/ \E i, j \in DOMAIN regs : i # j /\ regs[i].command = regs[j].command
               \/ \E i \in DOMAIN regs : \/ regs[i].exec = NoExec
                                         \/ \E k \in DOMAIN regs[i].opts : regs[i].opts[k].name = NoName
      named == {i \in DOMAIN regs : argv # <<>> /\ regs[i].command = argv[1]}
      help == argv # <<>> /\ (argv[1] = Help \/ (Len(argv) > 1 /\ argv[2] = Help /\ named # {}))
      reg == regs[CHOOSE i \in named : TRUE]
      required == {k \in DOMAIN reg.opts : ~reg.opts[k].optional}
      given == Len(argv) - 1
      runs == ~clash /\ ~help /\ named # {} /\ \A k \in required : k <= given
  IN \A order \in SetToSeqs(DOMAIN regs) :
       LET h == doLaunch(Build([i \in DOMAIN regs |-> regs[order[i]]], ready), argv, 7)
       IN /\ h.ran = IF ~runs THEN <<>> ELSE IF ready # 0 THEN <<"ready">> ELSE <<"ready", reg.exec>>
          /\ h.ret = 7 <=> runs /\ ready = 0
          /\ h.ret = 0 => help
          /\ runs => \A k \in DOMAIN reg.opts :
               LET same == {j \in DOMAIN reg.opts : j <= given /\ reg.opts[j].name = reg.opts[k].name}
               IN getVal(h, reg.opts[k].name) = IF same = {} THEN {} ELSE {argv[1 + Max(same)]}

\* Jobs run in the order of their names, up to the first that stops; a job is
\* what was run first under its name; and finally comes once, at the end.
JobsRunInOrder(jobs) ==
  LET hub == FoldLeft(run, <<>>, jobs)
      done == Front(start(hub))
  IN /\ Last(start(hub)) = Finally /\ Finally \notin ToSet(done)
     /\ \A i, j \in DOMAIN done : i < j => done[i] < done[j] /\ hub[done[i]] # "STOP"
     /\ \A n \in DOMAIN hub : n \in ToSet(done) \/ \E k \in ToSet(done) : k < n /\ hub[k] = "STOP"
     /\ \A n \in DOMAIN hub : hub[n] = jobs[Min({i \in DOMAIN jobs : jobs[i].name = n})].status

\* When no name begins with another, the command that is named runs; a longer
\* word that begins with it counts as the name.
NamedOneRuns(names, arg) ==
  (\A m, n \in names : Begins(m, n) => m = n) =>
     /\ Cardinality(execute(names, arg)) = 1
     /\ arg \in names => execute(names, arg) = {arg}
=============================================================================
