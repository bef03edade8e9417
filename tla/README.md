# A TLA+ development of neiku

neiku is a C++ toolbox for small web programs: logging, singletons, a MySQL
connection, FastCGI, message queues, option parsing and serialization, with a
set of shell tools around it. Two kinds of its code are hard to test, and the
modules here are about them.

- **Parts that share something.** Several processes or threads work on the same
  files, sockets, queues or variables without a lock, a connection breaks in the
  middle of a call, or an object lives longer than the request it serves. These
  are specifications with states and steps (section 3.1).
- **Parts that compute.** Encoders, parsers and dispatchers, whose errors sit at
  the edge of a buffer, in a key that was not restored or in a flag that was not
  reset. These are operators, compared with a reference definition over all
  inputs up to a bound, and most of them, by proof, over all inputs (section 3.2).

Paths below are relative to the repository (`src/` in `PROJECT.json` is its
root): `include/neiku/log.h` is `src/include/neiku/log.h` there.

## 1. Inventory

| Part | State | Operations | Meets |
|---|---|---|---|
| CLog, file sink (`include/neiku/log.h`) | `filename.log`, `filename{i}.log`, `filename.tmp.log`, `filename.nolog`, their modes | DoLog, LogFileRotate | every process that logs to the same name |
| CLog, sinks and configuration | level, limits, paths, stdout, a directory per online user | SetLogFile, SetLogLevel, SetOnlineLog, ... | its caller, the file system |
| CLazySingleton (`singleton.h`) | `m_pInstance`, a mutex, a local static | Instance | every thread |
| CTSDSingleton (`singleton.h`) | a pthread key, a once flag, exit handlers | Instance, CreateKey, Destroy | every thread, exit |
| DbX (`dbx.h`, `dbx.cpp`) | m_bInit, m_bAutoCommit, m_iErrNo, the session | init, query, begin, commit, rollback, status | the MySQL library and server |
| DbResult, SqlBind (`dbx.h`, `sqlbind.h`) | a row cursor; a query with place holders | operator[], fetch, &, bind | DbX |
| CgX::main (`cgx.main.cpp`) | a socket file, descriptors, workers | cgx_bind, cgx_mkdir, cgx_fork | other starts at the same path, a web server |
| CgX, a request (`cgx.cpp`, `cgx.h`, `cgx.file.cpp`) | m_pCGI, m_bInit, m_bAccepted, m_sHttpBody, ... | accept, getValue, setValue, getHttpBody, parse, render, ... | libfcgi, ClearSilver, the handler |
| CMsq (`msq.h`) | a System V queue id, a message buffer | Init, SendMsg, RecvMsg | other processes, ipcrm |
| maopao (`maopao/`) | task files, the files themselves, one mp-exec for each host | mp-create, mp-send, mp-recv, mp-exec | the maopao of other hosts, over ssh and sftp |
| CCmdLine (`cmdline.h`, `cmdline.cpp`) | groups of options, their values | Init, GetOpt, HasOpt, & | getopt_long |
| CCS (`cs.h`, `cs.cpp`) | an HDF, the last output and message | Init, SetValue, Render, Destroy | ClearSilver |
| Serialization (`serialize.h`, `json_`, `xml_`, `yaml_serialize.h`) | a cursor and a key in a tree | one operator for each type | jsoncpp, tinyxml2, yaml-cpp |
| jsoncpp (`3rd/jsoncpp`), compiled into the library | a tree of values; the reader's position, comments, errors | Value, Reader, three writers | serialization |
| charset, md5, string, utility, time, proc | none that lasts | functions | iconv, /proc |
| cmdhub, jobhub, cmdprog (`demo/`) | registered commands, the steps done | dispatch, help, run | the files of commands |
| mkx, dox, sh, bin, makefiles, config, rpm | none | developer scripts | ssh, gcc |
| other demos, 3rd archives | | examples, vendored archives | |

CLog and CgX are reached through `SINGLETON(...)`, so their first use in a
program goes through CLazySingleton. The FastCGI program of `demo/cgx` calls
CgX::main once and then serves requests with the same object in each of the
workers that main has forked. CgX::parse hands a body to the decoders of the
serialization; the JSON decoder walks a tree of jsoncpp. The other parts do not
call one another.

What is hard, and what makes each part correct:

- **CLog, file sink.** Nothing is locked: a rotation is a stat and a series of
  renames, and several processes do it at the same time. Old lines must go
  before new ones, no file may grow without bound, no temporary file may stay,
  and the current file must remain writable for the group. One process alone
  must keep the newest lines, at every moment.
- **CLog, sinks.** Three sinks with switches of their own, and a SetLogFile that
  turns stdout off and ignores whether the directory could be made. A line must
  reach every sink that is on, and no other.
- **CLazySingleton.** A double-checked lock whose pointer is read and written
  outside the mutex. The object is constructed once; nobody gets another
  pointer, or the pointer of an object that does not exist yet.
- **CTSDSingleton.** One object for each thread, destroyed with it once: by the
  destructor of the key, or by the exit handler for the thread that calls
  exit(). The key is made by one thread while the others wait.
- **DbX.** A query is retried after a reconnection, a transaction must not be.
  What is reported as done is durable, what is reported as undone has left
  nothing, a transaction takes effect as a whole and once.
- **CgX::main.** Everything between the check whether the path is in use and
  the chmod can be interrupted. What an earlier start left must not stop the
  next one, and a program that says it serves the path does so.
- **CgX, a request.** The object survives the request, and the handler may call
  anything in any order and go on after an error. No request sees what another
  one left, or a part of its own body.
- **CMsq.** Removal of the queue under a blocked receiver, a stale queue id, a
  full queue, an Init that fails in the middle of a call. An error must mean
  that the message was not sent, and no message may be left behind.
- **maopao.** A tree of hosts in which any command and any process can fail.
  No host is forgotten, none runs a task twice, none hands on files that it does
  not have, and a task in which nothing failed or was lost serves everybody.
- **The computing parts.** Encoding and decoding are inverse; a parser accepts
  its grammar and no more; a cursor is where it should be after whatever was
  nested; options, commands and jobs are those that were asked for.

`PROJECT.json` lists the hazards at their lines, with the properties that
would catch them.

## 2. Plan

Modules, in the order of writing. All are there.

1. `RollingLog`, `LogFile`, `LogFile_proofs`: the rotation.
2. `LazySingleton`, `Helpers_proofs`.
3. `MysqlClient`, `DbX`: DbX over a model of the library and the server.
4. `CgxSocket`, `CgxSocket_proofs`: the start of a FastCGI program.
5. `Maopao`, `Maopao_proofs`.
6. `CgxRequest`, `CgxRequest_proofs`.
7. `Transactions`, `DbX_proofs`: a store in which a transaction is one step,
   which DbX implements.
8. `LossyFifo`, `Msq`, `Msq_proofs`: CMsq over a model of msgget, msgsnd and
   msgrcv.
9. `TsdSingleton`, `TsdSingleton_proofs`: key, once flag, threads that end, exit.
10. The computing parts: `Codec`, `ProcTime` and `SqlText` (which extend it),
    `CgxPage`, `Template`, and `LogSinks` for the configuration of CLog and its
    other sinks. `Computing` puts these six together; `Algorithms` states all
    their inputs and what must hold of the results; `Helpers_proofs` has the
    theorems.
11. The computing parts whose definitions are recursive, or end in the
    library's folds: `CmdLine`, `Hubs`, then `JsonValue`, `JsonText`,
    `Serialization` and `Dumpers`, each of which extends the one before it.
    `MCAlgorithms` instantiates these and extends `Algorithms`, for one run of
    all computing parts.

Abstract specifications: `RollingLog` (a reader's view of the log files),
`Transactions`, `LossyFifo`; Maopao states "spread the files to the hosts"
by its invariants instead. For the computing parts a reference definition next
to each operator takes this role.

The runs stay about a dozen, one for each question. Every safety property that
a run checks of a module with behaviour is also a theorem; section 5 says which
assumptions they need.

## 3. The modules

Conventions: a variable or operator keeps the name of the C++ member or
function without its prefix; `pc` names the next system or library call of a
process; an action is named after the call it makes. A definition whose comment
begins with "A slip" is not part of a specification: it is the form a plausible
mistake would give to a definition after it, kept to show that the properties
notice. `MC*` modules instantiate a module for TLC.

### 3.1 Specifications with states

**LogFile and RollingLog.** A process in DoLog is at `open`, `write`, `stat`,
`aside`, `shift`, `back` or `chmod`, one step for each call; `idx` is the loop
variable of LogFileRotate. Directory and inodes are separate (`dir`, `data`),
because the descriptor of `fopen` survives a rename. A path is a number and so
is the age of what it should hold: filename.log is -1, filename.tmp.log 0,
filename{i}.log i, and each rename of the code goes to the next number. Lines
are numbered in the order of their `write` and have size one. `Crash` kills a
process between two calls, `Switch` creates or removes filename.nolog,
`OpenFails` is an fopen that returns NULL. `RollingLog` promises a reader two
things: what can be read is a contiguous newest part of what was written, and
at least `Floor` lines of it are never thrown away.

`M <= 1`: the comment at log.h:42 speaks of M files in all, but the first
rotation always makes filename1.log; `LastIndex` follows the code. For unsigned
M the bound `M - 2` wraps, and the conversion to int gives the loop no turn.

**LazySingleton.** Every load and store of `m_pInstance` is a step. Whether the
pair `++m_pInstance; --m_pInstance` exists depends on the build: with the flags
of `makefile.neiku` (-O2) it is folded away, without optimisation it is two
read-modify-writes outside the mutex. `folded` is chosen in Init, so one run
covers both.

**TsdSingleton.** `once` and `hooked` are the pthread_once and the atexit
registration in it, `key` the static that is 0 before and after, `slot` the
value each thread has under the key. A thread inside Instance is at `once`,
`atexit`, `create`, `get`, `set` or `return`. It may end (the destructor of the
key deletes its object), and one may call exit() (the handler deletes its
object and empties nothing). pthread_key_create and pthread_setspecific may
fail.

**Transactions, DbX and MysqlClient.** `MysqlClient` gives what a call of the
library can do to the session and to the statements the server holds, and what
it returns; `DbX` is the code on top of it, one step for each library call,
under a caller that uses it as it is meant: it rolls back after an error in a
transaction, and then gives up. The connection can be lost before, in the
middle of (executed or not) and after every call. `Cut` is the loss while
nothing is under way, `Status` is DbX::status, `End` is the destructor or the
end of the process between two library calls. `Transactions` knows neither
sessions nor modes nor retries: a statement outside a transaction takes effect
once or twice, one inside takes effect with its whole transaction, at its
commit, or never.

**LossyFifo and Msq.** Several processes with an object each share one queue;
`live` is the id its key leads to, and each object has the id it has got. A
step is one system call: `Msgget`, `Send` and its refusals, `Receive`, `Sleep`,
`Wake`. A call on an id that is gone is answered by EIDRM (the loop calls Init)
or by EINVAL (the call fails): which of them depends on whether the removal
came before or during the call, and both are possible here whenever the id is
old. `Remove` is ipcrm. `LossyFifo` is a queue that delivers once and in order,
and may lose all it has.

**CgxSocket.** One step for each system call of `cgx_bind`, `cgx_mkdir` and
`cgx_fork`. The socket of a start carries the name of the start, `path` is what
the file name refers to, and a socket listens as long as a process holds a
descriptor of it. `Fail` is a call that fails by itself (no memory, a limit),
`Kill` ends a start or a worker anywhere. Starts may belong to different users.
That matters between bind and chmod, and for the directory of the path (`dir`):
it is writable for all (`Shared`), writable for all with the sticky bit
(`Sticky`, /tmp), or absent (`None`) until a start makes it, and then, with mode
0755 (cgx.main.cpp:64), only starts of the same user may unlink and bind in it.
The unlink and the bind of others are answered by EACCES, and their start ends
(`denied`).

**CgxRequest.** A worker, or a CGI process, and a handler that calls anything in
any order. `CheckInit` is CHECK_INIT: it parses the request on the first call,
and again if that has failed. What the object holds is tagged with the number
of the request it came from and with whether it is whole: `m_pCGI` and
`m_sHttpBody` are sets of such data, empty for NULL and for the empty string.
`got` is what the last call returned or rendered. `heap` counts CGI structures.
The client sends no body, the whole one, or stops early; init() can fail in
cgi_init, before the first byte of the body and after the last one that came.

**Maopao.** Each host is at most one mp-exec, at one of its commands. `oth` is
the part of OthHost that is not handed on yet, `half` the second half. A
hand-over is mp-send, ssh and mp-recv in one step, with the outcomes a
connection has: the task arrives, arrives while the sender is told otherwise,
does not arrive, or arrives cut at any byte. mp-recv reads to the end of file
and executes what it has got, so `CutTasks` has three kinds of cut: inside the
files, where the last name may be half a name (`Stub`) and the others are some
of the list; inside OthHost, with the header's lines as the file list; and
before SrcHost, with no other host. mp-exec writes its file list, its mkdir
script and its sftp script to files without a look at the result (mp-exec:98-101,
126-130): `Save` and `Pull` may lose lines on a full disk, and `short` has the
hosts where that happened. Each such cut and loss counts as a failure. Not
modelled are a host that is named twice, half a name or half an address that is
another file's or host's (any other half address fails as a command does), a
TaskSeq that is cut to that of another task, and a mkdir script (mp-exec:105) or
the sub-task's own file (mp-create:107-119, whose status is that of the last
echo) that loses lines. The order of the hosts in a half is left open, since
mp-exec shuffles them.

### 3.2 Parts that compute

These modules have operators and no variables. Each operator is a function of
the source: a loop is a recursive function or a fold over its input, members
that survive a call are fields of a record, a pointer that may be NULL is a set,
and what an earlier call left in errno or in a buffer is an argument. Next to
them stand the reference definitions and the properties, such as "decoding what
was encoded gives the same".

`Algorithms` has one variable, `case`, an input of some kind: any text of bytes,
any number, any list of devices, any page, any sequence of calls of a CCS or a
CLog. `CaseSpec` says that it is one of `Cases` and stays; `TextIsKept`,
`PageAndHeaders` and `LinesReachTheirSinks` ask what is due for its kind.
`Atom` is whatever words the tokens, values, addresses and paths are made of.
`MCAlgorithms` enumerates bounded inputs, those of the other modules too: all
cases are initial states, and Next changes nothing, so that TLC evaluates every
property once for each case.

| Module | Code | Compared with |
|---|---|---|
| `Codec` | URL and base64 codecs, bit lists, iconv in chunks, explode and implode, trim, cat, charlen, json_escape, the padding of md5 | its inverse; a direct definition |
| `ProcTime` | CString, CDev::interface over /proc/net/dev, time.cpp | the device that was written; the hour that was meant |
| `SqlText` | SqlBind's place holders, DbResult's row cursor | the pieces of the statement with the value that was set first behind each; rows and fields |
| `CgxPage` | HandleSSI, the client's address, header names | the directives of a page |
| `LogSinks` | SetLogFile, MakeSubDir, the switches, the level, DoLog's sinks | the lines that each sink should have |
| `CmdLine` | ParseOptStr, getopt_long as it is called here, HasOpt, GetOpt, & | the declaration, read as a set of names |
| `Template` | CCS: Init, SetValue, Render, Destroy, with a failing step of ClearSilver | the value that was set last |
| `Hubs` | the dispatchers of cmdhub, jobhub and cmdprog | the command, the steps and the order that were asked for |
| `JsonValue` | Json::Value: conversions, comparison, arrays, members | arithmetic; a total order; a list |
| `JsonText` | Reader with its error recovery and comments; FastWriter, StyledWriter, StreamWriterBuilder's writer | the JSON grammar; the same tree again |
| `Serialization` | encoders and decoders of JSON, XML and YAML, as objects, vectors, sets and maps nest | the merge of the old value and the document |
| `Dumpers` | the field lists and HDF of serialize.h | the paths of the value |

In `LogSinks` a program is the sequence of its calls, and the reference speaks
of them only: a sink is on at a call if the last call about it said so. A file
may be in the way of a directory, and `touch name.nolog` may come at any time.

`JsonText` has two levels: characters for strings, numbers and code points, and
lexical elements for documents and comments. Scaled down are the widths of the
integers of JsonValue (32 bits are 4, 64 bits are 6: the order of all limits is
kept), the stack limit of the reader (1000 is 4) and the right margin of the
styled writers (74 is 9).

## 4. What the runs show

| Run | Question | Instance |
|---|---|---|
| `log_solo` | What does one process promise a reader at any moment? | 1 process, M = 4, limit 2, 14 lines |
| `log_shared` | What is left of it with two processes and a kill? | 2 processes, M = 3, limit 2, 5 lines, 1 kill |
| `log_chaos_loss` | Does moving the file away first avoid chaos? | as above, no kill; violated |
| `lazy_builds` | Does Instance return, and what? | 3 threads, 3 calls, both builds |
| `tsd_threads` | Has each thread an object, deleted once? | 3 threads, 4 calls, 1 failure |
| `msq_clients` | Are messages sent once, in order, and received? | 1 sender, 2 receivers, capacity 2, 3 sends, 1 removal, 1 fault |
| `dbx_tx` | Are transactions atomic across reconnections? | 3 statements |
| `dbx_idle` | Also when the connection breaks right after begin()? | 2 statements; violated |
| `cgx_serial` | Does a start serve, whatever the earlier ones left? | 3 starts, 2 users, 2 workers, 1 failure, 3 kills |
| `cgx_request` | Are requests separate? | 3 requests, 2 failures |
| `maopao_tree` | Is every host served or accounted for? | 4 hosts, 2 files, 2 failures, 1 kill |
| `algorithms` | Do the computing parts agree with their references? | about 300 000 cases |

**log_solo** and **log_shared.** With one process, the directory implements
RollingLog between any two system calls (`RefinesRollingLog`), keeps the newest
`LastIndex * MaxSize` lines (`NewestKept`) and orders files by age
(`AgeOrder`). With two, none of these three holds (`log_chaos_loss` shows how a
whole file is lost, against the comment at log.h:356), but sizes stay within
one line for each other process (`SizeBound`), no temporary file is left unless
somebody was killed (`TmpIsOwned`), the mode is 0660 when nobody is in a call
(`CurrentIsShared`), a full file is rotated and calls return. 14 lines at limit
2 make seven rotations with M = 4, so files fall off the end several times. With
two processes, 5 lines are enough for two rotations at once and for a process
that still writes to a file rotated twice.

**lazy_builds.** Three threads, so that one can wait for the mutex while a
second is inside and a third takes the fast path. In the folded build every
call returns the object (`FoldedReturns`), and in both every call returns
(`CallReturns`). That the object is constructed once, even when a decrement
stores NULL over a published pointer, needs no property: the guard of the local
static gives it, whatever the lock does.

**tsd_threads.** Three threads: one makes the key, one waits for it, one has
ended before; four calls, so that one thread calls twice. Each thread gets one
object, its own, which lives until the thread ends or calls exit()
(`OneEach`); every object is deleted once by the handler that is due, and a
thread that ended leaves nothing but what a failing pthread_setspecific lost
(`ReleasedOnce`).

**msq_clients.** Two receivers, so that one can hold an id that the other has
given up; three messages in a queue of two, so that it can be full; messages
above msgmax and above MSQ_MSGMAXSIZE. All processes together implement
`LossyFifo` (`IsFifo`), an error of SendMsg is true (`RefusedIsNotSent`), and no
message stays in the queue (`Delivered`) when receivers call Init again after
an error: without that they would keep an id that is gone, since EINVAL does
not lead to a new Init.

**dbx_tx.** Three statements make a transaction of two with a plain statement
before or after it, and each can be lost, executed twice or executed unseen.
DbX implements Transactions (`IsTransactional`), the mode of the session is the
one the object believes in (`ModeAgrees`), and a retry comes to an end
(`QueryReturns`). The instance excludes one moment: a connection that breaks
between begin() and the first statement. Then the library itself reconnects,
the new session is in autocommit mode, and the statement is durable before the
caller decides: `dbx_idle` shows it, against the comment at dbx.cpp:161.

**cgx_serial.** Starts do not overlap; each can die at every call, its workers
too. `LeftoversDoNotBlock` counts failed starts against calls that failed by
themselves: what the same user's starts left never stops a start, nor does what
anybody left in a directory that is writable for all. The excuse, `Foreign`, is
real: a directory that another user's start has made, or under the sticky bit a
file of another user, makes unlink or bind fail, and the start ends with an
error (cgx.main.cpp:107-114). `ServedAfterStart` excludes the one file it does not hold for: one
left by another user's start that died before its chmod, at which connect gives
EACCES, which the code takes for a running server. Three kills let two starts
die halfway, or one start and the workers of another, before the third.

**cgx_request.** Three requests, so that what the first left can turn up in the
third after a second one that never was parsed. Whatever fails and is tried
again, the handler gets data of its own request only, and a body as a whole or
not at all. `NothingIsLost` bounds the CGI structures in use: an init() that
fails after cgi_init leaves its structure behind when the next call tries
again, and only then is anything lost.

**maopao_tree.** Four hosts give halves of two and of one, of two and two, and
a chain of three hand-overs. With two failures, cuts or losses and one kill
anywhere: no host runs the task twice (`ExecutedOnce`); a source has the files
of its tasks, but for a line that was cut, or where it lost lines of its own
(`SourceHasFiles`): a broken connection does lead to an sftp script that asks
for a missing file; a host not reached is on the list of somebody who failed,
was killed or had a list cut (`NobodyForgotten`); and when none of these
happened all are served (`SilenceMeansServed`). Of the three only the first is
logged as an error: a log without errors does not show that all is well. Two
failures, so that a task that arrived cut can meet another one. The
first failure stops what its mp-exec had left to do: a sub-task 1 that cannot
be sent takes sub-task 2 with it (mp-exec:177). `Bisection` bounds the depth of
the tree by the logarithm of the number of hosts; a slip in the split that
loses a host shows in `Served` and `NobodyForgotten`, since the two halves of
`Split` are complementary as head and tail are.

**algorithms.** `TextIsKept`: texts of up to five bytes from a set that has a
member of each class the code tells apart. `SqlCarriesValues`: up to two place
holders and three calls of setValue, and eleven place holders, so that `:1` is a
prefix of another; objects with more or fewer fields than a row. `LinesReachTheirSinks` and `PageAndHeaders`: all programs of
up to four calls, with a failing step in any of them, and pages of up to six
tokens. `CommandsHold`: up to two groups of options and three arguments; files
that register in any order, names that begin with other names.
`JsonIsKept`: scalars at each limit of each type, documents of up to six
elements, trees with comments at every place. `DocumentsAreKept`: eleven
types that nest vectors, sets, maps and objects, each read from the documents
of all of them into an old value. `BoundedAssumption` says that the texts, pages,
programs and statements of the run are among the `Cases` the theorems of section 5 are
about: what TLC evaluates here is what is proved there. For a source file
`LinesReachTheirSinks` asks for what GetFileName does: the last component of a
path that begins with '.' or '/', and any other path as it is (section 6).

Deadlock is checked in every run but two: in `msq_clients` receivers sleep for
ever once all messages are sent, and in `tsd_threads` no thread takes a step
after exit(). Elsewhere a system that may stop has a step for it (`Done`, or
calls that start again).

**Bounds.** MaxLines, MaxCrashes, MaxCalls, MaxFailures, MaxSends,
MaxRemovals, MaxFaults, MaxStmt, MaxFail, MaxKill and MaxReq appear only as
guards: nothing is reset or wrapped when they are reached. No state constraint
and no symmetry is used.

**Fairness.** `FairSpec` of LogFile, LazySingleton, TsdSingleton, DbX, Msq and
Maopao asks for weak fairness of the next step of a process that is inside a
call: the scheduler runs every process. Nothing is assumed of crashes, switches,
connections, removals or of new calls, with one exception: in Msq, a receiver
is a program that calls RecvMsg again and again, and Init after an error, as
demo/msq does when it is started anew; Init has strong fairness because a failing
RecvMsg comes between its turns. In LazySingleton the mutex is taken with weak fairness;
calls are finitely many, so a waiting thread cannot be passed over for ever.
`Served` and `OversizedIsRotated` name the failures that excuse them in their
statements.

## 5. What is proved

All theorems hold for every value of the constants that the ASSUMEs of the
module, and those of the theorem, allow: sets of processes, threads, starts and
hosts of any size, numbers in Nat.

- `LogFile_proofs`. `TypeInvariance`. `TmpOwned` and `CurrentShared` by
  `OwnedInv`: a temporary file belongs to a process before its last rename, a
  current file without the mode to one before its chmod; whoever removes the
  one or creates the other takes over the duty. `SizesBounded` by `SizeInv`: a
  file at its limit plus the processes that can still write to it (`Reach`)
  stays under the bound; the set Reach loses a member with each line, and a
  member that dies is counted as a crash. `AgeOrdered` for one process, by
  `AgeInv`: no inode has two names, the open file is filename.log, and the
  lemma `RenameKeepsOrder`, which says why each rename of the rotation is
  harmless. `NewestAreKept` and `RotationRefines` are about one process that
  nobody kills. The order by age alone does not give them: what a rename
  overwrites must also be old enough to go. `KeptInv` therefore adds
  `Spacing`: between two rotations at least f-1 full files' worth of lines,
  plus those now in filename.log, were written after each line of
  filename{f}.log; one more full file's worth once filename.log is moved aside,
  until the loop has moved filename{f}.log too. So what a rename overwrites
  (`Expendable`) is older than anything the rotated files have room for. A kill in the middle of the
  loop leaves a hole or a temporary file, and the next rotation overwrites
  newer lines (run `log_chaos_loss`); hence the assumption.
  `ReaderSeesTheEnd` follows from the refinement. `DoLogIsBounded` counts the
  calls a process has left (`Left`), for any number of processes.
- `TsdSingleton_proofs`. For any threads, calls and failures, where key 0
  belongs to no other component (section 6 says what happens otherwise).
  `SlotInv`: what a thread was given is what its slot has, and that is the
  object it made last; a thread inside of `Instance` that is about to set its
  slot has none. `DeletedInv`: only threads that ended or called exit() have
  lost their object to a handler. Both give `OneObjectEach`. `EachReleasedOnce`
  needs `LostInv`, which counts the objects made against the failures.
- `Helpers_proofs`. `FoldedReturnsInstance` from `FoldedInv`: in the folded build
  `m_pInstance` only moves from NULL to the constructed object.
  The same module has the theorems of the computing parts, below.
- `DbX_proofs`. `ImplementsTransactions`: under
  `~IdleCut`, every step of DbX is one of Transactions or a stutter. What each
  library call can do comes first, a lemma for each of them; then the invariant
  `Inv`. Its part `Modes` is the reason why DbX is right: in a transaction the
  session has exactly the statements of the transaction pending, or the client
  library still has its status flag and refuses to reconnect silently. Its part
  `Counts` says that a statement is retried when it took effect at most once.
  `Cut` is the step that needs the assumption. `ModesAgree` is a corollary of
  the invariant. `PromiseIsEnough` says that whatever implements Transactions has
  what a caller relies on (reported as done is done, given up leaves nothing, a
  transaction is whole and takes effect once), and both together give
  `TransactionsAreWhole`: the property that `dbx_idle` refutes holds where the
  connection does not break at that moment.
- `Msq_proofs`. `RefusalsAreTrue` and `ImplementsLossyFifo`, by one invariant:
  the message of a call that has not returned was neither taken nor refused
  (`InCall`), however often the loop went round, and each call has a message of
  its own (`Known`). `SendersAreInOrder` is what a program gets from the FIFO:
  what was delivered, followed by what waits, is a numbered sequence
  (`OrderInv`), and handing out the head of the queue does not change it.
- `CgxSocket_proofs`. For starts that do not overlap, none with descriptor 0
  closed, and any number of kills and failures. `SerialStartsServe`: each worker
  is reachable. `SerialInv` says how far the socket is prepared at each call
  (`Stage`), and that a start past its connect check is alone (`Alone`), which
  is what the check is for and what overlapping starts break.
  `UndisturbedStartsServe` and `OnlyFailuresFail` add `Left`: the path names a
  start only after its bind, and bind finds no file. The latter also needs that
  a start which was denied met a directory or a file of another user, and that
  this stays so (`Foreign` never turns false), and counts with the theorems on
  finite sets.
- `CgxRequest_proofs`. All invariants of the run, for any number of requests
  and failures. `Inv` adds to them that the whole object, not only the last
  result, is of the current request (`Current`), and that the kind of the kept
  body is the kind of the request (`Kind`). `ParseStep` holds because what is
  left in the object fits the request that is parsed next (`Fits`).
- `Maopao_proofs`. All invariants of the run, for any hosts, files, failures,
  cuts and kills. `Duties`: the lists of the running mp-exec are disjoint and
  name hosts not reached, so a hand-over reaches a new host (`OneExecution`),
  and one that ends well with its list whole has an empty list
  (`NobodyIsForgotten`). `Holding`: where the files of a task are, up to cut
  lines and to hosts in `short`, and that only an error, a kill or a cut makes a
  list shorter. Together they give
  `SilenceIsSuccess`. `Bisecting` needs `Halving`: what a part of a list has room
  for at its sender is twice what it needs at its receiver; the powers of two
  are taken from the number of subsets of 1 .. n (`PowerDoubles`), because the
  provers know nothing of `^`. `EverythingEnds` gives each host at most nine
  steps.

The computing parts (`Helpers_proofs`): `TextIsAlwaysKept`,
`PagesAreAlwaysKept`, `LinesAlwaysReachTheirSinks` and `SqlAlwaysCarriesValues`
state the four invariants of `Algorithms` for all its cases, each put together from theorems
about one part of the code:

| Theorem | Says, of every input |
|---|---|
| `UrlsAreKept`, `Base64IsKept`, `BitsAreKept` | decoding gives back what was encoded |
| `ExplodeKeepsSections`, `TrimTakesTheBlanks` | splitting loses no section, trimming takes blanks at the ends only |
| `Md5PadsAsTheRfcSays` | the blocks absorbed are those of RFC 1321 |
| `ConversionIsWhole` | a text goes through chunks whole, or not at all and with an error |
| `TeeIsRead` | a file has a begin of what tee was given, and all of it where the disk has room; a loss is an error only for a text as long as the stream's buffer or longer |
| `NumbersAreKept`, `TimeIsReadAsPrinted`, `CountersAreKept` | lists, times and lines of /proc/net/dev are read as written |
| `IncludesAreRewritten` | each directive becomes an include of its own, the names and the text between stay; a quote stays unless it stands right behind the directive |
| `AddressIsNearest`, `HeadersAreFound` | the client and the headers of a request |
| `OutputsAreWhatWasSet` | a CCS outputs what was set last, whichever calls failed |
| `SinksHaveTheirLines` | each sink of a CLog has the lines of the calls made while it was on, in their order |
| `SourcesAreNamed` | GetFileName cuts a path that begins with '.' or '/' to its last component, and leaves any other as it is |
| `ValuesKeepTheirPlace`, `NumbersAreAppended` | each place holder is replaced by the value that was set for it first, where no other colon is in the statement; a number is appended whole up to 19 characters |
| `ColumnsAreRead` | a vector of objects has all columns of a result, each once and in order |

They need induction over texts, lists and sequences of calls. The library's
induction theorems take an operator as a parameter, which no installed prover
can give them, so induction is stated over sets: `LeastNumber` (a set of
naturals that is not empty has a least element) comes from well-founded
induction on the strict subsets of a finite set, and `Induct` and
`Upwards` from it. `RecursionOnRank`, `Iteration` and `FoldExists` show that the
functions a loop is written with exist and have the value at each place that
their definition gives; what a loop computes is then an invariant of its turns.
Most proofs cut the input in parts that the code reads at one turn each
(`DecodesParts`, `EvenParts`, `ExplodeTurns`, `ConversionTurns`,
`PartedBehindGap`) and show that the turns go from part to part. In these
theorems numbers are unbounded naturals; the code's stay right as long as
they are below 2^64.

For the templates and the logs the input is a sequence of calls, and the
invariant is about the object after each of them. Of a CLog it is `LogHolds`:
`ConfiguredAt` (level, name and switches are what the calls so far have said),
`DirsHold` (the directories of the file in use, unless something is in their way, and
of all files there are, exist) and `LinesHold` (each sink has its lines so far). `DirsHold` is what
makes it inductive: SetLogFile makes no directories for a file that exists.

For a statement it is `SetUpto` (each of the three maps has the first value of
its kind that was set for a place holder) and then `TurnOf`: after i turns of
getSql the place holders up to i are replaced and the pattern is passed up to
behind the last of them. A colon stands in place holders only, so the next one
that is found is the one that is meant, and `EnoughTurns` counts that the loop
has a turn for each: it runs as often as there are values, and each place holder
has one. For a result `ReadTo` says how many columns a cursor has passed;
`Turns` relates it to the objects that a vector has after so many turns.

The type invariants are parts of the inductive invariants and no properties of
a run of their own; those of LazySingleton, TsdSingleton and Msq only document
the variables, and hold on the instances above.

Only model-checked:

- the liveness properties (`OversizedIsRotated`, `DoLogReturns`, `CallReturns`,
  `Delivered`, `QueryReturns`, `Served`): the provers have no rule for fairness
  and ENABLED. `DoLogIsBounded` and `EverythingEnds` are the part of
  `DoLogReturns` and `Served` that is safety: nothing goes round for ever.
- `JsonIsKept` and `DocumentsAreKept`: readers and writers of trees, as
  RECURSIVE operators. The provers cannot use those, and recursive functions
  would need a domain, the set of all trees.
- `CommandsHold`: option parsing, dispatch and jobs. Its operators are folds of
  the library over records and sequences; they were left for the parts above.

## 6. What is not modelled

**Parts.** mp-log, mkx, dox, sh, bin, the makefiles, the archives in 3rd, the
editor settings and the packaging: developer scripts and files without state.
The demo programs that show one call each. Of jsoncpp: OurReader, StyledStreamWriter
and Path, which nothing here uses. The tables of iconv and the rounds of md5,
which only published values can confirm. tinyxml2, yaml-cpp, ClearSilver,
libfcgi, libmysqlclient and the kernel appear by what the code here relies on.

**Within the modelled parts.** Error texts, but for those that later code
looks at (getErrMsg of CgX keeps only "cgx init fail", since CHECK_INIT writes
it over the traceback that init() has stored); the help of CCmdLine; the re-configuration
of CLog by one thread while another logs; option parsing of CgX::main; the
format of maopao's task files beyond their fields. mp-exec's guard on the
number of files (mp-exec:106) cannot see an empty list, because mp-create's
header is then the last paragraph of the task; the tasks modelled have files.

**Behaviour met while modelling, outside of the instances of the runs.** The
constants of some modules reach it:

- `LazySingleton`, without optimisation (`++` and `--` outside the mutex): a call
  may return NULL or a pointer next to the object; `FoldedReturns` speaks of the
  optimised build only.
- `CgxSocket` with `Overlap = TRUE`: a start that has bound but not yet called
  listen looks like a leftover, and another start unlinks its file; its workers
  serve a socket that no path names. With a start in `NoStdin`: when socket()
  returns 0, dup2 does nothing and close(fd) closes the socket. A fork that
  fails leaves the workers that were forked before it. connect blocks when the
  backlog of a server that does not accept is full (cgx.main.cpp:95); the
  comment at cgx_main.h:11 gives 5 as the default backlog, the code 1024.
- `TsdSingleton` with `ZeroTaken = TRUE`: the exit handler is registered before
  the key exists (singleton.h:125); if key creation fails, or exit() comes in
  between, the handler reads key 0, which may be another component's, and
  deletes its value. The handler also leaves the pointer in its slot
  (singleton.h:137), so that later exit handlers of the same thread get an object
  that is gone.

- `ProcTime`: strptime leaves the fields of struct tm alone that the format does
  not have, tm_isdst always, and nobody has initialised them (time.cpp:44).
  `TimesAreKept` holds in zones without summer time only.
- `CgxPage`: an include without an end or a quote makes the loop of HandleSSI
  search from the start of the page again, for ever (cgx.cpp:53).
  `IncludesRewritten` speaks of pages whose includes are complete. In one whose
  quote stands right behind the directive, `<?cs linclude:` (14 characters) is
  written over `<!--#include ` (13) and over the quote (cgx.cpp:57-58):
  ClearSilver gets a name without its first quote.
- `Codec`: tee does not look at the close of its stream (utility.cpp:616). On a
  full disk a text shorter than the stream's buffer is lost and tee
  returns 0; `FileIsWritten` says when a loss is an error and when it is not.
- `CgxRequest`: when init() fails after cgi_init, the next call makes another CGI
  structure and the first one leaks (cgx.cpp:395); `NothingIsLost` bounds the
  leak by the number of init() calls that failed, and does not exclude it.
- `CgxSocket`: see section 4 for the starts of two users.
- `LogFile` with two processes: the newest lines may be lost (`log_chaos_loss`)
  and files need not be ordered by age; AgeOrder is stated, and proved, for one.
- `LogSinks`: the comment at log.h:330 says that GetFileName stands in for
  basename, but a path that begins with a name is returned whole
  (log.h:338-341): a file that the compiler is given as `src/a.cpp` is named
  with its directory in the lines. `SourceIsNamed` states what the code does.
- `Template`: the return after a failed allocation leaves the CSPARSE behind
  (cs.cpp:126); `OutputsWhatWasSet` counts it.

And these have no model:

- log.h:275-301: GetTimeStr formats into a member that all threads share.
- utility.cpp, base64: `length - 4` wraps for an empty text; `Base64RoundTrip`
  decodes texts of at least one byte.
- dbx.cpp:147: m_iErrNo keeps the error of the first attempt when the retry
  succeeds. dbx.cpp:63: when mysql_init fails the library stays initialised.
- mp-recv:71: `$?` after a command started with `&` is always 0, so an mp-exec
  that does not start is not reported.
