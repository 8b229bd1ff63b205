-------------------------- MODULE LeanSessionProofs --------------------------
(* Proofs about a Lean session, for any number of snapshots, of runtime     *)
(* calls of the host's own and of probes; then about one load of a snapshot *)
(* and what a page makes of its failure, one boot and one compile, for      *)
(* every cache, response, engine and end.                                   *)
EXTENDS LeanSession, WorkerBoot, SnapshotLoad, CompileOutput, Failures, SequenceTheorems, WellFoundedInduction, TLAPS

-----------------------------------------------------------------------------
(* A call that takes a turn.                                                *)
Exclusive(cs, k) == cs[k].op \in RuntimeCalls \cup {"lspArm"}

(* The queue holds the calls that wait for a turn, in the order they were   *)
(* made and after the one whose turn it is; no other one is at the worker.  *)
TurnsInOrder ==
  /\ \A i \in DOMAIN queue :
       /\ queue[i] \in DOMAIN calls /\ running < queue[i]
       /\ Exclusive(calls, queue[i]) /\ calls[queue[i]].outcome = "queued"
  /\ \A i, j \in DOMAIN queue : i < j => queue[i] < queue[j]
  /\ \A k \in DOMAIN calls : calls[k].outcome = "queued" => \E i \in DOMAIN queue : queue[i] = k
  /\ \A k \in DOMAIN calls : Exclusive(calls, k) /\ calls[k].outcome = "posted" => k = running
  /\ running # 0 => Exclusive(calls, running)

(* No call takes a turn after the arm, which finds every snapshot loaded.   *)
ArmIsLast ==
  \A k \in DOMAIN calls : calls[k].op = "lspArm" =>
    /\ step \in {"arm", "serving", "failed"} /\ loads = Snapshots
    /\ \A j \in DOMAIN calls : Exclusive(calls, j) => j <= k

(* The steps of the boot, and what it awaits.                               *)
BootOrder ==
  /\ step \in {"preparing", "boot"} => loads = 0
  /\ step \in {"prefetch", "load"} => loads < Snapshots
  /\ step \in {"loaded", "warm", "files", "write", "hook", "arm"} => loads = Snapshots
  /\ step = "boot" => awaits # 0 /\ calls[awaits].op = "boot"
  /\ step = "arm" => awaits # 0 /\ calls[awaits].op = "lspArm"
  /\ \A k \in DOMAIN calls : calls[k].op = "boot" => calls[k].early
  /\ dead = detached /\ (detached => timer = "off")

(* What is on its way is of a call that is posted; so is the worker's job.  *)
Posted(cs, k) == k = 0 \/ (k \in DOMAIN cs /\ cs[k].outcome = "posted")
Sent ==
  /\ \A i \in DOMAIN toWorker :
       LET m == toWorker[i]
       IN  Posted(calls, m.call) /\ (IF m.op = "lsp" THEN m.call = 0 ELSE m.call # 0 /\ calls[m.call].op = m.op)
  /\ \A i \in DOMAIN toPage : Posted(calls, toPage[i].call)
  /\ w.job.call <= Len(calls)
  /\ ~detached => Posted(calls, w.job.call) /\ (w.job # NoJob => calls[w.job.call].op = w.job.op)
  /\ detached => toPage = <<>>

(* A call is in one place: on its way there, the worker's job, on its way   *)
(* back.                                                                    *)
Once ==
  /\ \A i, j \in DOMAIN toWorker : i # j /\ toWorker[i].call = toWorker[j].call => toWorker[i].call = 0
  /\ \A i, j \in DOMAIN toPage : i # j /\ toPage[i].call = toPage[j].call => toPage[i].call = 0
  /\ \A i \in DOMAIN toWorker, j \in DOMAIN toPage : toWorker[i].call = toPage[j].call => toWorker[i].call = 0
  /\ \A i \in DOMAIN toWorker : toWorker[i].call = w.job.call => w.job.call = 0
  /\ \A j \in DOMAIN toPage : toPage[j].call = w.job.call => w.job.call = 0

(* The worker's state says who owns its runtime.                            *)
Owner(x) ==
  /\ x.job.op = "none" <=> x.job.call = 0
  /\ x.state = "booting" <=> x.job.op = "boot"
  /\ x.state = "compiling" <=> x.job.op \in {"compile", "loadSnapshot"}
  /\ x.resident => x.armed
  /\ x.armed => x.state \notin {"idle", "booting"}

(* Its runtime has booted before any call that is not early is made.        *)
Booted == w.state \notin {"idle", "booting"}
HasBooted ==
  /\ step \notin {"preparing", "boot", "failed"} => Booted
  /\ \A k \in DOMAIN calls : Exclusive(calls, k) /\ ~calls[k].early => Booted
  /\ \A k \in DOMAIN calls : calls[k].op = "boot" /\ calls[k].outcome = "done" => Booted
  /\ \A i \in DOMAIN toPage :
       toPage[i].kind = "result" /\ toPage[i].call # 0 /\ calls[toPage[i].call].op = "boot" => Booted

(* It is armed in the arm's turn, and only then is it watched.              *)
Armed ==
  /\ w.armed => running # 0 /\ calls[running].op = "lspArm" /\ w.job = NoJob
  /\ timer # "off" => w.armed
  /\ \A k \in DOMAIN calls : calls[k].op = "lspArm" /\ calls[k].outcome = "done" => w.armed
  /\ \A i \in DOMAIN toPage :
       /\ toPage[i].kind = "beat" => w.armed
       /\ toPage[i].kind = "result" /\ toPage[i].call # 0 /\ calls[toPage[i].call].op = "lspArm" => w.armed

(* A runtime that is dead has told so, before it refuses anything.          *)
DeadIsTold ==
  /\ w.state = "dead" /\ ~detached => \E i \in DOMAIN toPage : toPage[i].kind = "fatal"
  /\ \A j \in DOMAIN toPage :
       toPage[j].code = "BAD_STATE" /\ toPage[j].call # 0 /\ ~calls[toPage[j].call].early
         => \E i \in DOMAIN toPage : i < j /\ toPage[i].kind = "fatal"

(* The inductive invariant.                                                 *)
IInv ==
  /\ TypeOK /\ TurnsInOrder /\ ArmIsLast /\ BootOrder /\ Sent /\ Once
  /\ Owner(w) /\ HasBooted /\ Armed /\ DeadIsTold /\ RefusesNoneBooted

-----------------------------------------------------------------------------
(* What every handler of the worker keeps, when `k` is the call in hand: it *)
(* posts no beat and answers only that call, once, and says so when the     *)
(* runtime dies.                                                            *)
Answers(k, out) ==
  /\ out \in Seq(Posts)
  /\ \A i \in DOMAIN out : out[i].call \in {0, k} /\ out[i].kind # "beat"
  /\ \A i, j \in DOMAIN out : i # j /\ out[i].call = out[j].call => out[i].call = 0

Keeps(x, k, r) ==
  /\ r.w \in Workers /\ Owner(r.w) /\ Answers(k, r.out)
  /\ x.state \notin {"idle", "booting"} => r.w.state \notin {"idle", "booting"}
  /\ x.armed => r.w.armed
  /\ r.w.state = "dead" /\ x.state # "dead" => \E i \in DOMAIN r.out : r.out[i].kind = "fatal"

(* The messages that a handler posts.                                       *)
LEMMA PostsAre ==
  ASSUME NEW k \in Nat
  PROVE  /\ result(k) \in Posts /\ error(k) \in Posts /\ fatal(k) \in Posts /\ diedEvent \in Posts
         /\ refused(k, TRUE) \in Posts /\ refused(k, FALSE) \in Posts
         /\ result(k).call = k /\ error(k).call = k /\ fatal(k).call = k /\ diedEvent.call = 0
         /\ refused(k, TRUE).call = k /\ refused(k, FALSE).call = k
         /\ result(k).kind = "result" /\ error(k).kind = "error" /\ fatal(k).kind = "fatal" /\ diedEvent.kind = "died"
         /\ refused(k, TRUE).kind = "error" /\ refused(k, FALSE).kind = "fatal"
         /\ result(k).code = "none" /\ error(k).code = "none" /\ fatal(k).code = "none" /\ diedEvent.code = "none"
BY DEF Posts, Post, result, error, fatal, refused, diedEvent

(* No message, or one.                                                      *)
LEMMA OneAnswer ==
  ASSUME NEW k \in Nat
  PROVE  /\ Answers(k, <<>>)
         /\ \A m \in Posts : m.call \in {0, k} /\ m.kind # "beat" => Answers(k, <<m>>)
BY DEF Answers

(* Two runs of messages, of which the first answers no call.                *)
LEMMA TwoAnswers ==
  ASSUME NEW k \in Nat, NEW a, NEW b, Answers(0, a), Answers(k, b)
  PROVE  Answers(k, a \o b) /\ Answers(k, b \o a)
<1>1. /\ a \in Seq(Posts) /\ b \in Seq(Posts)
      /\ \A i \in DOMAIN a : a[i].call = 0 /\ a[i].kind # "beat"
      /\ \A i \in DOMAIN b : b[i].call \in {0, k} /\ b[i].kind # "beat"
      /\ \A i, j \in DOMAIN b : i # j /\ b[i].call = b[j].call => b[i].call = 0
  BY DEF Answers
<1>2. Answers(k, a \o b)
  <2> DEFINE c == a \o b
  <2>1. /\ c \in Seq(Posts) /\ DOMAIN c = 1..(Len(a) + Len(b)) /\ Len(a) \in Nat /\ Len(b) \in Nat
        /\ DOMAIN a = 1..Len(a) /\ DOMAIN b = 1..Len(b)
        /\ \A i \in DOMAIN c : c[i] = IF i <= Len(a) THEN a[i] ELSE b[i - Len(a)]
    BY <1>1, ConcatProperties, LenProperties
  <2> HIDE DEF c
  <2>2. \A i \in DOMAIN c : IF i <= Len(a) THEN i \in DOMAIN a /\ c[i] = a[i]
                            ELSE i - Len(a) \in DOMAIN b /\ c[i] = b[i - Len(a)]
    BY <2>1
  <2>3. \A i \in DOMAIN c : c[i].call \in {0, k} /\ c[i].kind # "beat"
    BY <1>1, <2>2
  <2>4. ASSUME NEW i \in DOMAIN c, NEW j \in DOMAIN c, i # j, c[i].call = c[j].call PROVE c[i].call = 0
    <3>1. i \in Int /\ j \in Int
      BY <2>1
    <3> QED BY <1>1, <2>1, <2>2, <2>4, <3>1
  <2> QED BY <2>1, <2>3, <2>4 DEF Answers, c
<1>3. Answers(k, b \o a)
  <2> DEFINE c == b \o a
  <2>1. /\ c \in Seq(Posts) /\ DOMAIN c = 1..(Len(b) + Len(a)) /\ Len(a) \in Nat /\ Len(b) \in Nat
        /\ DOMAIN a = 1..Len(a) /\ DOMAIN b = 1..Len(b)
        /\ \A i \in DOMAIN c : c[i] = IF i <= Len(b) THEN b[i] ELSE a[i - Len(b)]
    BY <1>1, ConcatProperties, LenProperties
  <2> HIDE DEF c
  <2>2. \A i \in DOMAIN c : IF i <= Len(b) THEN i \in DOMAIN b /\ c[i] = b[i]
                            ELSE i - Len(b) \in DOMAIN a /\ c[i] = a[i - Len(b)]
    BY <2>1
  <2>3. \A i \in DOMAIN c : c[i].call \in {0, k} /\ c[i].kind # "beat"
    BY <1>1, <2>2
  <2>4. ASSUME NEW i \in DOMAIN c, NEW j \in DOMAIN c, i # j, c[i].call = c[j].call PROVE c[i].call = 0
    <3>1. i \in Int /\ j \in Int
      BY <2>1
    <3> QED BY <1>1, <2>1, <2>2, <2>4, <3>1
  <2> QED BY <2>1, <2>3, <2>4 DEF Answers, c
<1> QED BY <1>2, <1>3

(* Messages that answer nothing well and refuse nothing.                    *)
Sorry(out) == out \in Seq(Posts) /\ \A i \in DOMAIN out : out[i].kind # "result" /\ out[i].code = "none"

(* Two runs of such messages are one.                                       *)
LEMMA SorryBoth == ASSUME NEW a, NEW b, Sorry(a), Sorry(b) PROVE Sorry(a \o b)
<1>1. /\ a \in Seq(Posts) /\ b \in Seq(Posts)
      /\ \A i \in DOMAIN a : a[i].kind # "result" /\ a[i].code = "none"
      /\ \A i \in DOMAIN b : b[i].kind # "result" /\ b[i].code = "none"
  BY DEF Sorry
<1> DEFINE c == a \o b
<1>2. /\ c \in Seq(Posts) /\ DOMAIN c = 1..(Len(a) + Len(b)) /\ Len(a) \in Nat /\ Len(b) \in Nat
      /\ DOMAIN a = 1..Len(a) /\ DOMAIN b = 1..Len(b)
      /\ \A i \in DOMAIN c : c[i] = IF i <= Len(a) THEN a[i] ELSE b[i - Len(a)]
  BY <1>1, ConcatProperties, LenProperties
<1> HIDE DEF c
<1>3. \A i \in DOMAIN c : IF i <= Len(a) THEN i \in DOMAIN a /\ c[i] = a[i]
                          ELSE i - Len(a) \in DOMAIN b /\ c[i] = b[i - Len(a)]
  BY <1>2
<1>4. \A i \in DOMAIN c : c[i].kind # "result" /\ c[i].code = "none"
  BY <1>1, <1>3
<1> QED BY <1>2, <1>4 DEF Sorry, c

(* die(): the loop is over, and nothing else changes.                       *)
LEMMA DieIs ==
  ASSUME NEW x \in Workers, Owner(x)
  PROVE  /\ Keeps(x, 0, die(x)) /\ die(x).w.job = x.job /\ die(x).w.armed = x.armed /\ die(x).w.state = x.state
         /\ \A i \in DOMAIN die(x).out : die(x).out[i] = diedEvent
<1> DEFINE d == [x EXCEPT !.died = TRUE, !.resident = FALSE]
<1>1. /\ d \in Workers /\ d.job = x.job /\ d.armed = x.armed /\ d.state = x.state /\ d.resident = FALSE
      /\ x.armed \in BOOLEAN
  BY DEF Workers
<1>2. Owner(d)
  BY <1>1 DEF Owner
<1>3. die(x) = IF x.died THEN To(x, <<>>) ELSE To(d, <<diedEvent>>)
  BY DEF die
<1> HIDE DEF d
<1>4. CASE x.died
  BY <1>1, <1>3, <1>4, OneAnswer DEF To, Keeps
<1>5. CASE ~x.died
  <2>1. Answers(0, <<diedEvent>>)
    BY OneAnswer, PostsAre
  <2> QED BY <1>1, <1>2, <1>3, <1>5, <2>1 DEF To, Keeps
<1> QED BY <1>4, <1>5

(* onAbort(): nobody owns the runtime, which is dead.                       *)
LEMMA AbortedIs ==
  ASSUME NEW x \in Workers, Owner(x)
  PROVE  /\ Keeps(x, x.job.call, aborted(x)) /\ Sorry(aborted(x).out)
         /\ aborted(x).w.job = NoJob /\ aborted(x).w.armed = x.armed
<1> DEFINE y == [x EXCEPT !.state = "dead", !.job = NoJob]
           d == die(y)
<1>1. /\ y \in Workers /\ y.job = NoJob /\ y.armed = x.armed /\ y.state = "dead" /\ y.resident = x.resident
      /\ x.armed \in BOOLEAN /\ x.job.call \in Nat
  BY DEF Workers, NoJob
<1>2. Owner(y)
  BY <1>1 DEF Owner, NoJob
<1>3. PICK k \in Nat : k = x.job.call
  BY <1>1
<1> HIDE DEF y
<1>a. \A i \in DOMAIN d.out : d.out[i] = diedEvent
  BY <1>1, <1>2, DieIs
<1>4. /\ d.w \in Workers /\ Owner(d.w) /\ Answers(0, d.out) /\ d.w.job = NoJob /\ d.w.armed = x.armed /\ d.w.state = "dead"
  BY <1>1, <1>2, DieIs DEF Keeps
<1>5. aborted(x) \in {To(d.w, <<fatal(k)>> \o d.out), To(d.w, <<fatal(0)>> \o d.out \o <<error(k)>>), To(d.w, <<fatal(0)>> \o d.out)}
  BY <1>3 DEF aborted, y
<1> HIDE DEF d
<1>6. PICK out : aborted(x) = To(d.w, out) /\ out \in {<<fatal(k)>> \o d.out, <<fatal(0)>> \o d.out \o <<error(k)>>, <<fatal(0)>> \o d.out}
  BY <1>5
<1>7. Answers(k, out) /\ \E i \in DOMAIN out : out[i].kind = "fatal"
  <2>0. /\ fatal(k) \in Posts /\ fatal(k).call = k /\ fatal(k).kind = "fatal"
        /\ fatal(0) \in Posts /\ fatal(0).call = 0 /\ fatal(0).kind = "fatal"
        /\ error(k) \in Posts /\ error(k).call = k /\ error(k).kind = "error"
    BY PostsAre
  <2>1. Answers(k, <<fatal(k)>>) /\ Answers(0, <<fatal(0)>>) /\ Answers(k, <<error(k)>>)
    BY <2>0, OneAnswer
  <2>2. /\ Answers(k, <<fatal(k)>> \o d.out) /\ Answers(0, <<fatal(0)>> \o d.out) /\ Answers(k, (<<fatal(0)>> \o d.out) \o <<error(k)>>)
    BY <1>4, <2>1, TwoAnswers
  <2>3. ASSUME Answers(0, <<fatal(0)>> \o d.out) PROVE Answers(k, <<fatal(0)>> \o d.out)
    BY <2>3 DEF Answers
  <2>4. d.out \in Seq(Posts) /\ <<fatal(0)>> \o d.out \in Seq(Posts) /\ <<error(k)>> \in Seq(Posts)
    BY <1>4, <2>1, <2>2 DEF Answers
  <2>5. /\ 1 \in DOMAIN (<<fatal(k)>> \o d.out) /\ (<<fatal(k)>> \o d.out)[1] = fatal(k)
        /\ 1 \in DOMAIN (<<fatal(0)>> \o d.out) /\ (<<fatal(0)>> \o d.out)[1] = fatal(0)
    BY <2>4
  <2>6. PICK a \in Seq(Posts) : a = <<fatal(0)>> \o d.out
    BY <2>4
  <2>7. 1 \in DOMAIN (a \o <<error(k)>>) /\ (a \o <<error(k)>>)[1] = fatal(0)
    BY <2>4, <2>5, <2>6
  <2>8. fatal(k).kind = "fatal" /\ fatal(0).kind = "fatal"
    BY PostsAre
  <2> QED BY <1>6, <2>2, <2>3, <2>5, <2>6, <2>7, <2>8
<1>8. aborted(x).w = d.w /\ aborted(x).out = out
  BY <1>6 DEF To
<1>9. Sorry(out)
  <2>1. diedEvent.kind = "died" /\ diedEvent.code = "none"
    BY PostsAre
  <2>2. Sorry(d.out)
    BY <1>a, <1>4, <2>1 DEF Sorry, Answers
  <2>3. Sorry(<<fatal(k)>>) /\ Sorry(<<fatal(0)>>) /\ Sorry(<<error(k)>>)
    <3>1. /\ fatal(k) \in Posts /\ fatal(k).kind = "fatal" /\ fatal(k).code = "none"
          /\ fatal(0) \in Posts /\ fatal(0).kind = "fatal" /\ fatal(0).code = "none"
          /\ error(k) \in Posts /\ error(k).kind = "error" /\ error(k).code = "none"
      BY PostsAre
    <3> QED BY <3>1 DEF Sorry
  <2>4. /\ Sorry(<<fatal(k)>> \o d.out) /\ Sorry(<<fatal(0)>> \o d.out) /\ Sorry((<<fatal(0)>> \o d.out) \o <<error(k)>>)
    BY <2>2, <2>3, SorryBoth
  <2> QED BY <1>6, <2>4
<1> QED BY <1>3, <1>4, <1>7, <1>8, <1>9 DEF Keeps

(* What a request may leave: the runtime with its owner or with the call    *)
(* as its new owner; it is refused for its owner's sake only while the      *)
(* runtime is not free; and an arm's result says that the worker is armed.  *)
Serves(x, op, k, r) ==
  /\ Keeps(x, k, r)
  /\ \/ r.w.job = x.job
     \/ /\ r.w.job = [op |-> op, call |-> k] /\ r.out = <<>> /\ x.job = NoJob /\ k # 0
        /\ (op = "boot" /\ x.state = "idle") \/ op \in {"compile", "loadSnapshot"}
  /\ r.w.armed # x.armed => op = "lspArm" /\ x.state = "ready"
  /\ op = "boot" => \A i \in DOMAIN r.out : r.out[i].kind # "result"
  /\ op = "lspArm" => \A i \in DOMAIN r.out : r.out[i].kind = "result" => r.w.armed
  /\ op # "boot" => \A i \in DOMAIN r.out : r.out[i].code = "BAD_STATE" =>
                      /\ op \in {"compile", "loadSnapshot", "lspArm"}
                      /\ x.state # "ready" \/ (op # "lspArm" /\ x.resident)

(* One message, the worker as it was.                                       *)
LEMMA Replies ==
  ASSUME NEW x \in Workers, Owner(x), NEW op, NEW k \in Nat, NEW m \in Posts, m.call \in {0, k}, m.kind # "beat",
         op = "boot" => m.kind # "result",
         op = "lspArm" /\ m.kind = "result" => x.armed,
         op # "boot" /\ m.code = "BAD_STATE" =>
           op \in {"compile", "loadSnapshot", "lspArm"} /\ (x.state # "ready" \/ (op # "lspArm" /\ x.resident))
  PROVE  Serves(x, op, k, To(x, <<m>>))
<1>1. Keeps(x, k, To(x, <<m>>))
  BY OneAnswer DEF Keeps, To
<1> QED BY <1>1 DEF Serves, To

(* The call owns the runtime.                                               *)
LEMMA Owns ==
  ASSUME NEW x \in Workers, Owner(x), NEW op \in {"boot", "compile", "loadSnapshot"}, NEW k \in Nat \ {0},
         op = "boot" => x.state = "idle", op # "boot" => x.state = "ready"
  PROVE  Serves(x, op, k, To(Owned(x, op, k), <<>>))
<1> DEFINE y == Owned(x, op, k)
<1>1. PICK state \in {"booting", "compiling"} : state = IF op = "boot" THEN "booting" ELSE "compiling"
  OBVIOUS
<1>2. PICK job \in [op : {"none", "boot", "compile", "loadSnapshot"}, call : Nat] : job = [op |-> op, call |-> k]
  OBVIOUS
<1>a. y = [x EXCEPT !.state = state, !.job = job] /\ job.op = op /\ job.call = k
  BY <1>1, <1>2 DEF Owned
<1>3. /\ y \in Workers /\ y.state = state /\ y.job = job
      /\ y.armed = x.armed /\ y.resident = x.resident /\ x.armed \in BOOLEAN
  <2>1. y.state = state /\ y.job = job /\ y.armed = x.armed /\ y.resident = x.resident
    BY <1>a DEF Workers
  <2>2. y \in Workers
    BY <1>1, <1>a DEF Workers
  <2>3. x.armed \in BOOLEAN
    BY DEF Workers
  <2> QED BY <2>1, <2>2, <2>3
<1> HIDE DEF y
<1>4. x.job = NoJob
  BY DEF Owner, NoJob, Workers
<1>5. Owner(y)
  BY <1>1, <1>a, <1>3 DEF Owner
<1>6. Keeps(x, k, To(y, <<>>))
  BY <1>1, <1>3, <1>5, OneAnswer DEF Keeps, To
<1> QED BY <1>2, <1>3, <1>4, <1>6 DEF Serves, To, y

(* The handlers.                                                            *)
LEMMA BootServes ==
  ASSUME NEW x \in Workers, Owner(x), NEW k \in Nat \ {0}, NEW r \in boot(x, k)
  PROVE  Serves(x, "boot", k, r)
<1>1. CASE x.state # "idle"
  <2>1. r = To(x, <<refused(k, TRUE)>>)
    BY <1>1 DEF boot
  <2>2. refused(k, TRUE) \in Posts /\ refused(k, TRUE).call = k /\ refused(k, TRUE).kind = "error"
    BY PostsAre
  <2> QED BY <2>1, <2>2, Replies
<1>2. CASE x.state = "idle" /\ r = To(Owned(x, "boot", k), <<>>)
  BY <1>2, Owns
<1>3. CASE x.state = "idle" /\ r = To(Freed(x, "dead"), <<fatal(k)>>)
  <2> DEFINE y == Freed(x, "dead")
  <2>1. /\ y \in Workers /\ y.state = "dead" /\ y.job = NoJob /\ y.armed = x.armed /\ y.resident = x.resident
        /\ x.armed \in BOOLEAN
    BY DEF Freed, Workers, NoJob
  <2> HIDE DEF y
  <2>2. x.job = NoJob /\ Owner(y)
    BY <1>3, <2>1 DEF Owner, NoJob, Workers
  <2>3. fatal(k) \in Posts /\ fatal(k).call = k /\ fatal(k).kind = "fatal"
    BY PostsAre
  <2>4. Answers(k, <<fatal(k)>>)
    BY <2>3, OneAnswer
  <2>5. Keeps(x, k, To(y, <<fatal(k)>>))
    BY <1>3, <2>1, <2>2, <2>3, <2>4 DEF Keeps, To
  <2> QED BY <1>3, <2>1, <2>2, <2>3, <2>5 DEF Serves, To, y
<1> QED BY <1>1, <1>2, <1>3 DEF boot

(* A compile is refused unless the runtime is free.                         *)
LEMMA CompileServes ==
  ASSUME NEW x \in Workers, Owner(x), NEW k \in Nat \ {0}, NEW r \in compile(x, k)
  PROVE  Serves(x, "compile", k, r)
<1>1. CASE x.resident \/ x.state # "ready"
  <2>1. PICK m \in {refused(k, TRUE), refused(k, FALSE)} : r = To(x, <<m>>)
    BY <1>1 DEF compile
  <2>a. /\ refused(k, TRUE) \in Posts /\ refused(k, TRUE).call = k /\ refused(k, TRUE).kind = "error"
        /\ refused(k, FALSE) \in Posts /\ refused(k, FALSE).call = k /\ refused(k, FALSE).kind = "fatal"
    BY PostsAre
  <2>2. m \in Posts /\ m.call = k /\ m.kind # "beat"
    BY <2>1, <2>a
  <2> QED BY <1>1, <2>1, <2>2, Replies
<1>2. CASE ~x.resident /\ x.state = "ready"
  <2>1. r = To(Owned(x, "compile", k), <<>>)
    BY <1>2 DEF compile
  <2> QED BY <1>2, <2>1, Owns
<1> QED BY <1>1, <1>2

(* So is the load of a snapshot.                                            *)
LEMMA LoadServes ==
  ASSUME NEW x \in Workers, Owner(x), NEW k \in Nat \ {0}, NEW r \in loadSnapshot(x, k)
  PROVE  Serves(x, "loadSnapshot", k, r)
<1>1. CASE x.resident \/ x.state # "ready"
  <2>1. r = To(x, <<refused(k, TRUE)>>)
    BY <1>1 DEF loadSnapshot
  <2>2. refused(k, TRUE) \in Posts /\ refused(k, TRUE).call = k /\ refused(k, TRUE).kind # "beat"
    BY PostsAre
  <2> QED BY <1>1, <2>1, <2>2, Replies
<1>2. CASE ~x.resident /\ x.state = "ready"
  <2>1. r = To(Owned(x, "loadSnapshot", k), <<>>)
    BY <1>2 DEF loadSnapshot
  <2> QED BY <1>2, <2>1, Owns
<1> QED BY <1>1, <1>2

(* Files are written or not; the runtime stays whose it is.                 *)
LEMMA WriteServes ==
  ASSUME NEW x \in Workers, Owner(x), NEW k \in Nat \ {0}, NEW r \in writeFiles(x, k)
  PROVE  Serves(x, "writeFiles", k, r)
<1>1. PICK m \in {result(k), fatal(k)} : r = To(x, <<m>>)
  BY DEF writeFiles
<1>a. /\ result(k) \in Posts /\ result(k).call = k /\ result(k).kind = "result" /\ result(k).code = "none"
      /\ fatal(k) \in Posts /\ fatal(k).call = k /\ fatal(k).kind = "fatal" /\ fatal(k).code = "none"
  BY PostsAre
<1>2. m \in Posts /\ m.call = k /\ m.kind # "beat" /\ m.code = "none"
  BY <1>1, <1>a
<1> QED BY <1>1, <1>2, Replies

(* The loop opens, or its failure to open is a death.                       *)
LEMMA OpenedIs ==
  ASSUME NEW x \in Workers, Owner(x), NEW r \in opened(x)
  PROVE  Keeps(x, 0, r) /\ r.w.job = x.job /\ r.w.armed = x.armed /\ r.w.state = x.state
         /\ \A i \in DOMAIN r.out : r.out[i] = diedEvent
<1>1. CASE r = die(x)
  BY <1>1, DieIs
<1>2. CASE r = To(x, <<>>)
  BY <1>2, OneAnswer DEF Keeps, To
<1>3. CASE x.armed /\ r = To([x EXCEPT !.resident = TRUE], <<>>)
  <2> DEFINE y == [x EXCEPT !.resident = TRUE]
  <2>1. y \in Workers /\ y.job = x.job /\ y.armed = x.armed /\ y.state = x.state /\ y.resident = TRUE
    BY DEF Workers
  <2>a. r = To(y, <<>>)
    BY <1>3
  <2> HIDE DEF y
  <2>2. Owner(y)
    BY <1>3, <2>1 DEF Owner
  <2>3. Keeps(x, 0, To(y, <<>>))
    BY <2>1, <2>2, OneAnswer DEF Keeps, To
  <2> QED BY <2>1, <2>a, <2>3 DEF To
<1> QED BY <1>1, <1>2, <1>3 DEF opened

(* A message of the client's; the first didOpen opens the loop.             *)
LEMMA LspServes ==
  ASSUME NEW x \in Workers, Owner(x), NEW r \in lsp(x)
  PROVE  Serves(x, "lsp", 0, r)
<1> DEFINE y == [x EXCEPT !.doc = TRUE]
<1>1. y \in Workers /\ y.job = x.job /\ y.armed = x.armed /\ y.state = x.state /\ y.resident = x.resident
  BY DEF Workers
<1>2. r \in opened(y)
  BY DEF lsp
<1> HIDE DEF y
<1>3. Owner(y)
  BY <1>1 DEF Owner
<1>4. Keeps(y, 0, r) /\ r.w.job = x.job /\ r.w.armed = x.armed /\ \A i \in DOMAIN r.out : r.out[i] = diedEvent
  BY <1>1, <1>2, <1>3, OpenedIs
<1>5. diedEvent.code = "none"
  BY PostsAre
<1> QED BY <1>1, <1>4, <1>5 DEF Serves, Keeps

(* The arm is refused unless the runtime is free.                           *)
LEMMA ArmServes ==
  ASSUME NEW x \in Workers, Owner(x), NEW k \in Nat \ {0}, NEW r \in lspArm(x, k)
  PROVE  Serves(x, "lspArm", k, r)
<1>1. CASE x.state # "ready"
  <2>1. PICK m \in {refused(k, TRUE), refused(k, FALSE)} : r = To(x, <<m>>)
    BY <1>1 DEF lspArm
  <2>a. /\ refused(k, TRUE) \in Posts /\ refused(k, TRUE).call = k /\ refused(k, TRUE).kind = "error"
        /\ refused(k, FALSE) \in Posts /\ refused(k, FALSE).call = k /\ refused(k, FALSE).kind = "fatal"
    BY PostsAre
  <2>2. m \in Posts /\ m.call = k /\ m.kind \notin {"beat", "result"}
    BY <2>1, <2>a
  <2> QED BY <1>1, <2>1, <2>2, Replies
<1>2. CASE x.state = "ready"
  <2> DEFINE y == [x EXCEPT !.armed = TRUE]
  <2>1. y \in Workers /\ y.job = x.job /\ y.armed = TRUE /\ y.state = x.state /\ y.resident = x.resident
    BY DEF Workers
  <2>2. PICK o \in opened(y) : r = To(o.w, Append(o.out, result(k)))
    BY <1>2 DEF lspArm
  <2> HIDE DEF y
  <2>3. Owner(y)
    BY <1>2, <2>1 DEF Owner
  <2>4. /\ Keeps(y, 0, o) /\ o.w.job = x.job /\ o.w.armed = TRUE /\ o.w.state = x.state
        /\ \A i \in DOMAIN o.out : o.out[i] = diedEvent
    BY <2>1, <2>2, <2>3, OpenedIs
  <2>5. o.out \in Seq(Posts) /\ result(k) \in Posts /\ result(k).call = k /\ result(k).kind # "beat" /\ result(k).code = "none"
        /\ diedEvent.code = "none"
    BY <2>4, PostsAre DEF Keeps, Answers
  <2>6. Append(o.out, result(k)) = o.out \o <<result(k)>>
    BY <2>5
  <2>7. Answers(k, <<result(k)>>) /\ Answers(0, o.out)
    BY <2>4, <2>5, OneAnswer DEF Keeps
  <2>8. Answers(k, o.out \o <<result(k)>>)
    BY <2>7, TwoAnswers
  <2>9. \A i \in DOMAIN Append(o.out, result(k)) : Append(o.out, result(k))[i].code = "none"
    BY <2>4, <2>5, AppendProperties
  <2>10. r.w = o.w /\ r.out = Append(o.out, result(k))
    BY <2>2 DEF To
  <2>11. Keeps(x, k, r)
    BY <1>2, <2>1, <2>4, <2>6, <2>8, <2>10 DEF Keeps
  <2> QED BY <1>2, <2>1, <2>4, <2>9, <2>10, <2>11 DEF Serves
<1> QED BY <1>1, <1>2

(* The message listener.                                                    *)
LEMMA ServedIs ==
  ASSUME NEW x \in Workers, Owner(x), NEW m \in Requests, m.op = "lsp" <=> m.call = 0, NEW r \in served(x, m)
  PROVE  Serves(x, m.op, m.call, r)
<1>1. m.call \in Nat /\ m.op \in {"compile", "loadSnapshot", "writeFiles", "boot", "lspArm", "telemetry", "lsp"}
  BY DEF Requests, RuntimeCalls
<1>2. CASE m.op = "lsp"
  BY <1>1, <1>2, LspServes DEF served
<1>3. CASE m.op = "boot"
  BY <1>1, <1>3, BootServes DEF served
<1>4. CASE m.op = "compile"
  BY <1>1, <1>4, CompileServes DEF served
<1>5. CASE m.op = "loadSnapshot"
  BY <1>1, <1>5, LoadServes DEF served
<1>6. CASE m.op = "writeFiles"
  BY <1>1, <1>6, WriteServes DEF served
<1>7. CASE m.op = "lspArm"
  BY <1>1, <1>7, ArmServes DEF served
<1>8. CASE m.op = "telemetry"
  <2>1. r = To(x, <<result(m.call)>>)
    BY <1>8 DEF served
  <2>2. result(m.call) \in Posts /\ result(m.call).call = m.call /\ result(m.call).kind = "result" /\ result(m.call).code = "none"
    BY <1>1, PostsAre
  <2> QED BY <1>1, <1>8, <2>1, <2>2, Replies
<1> QED BY <1>1, <1>2, <1>3, <1>4, <1>5, <1>6, <1>7, <1>8

(* A job ends, with its answer: nobody owns the runtime.                    *)
Ends(x, r) ==
  /\ Keeps(x, x.job.call, r) /\ r.w.job = NoJob /\ r.w.armed = x.armed
  /\ x.job.op \in {"boot", "compile", "loadSnapshot"} /\ x.job.call # 0
  /\ \A i \in DOMAIN r.out : r.out[i].code = "none" /\ (r.out[i].kind = "result" => r.w.state = "ready")

(* Whatever the job, it ends so.                                            *)
LEMMA JobEndsIs ==
  ASSUME NEW x \in Workers, Owner(x), x.job # NoJob, NEW r \in jobEnds(x)
  PROVE  Ends(x, r)
<1>1. PICK k \in Nat : k = x.job.call
  BY DEF Workers
<1>2. x.job.op \in {"boot", "compile", "loadSnapshot"} /\ k # 0
  <2>1. x.job \in [op : {"none", "boot", "compile", "loadSnapshot"}, call : Nat]
    BY DEF Workers
  <2> QED BY <1>1, <2>1 DEF Owner, NoJob
<1>3. /\ result(k) \in Posts /\ result(k).call = k /\ result(k).kind = "result" /\ result(k).code = "none"
      /\ error(k) \in Posts /\ error(k).call = k /\ error(k).kind = "error" /\ error(k).code = "none"
      /\ fatal(k) \in Posts /\ fatal(k).call = k /\ fatal(k).kind = "fatal" /\ fatal(k).code = "none"
  BY PostsAre
<1>4. ASSUME NEW state \in {"ready", "dead"}, NEW m \in {result(k), error(k), fatal(k)},
             (state = "dead") <=> (m.kind = "fatal"), r = To(Freed(x, state), <<m>>)
      PROVE  Ends(x, r)
  <2> DEFINE y == Freed(x, state)
  <2>1. /\ y \in Workers /\ y.job = NoJob /\ y.armed = x.armed /\ y.state = state /\ y.resident = x.resident
    BY DEF Freed, Workers, NoJob
  <2> HIDE DEF y
  <2>2. Owner(y)
    BY <2>1 DEF Owner, NoJob
  <2>3. m \in Posts /\ m.call = k /\ m.kind # "beat" /\ m.code = "none"
    BY <1>3, <1>4
  <2>4. Answers(k, <<m>>)
    BY <2>3, OneAnswer
  <2>5. r.w = y /\ r.out = <<m>>
    BY <1>4 DEF To, y
  <2>6. Keeps(x, k, r)
    BY <1>4, <2>1, <2>2, <2>4, <2>5 DEF Keeps
  <2>7. \A i \in DOMAIN r.out : r.out[i] = m
    BY <2>5
  <2> QED BY <1>1, <1>2, <1>3, <1>4, <2>1, <2>3, <2>5, <2>6, <2>7 DEF Ends
<1>5. CASE r = aborted(x)
  <2>1. Keeps(x, k, r) /\ r.w.job = NoJob /\ r.w.armed = x.armed
    BY <1>1, <1>5, AbortedIs
  <2>2. Sorry(r.out)
    BY <1>5, AbortedIs
  <2> QED BY <1>1, <1>2, <2>1, <2>2 DEF Ends, Sorry
<1>6. CASE r \in bootEnds(x)
  BY <1>1, <1>3, <1>4, <1>6 DEF bootEnds
<1>7. CASE r \in ownerEnds(x)
  BY <1>1, <1>3, <1>4, <1>5, <1>7 DEF ownerEnds
<1> QED BY <1>6, <1>7 DEF jobEnds

-----------------------------------------------------------------------------
(* One element more.                                                        *)
LEMMA AppendIs ==
  ASSUME NEW S, NEW s \in Seq(S), NEW e \in S
  PROVE  /\ Append(s, e) \in Seq(S) /\ Len(s) \in Nat /\ Len(Append(s, e)) = Len(s) + 1
         /\ DOMAIN s = 1..Len(s) /\ DOMAIN Append(s, e) = 1..(Len(s) + 1)
         /\ \A i \in DOMAIN s : i \in Int /\ i < Len(s) + 1 /\ i \in DOMAIN Append(s, e) /\ Append(s, e)[i] = s[i]
         /\ Append(s, e)[Len(s) + 1] = e
         /\ \A i \in DOMAIN Append(s, e) : i \in Int /\ (i \in DOMAIN s \/ i = Len(s) + 1)
<1>1. Len(s) \in Nat /\ DOMAIN s = 1..Len(s)
  BY LenProperties
<1>2. /\ Append(s, e) \in Seq(S) /\ Len(Append(s, e)) = Len(s) + 1 /\ DOMAIN Append(s, e) = 1..(Len(s) + 1)
      /\ \A i \in 1..Len(s) : Append(s, e)[i] = s[i]
      /\ Append(s, e)[Len(s) + 1] = e
  BY AppendProperties
<1> QED BY <1>1, <1>2

(* One element less, at the front.                                          *)
LEMMA TailIs ==
  ASSUME NEW S, NEW s \in Seq(S), s # <<>>
  PROVE  /\ Tail(s) \in Seq(S) /\ Head(s) \in S /\ Head(s) = s[1] /\ 1 \in DOMAIN s
         /\ \A i \in DOMAIN Tail(s) : i \in Int /\ i > 0 /\ i + 1 \in DOMAIN s /\ Tail(s)[i] = s[i + 1]
         /\ \A i \in DOMAIN s : i = 1 \/ (i \in Int /\ i > 1 /\ i - 1 \in DOMAIN Tail(s) /\ Tail(s)[i - 1] = s[i])
<1>1. Len(s) \in Nat \ {0} /\ DOMAIN s = 1..Len(s) /\ Len(Tail(s)) = Len(s) - 1 /\ Head(s) = s[1] /\ Tail(s) \in Seq(S)
  BY LenProperties, EmptySeq, HeadTailProperties
<1>2. DOMAIN Tail(s) = 1..(Len(s) - 1)
  BY <1>1, LenProperties
<1>3. \A i \in 1..(Len(s) - 1) : Tail(s)[i] = s[i + 1]
  BY <1>1, HeadTailProperties
<1>4. s[1] \in S
  BY <1>1, ElementOfSeq
<1>5. \A i \in DOMAIN Tail(s) : i \in Int /\ i > 0 /\ i + 1 \in DOMAIN s /\ Tail(s)[i] = s[i + 1]
  BY <1>1, <1>2, <1>3
<1>6. ASSUME NEW i \in DOMAIN s, i # 1 PROVE i \in Int /\ i > 1 /\ i - 1 \in DOMAIN Tail(s) /\ Tail(s)[i - 1] = s[i]
  <2>1. i \in Int /\ i > 1 /\ i - 1 \in 1..(Len(s) - 1) /\ (i - 1) + 1 = i
    BY <1>1, <1>6
  <2> QED BY <1>2, <1>3, <2>1
<1> QED BY <1>1, <1>4, <1>5, <1>6

(* The types of what is called, queued and on its way.                      *)
LEMMA SessionTypes ==
  ASSUME TypeOK
  PROVE  /\ Len(calls) \in Nat /\ DOMAIN calls = 1..Len(calls) /\ \A k \in DOMAIN calls : calls[k] \in CallRecords /\ k \in Nat \ {0}
         /\ DOMAIN queue = 1..Len(queue) /\ \A i \in DOMAIN queue : queue[i] \in Nat /\ i \in Nat \ {0}
         /\ \A i \in DOMAIN toWorker : toWorker[i] \in Requests /\ i \in Nat \ {0}
         /\ \A i \in DOMAIN toPage : toPage[i] \in Posts /\ i \in Nat \ {0}
         /\ running \in 0..Len(calls) /\ awaits \in 0..Len(calls) /\ probe \in 0..Len(calls)
         /\ w.job.call \in Nat
<1>1. /\ calls \in Seq(CallRecords) /\ queue \in Seq(Nat) /\ toWorker \in Seq(Requests) /\ toPage \in Seq(Posts)
      /\ running \in 0..Len(calls) /\ awaits \in 0..Len(calls) /\ probe \in 0..Len(calls) /\ w \in Workers
  BY DEF TypeOK
<1>2. Len(calls) \in Nat /\ DOMAIN calls = 1..Len(calls) /\ \A k \in 1..Len(calls) : calls[k] \in CallRecords
  BY <1>1, LenProperties, ElementOfSeq
<1>3. Len(queue) \in Nat /\ DOMAIN queue = 1..Len(queue) /\ \A k \in 1..Len(queue) : queue[k] \in Nat
  BY <1>1, LenProperties, ElementOfSeq
<1>4. Len(toWorker) \in Nat /\ DOMAIN toWorker = 1..Len(toWorker) /\ \A k \in 1..Len(toWorker) : toWorker[k] \in Requests
  BY <1>1, LenProperties, ElementOfSeq
<1>5. Len(toPage) \in Nat /\ DOMAIN toPage = 1..Len(toPage) /\ \A k \in 1..Len(toPage) : toPage[k] \in Posts
  BY <1>1, LenProperties, ElementOfSeq
<1>6. w.job.call \in Nat
  BY <1>1 DEF Workers
<1> QED BY <1>1, <1>2, <1>3, <1>4, <1>5, <1>6

-----------------------------------------------------------------------------
(* The boot takes a step by itself.                                         *)
LEMMA GoToIInv ==
  ASSUME IInv, UNCHANGED <<calls, turnVars, lifeVars, probe, frozen, clientDoc, workerVars, toWorker, toPage>>,
         step' \in Steps \ {"preparing", "boot", "arm"}, awaits' = 0, loads' \in 0..Snapshots, timer' \in {timer, "loss"},
         step' \in {"prefetch", "load"} => loads' < Snapshots,
         step' \in {"loaded", "warm", "files", "write", "hook"} => loads' = Snapshots,
         step' # "failed" => Booted,
         timer' # timer => ~detached /\ w.armed,
         (\E k \in DOMAIN calls : calls[k].op = "lspArm") => step' \in {"serving", "failed"} /\ loads' = Snapshots
  PROVE  IInv'
<1>1. UNCHANGED <<calls, queue, running, dead, reported, detached, probe, frozen, clientDoc, w, gone, toWorker, toPage>>
  BY DEF turnVars, lifeVars, workerVars
<1>2. TypeOK'
  <2>1. awaits' \in 0..Len(calls)  BY SessionTypes DEF IInv
  <2>2. step' \in Steps /\ timer' \in {"off", "loss", "probe"}  BY DEF IInv, TypeOK
  <2> QED BY <1>1, <2>1, <2>2 DEF IInv, TypeOK
<1>3. TurnsInOrder' /\ Sent' /\ Once' /\ Owner(w)' /\ DeadIsTold' /\ RefusesNoneBooted'
  <2>1. TurnsInOrder' /\ Sent' /\ Once'
    BY <1>1 DEF IInv, TurnsInOrder, Exclusive, Sent, Posted, Once
  <2>2. Owner(w)' /\ DeadIsTold' /\ RefusesNoneBooted'
    BY <1>1 DEF IInv, Owner, DeadIsTold, RefusesNoneBooted
  <2> QED BY <2>1, <2>2
<1>4. ArmIsLast'
  BY <1>1 DEF IInv, ArmIsLast, Exclusive
<1>5. BootOrder'
  BY <1>1 DEF IInv, BootOrder
<1>6. HasBooted'
  BY <1>1 DEF IInv, HasBooted, Booted, Exclusive
<1>7. Armed'
  BY <1>1 DEF IInv, Armed
<1> QED BY <1>2, <1>3, <1>4, <1>5, <1>6, <1>7 DEF IInv

(* A call is made.                                                          *)
LEMMA CallIs ==
  ASSUME IInv, NEW op \in RuntimeCalls \cup {"boot", "lspArm", "telemetry"}, NEW by \in {"boot", "page", "watch"},
         NEW outcome \in {"queued", "posted"}, calls' = Append(calls, Call(op, by, outcome))
  PROVE  /\ calls' \in Seq(CallRecords) /\ Len(calls') = Next1 /\ Next1 \in Nat /\ DOMAIN calls' = 1..Next1
         /\ \A k \in DOMAIN calls : k < Next1 /\ k \in DOMAIN calls' /\ calls'[k] = calls[k]
         /\ \A k \in DOMAIN calls' : k \in DOMAIN calls \/ k = Next1
         /\ Next1 \in DOMAIN calls' /\ Next1 \notin DOMAIN calls /\ Next1 # 0
         /\ calls'[Next1].op = op /\ calls'[Next1].outcome = outcome /\ calls'[Next1].code = "none"
         /\ calls'[Next1].early <=> step \in {"preparing", "boot"}
<1> DEFINE c == Call(op, by, outcome)
<1>1. PICK early \in BOOLEAN : early = (step \in {"preparing", "boot"})
  <2>1. (step \in {"preparing", "boot"}) \in BOOLEAN
    OBVIOUS
  <2> QED BY <2>1, Zenon
<1>2. c = [op |-> op, by |-> by, early |-> early, outcome |-> outcome, code |-> "none"]
  BY <1>1 DEF Call
<1>3. c \in CallRecords /\ c.op = op /\ c.outcome = outcome /\ c.code = "none" /\ c.early = early
  BY <1>2 DEF CallRecords, Outcomes
<1> HIDE DEF c
<1>4. calls' = Append(calls, c) /\ calls \in Seq(CallRecords)
  BY DEF c, IInv, TypeOK
<1>5. /\ Append(calls, c) \in Seq(CallRecords) /\ Len(calls) \in Nat /\ Len(Append(calls, c)) = Len(calls) + 1
      /\ DOMAIN calls = 1..Len(calls) /\ DOMAIN Append(calls, c) = 1..(Len(calls) + 1)
      /\ \A i \in DOMAIN calls : i \in Int /\ i < Len(calls) + 1 /\ i \in DOMAIN Append(calls, c) /\ Append(calls, c)[i] = calls[i]
      /\ Append(calls, c)[Len(calls) + 1] = c
      /\ \A i \in DOMAIN Append(calls, c) : i \in Int /\ (i \in DOMAIN calls \/ i = Len(calls) + 1)
  BY <1>3, <1>4, AppendIs
<1>6. calls'[Next1].early <=> step \in {"preparing", "boot"}
  BY <1>1, <1>3, <1>4, <1>5 DEF Next1
<1> QED BY <1>3, <1>4, <1>5, <1>6 DEF Next1

(* Nobody has armed before the boot's last step.                            *)
LEMMA NoArmBefore ==
  ASSUME IInv, step \notin {"arm", "serving", "failed"}
  PROVE  \A k \in DOMAIN calls : calls[k].op # "lspArm"
BY DEF IInv, ArmIsLast

(* A call of the boot or of the host joins the queue.                       *)
LEMMA QueuesIInv ==
  ASSUME IInv, NEW op \in RuntimeCalls \cup {"lspArm"}, NEW by \in {"boot", "page", "watch"},
         calls' = Append(calls, Call(op, by, "queued")), queue' = Append(queue, Next1), running' = running,
         UNCHANGED <<loads, lifeVars, timerVars, clientDoc, workerVars, toPage>>,
         toWorker' = toWorker \/ toWorker' = Append(toWorker, [op |-> "lsp", call |-> 0]),
         step \notin {"arm", "serving", "failed"}, op = "lspArm" => step' = "arm" /\ loads = Snapshots,
         \/ step' = step /\ awaits' = awaits
         \/ /\ step' \in {"load", "warm", "write", "arm"} /\ awaits' = Next1
            /\ (step' = "arm" => op = "lspArm") /\ step \notin {"preparing", "boot"}
            /\ (step' = "load" => loads < Snapshots) /\ (step' \in {"warm", "write"} => loads = Snapshots)
  PROVE  IInv'
<1>1. /\ UNCHANGED <<loads, dead, reported, detached, timer, probe, frozen, clientDoc, w, gone, toPage>>
      /\ queue' = Append(queue, Next1) /\ running' = running
  BY DEF lifeVars, timerVars, workerVars
<1>2. /\ calls' \in Seq(CallRecords) /\ Len(calls') = Next1 /\ Next1 \in Nat /\ DOMAIN calls' = 1..Next1
      /\ \A k \in DOMAIN calls : k < Next1 /\ k \in DOMAIN calls' /\ calls'[k] = calls[k]
      /\ \A k \in DOMAIN calls' : k \in DOMAIN calls \/ k = Next1
      /\ Next1 \in DOMAIN calls' /\ Next1 \notin DOMAIN calls /\ Next1 # 0
      /\ calls'[Next1].op = op /\ calls'[Next1].outcome = "queued" /\ calls'[Next1].code = "none"
      /\ calls'[Next1].early <=> step \in {"preparing", "boot"}
  BY CallIs
<1>3. /\ queue' \in Seq(Nat) /\ Len(queue) + 1 \in DOMAIN queue' /\ queue'[Len(queue) + 1] = Next1 /\ Len(queue) \in Nat
      /\ \A i \in DOMAIN queue : i \in Int /\ i < Len(queue) + 1 /\ i \in DOMAIN queue' /\ queue'[i] = queue[i]
      /\ \A i \in DOMAIN queue' : i \in Int /\ (i \in DOMAIN queue \/ i = Len(queue) + 1)
  <2>1. queue \in Seq(Nat)  BY DEF IInv, TypeOK
  <2> QED BY <1>1, <1>2, <2>1, AppendIs
<1>4. /\ toWorker' \in Seq(Requests)
      /\ \A i \in DOMAIN toWorker' :
           (i \in DOMAIN toWorker /\ toWorker'[i] = toWorker[i]) \/ (toWorker'[i].op = "lsp" /\ toWorker'[i].call = 0)
  <2> DEFINE m == [op |-> "lsp", call |-> 0]
  <2>1. toWorker \in Seq(Requests)  BY DEF IInv, TypeOK
  <2>2. m \in Requests /\ m.op = "lsp" /\ m.call = 0  BY DEF Requests
  <2>3. toWorker' = toWorker \/ toWorker' = Append(toWorker, m)  OBVIOUS
  <2> HIDE DEF m
  <2>4. /\ Append(toWorker, m) \in Seq(Requests) /\ Append(toWorker, m)[Len(toWorker) + 1] = m
        /\ \A i \in DOMAIN toWorker : Append(toWorker, m)[i] = toWorker[i]
        /\ \A i \in DOMAIN Append(toWorker, m) : i \in DOMAIN toWorker \/ i = Len(toWorker) + 1
    BY <2>1, <2>2, AppendIs
  <2> QED BY <2>1, <2>2, <2>3, <2>4
<1>5. /\ running \in 0..Len(calls) /\ awaits \in 0..Len(calls) /\ probe \in 0..Len(calls) /\ Len(calls) < Next1
      /\ (running # 0 => running \in DOMAIN calls) /\ (awaits # 0 => awaits \in DOMAIN calls)
      /\ \A i \in DOMAIN toPage : toPage[i].call = 0 \/ toPage[i].call \in DOMAIN calls
      /\ w.job.call \in Nat /\ w.job.call <= Len(calls) /\ Len(calls) \in Nat
  <2>1. \A i \in DOMAIN toPage : toPage[i].call = 0 \/ toPage[i].call \in DOMAIN calls
    BY DEF IInv, Sent, Posted
  <2>2. w.job.call <= Len(calls)  BY DEF IInv, Sent
  <2> QED BY <2>1, <2>2, SessionTypes DEF IInv, Next1
<1>6. TypeOK'
  <2>1. step' \in Steps /\ awaits' \in 0..Len(calls') /\ running' \in 0..Len(calls') /\ probe' \in 0..Len(calls')
    <3>1. step' \in Steps
      <4>1. step \in Steps  BY DEF IInv, TypeOK
      <4> QED BY <1>1, <4>1 DEF Steps
    <3> QED BY <1>1, <1>2, <1>5, <3>1
  <2> QED BY <1>1, <1>2, <1>3, <1>4, <2>1 DEF IInv, TypeOK
<1>7. TurnsInOrder'
  <2>1. ASSUME NEW i \in DOMAIN queue'
        PROVE  queue'[i] \in DOMAIN calls' /\ running' < queue'[i] /\ Exclusive(calls', queue'[i]) /\ calls'[queue'[i]].outcome = "queued"
    <3>1. CASE i \in DOMAIN queue
      <4>1. queue'[i] = queue[i] /\ queue[i] \in DOMAIN calls /\ running < queue[i] /\ Exclusive(calls, queue[i]) /\ calls[queue[i]].outcome = "queued"
        BY <1>3, <3>1 DEF IInv, TurnsInOrder
      <4> QED BY <1>1, <1>2, <4>1 DEF Exclusive
    <3>2. CASE i = Len(queue) + 1
      BY <1>1, <1>2, <1>3, <1>5, <3>2 DEF Exclusive
    <3> QED BY <1>3, <3>1, <3>2
  <2>2. ASSUME NEW i \in DOMAIN queue', NEW j \in DOMAIN queue', i < j PROVE queue'[i] < queue'[j]
    BY <1>2, <1>3, <2>2 DEF IInv, TurnsInOrder
  <2>3. ASSUME NEW k \in DOMAIN calls', calls'[k].outcome = "queued" PROVE \E i \in DOMAIN queue' : queue'[i] = k
    BY <1>2, <1>3, <2>3 DEF IInv, TurnsInOrder
  <2>4. ASSUME NEW k \in DOMAIN calls', Exclusive(calls', k), calls'[k].outcome = "posted" PROVE k = running'
    BY <1>1, <1>2, <2>4 DEF IInv, TurnsInOrder, Exclusive
  <2>5. running' # 0 => Exclusive(calls', running')
    BY <1>1, <1>2, <1>5 DEF IInv, TurnsInOrder, Exclusive
  <2> QED BY <2>1, <2>2, <2>3, <2>4, <2>5 DEF TurnsInOrder
<1>8. ArmIsLast'
  <2>1. ASSUME NEW k \in DOMAIN calls', calls'[k].op = "lspArm" PROVE k = Next1 /\ op = "lspArm"
    BY <1>2, <2>1, NoArmBefore
  <2>2. \A j \in DOMAIN calls' : j <= Next1
    BY <1>2
  <2> QED BY <1>1, <2>1, <2>2 DEF ArmIsLast
<1>9. BootOrder'
  <2>1. dead' = detached' /\ (detached' => timer' = "off")
    BY <1>1 DEF IInv, BootOrder
  <2>2. \A k \in DOMAIN calls' : calls'[k].op = "boot" => calls'[k].early
    BY <1>2 DEF IInv, BootOrder, RuntimeCalls
  <2>3. CASE step' = step /\ awaits' = awaits
    BY <1>1, <1>2, <1>5, <2>1, <2>2, <2>3 DEF IInv, BootOrder
  <2>4. CASE step' \in {"load", "warm", "write", "arm"} /\ awaits' = Next1 /\ (step' = "arm" => op = "lspArm")
             /\ (step' = "load" => loads < Snapshots) /\ (step' \in {"warm", "write"} => loads = Snapshots)
    BY <1>1, <1>2, <2>1, <2>2, <2>4 DEF BootOrder
  <2> QED BY <2>3, <2>4
<1>10. Sent'
  <2>1. \A k : Posted(calls, k) => Posted(calls', k)
    BY <1>2 DEF Posted
  <2>2. ASSUME NEW i \in DOMAIN toWorker'
        PROVE  Posted(calls', toWorker'[i].call) /\ (IF toWorker'[i].op = "lsp" THEN toWorker'[i].call = 0
                                              ELSE toWorker'[i].call # 0 /\ calls'[toWorker'[i].call].op = toWorker'[i].op)
    <3>1. CASE i \in DOMAIN toWorker /\ toWorker'[i] = toWorker[i]
      <4>1. Posted(calls, toWorker[i].call) /\ (IF toWorker[i].op = "lsp" THEN toWorker[i].call = 0
                                         ELSE toWorker[i].call # 0 /\ calls[toWorker[i].call].op = toWorker[i].op)
        BY <3>1 DEF IInv, Sent
      <4>2. toWorker[i].call # 0 => toWorker[i].call \in DOMAIN calls
        BY <4>1 DEF Posted
      <4> QED BY <1>2, <2>1, <3>1, <4>1, <4>2
    <3>2. CASE toWorker'[i].op = "lsp" /\ toWorker'[i].call = 0
      BY <3>2 DEF Posted
    <3> QED BY <1>4, <3>1, <3>2
  <2>3. /\ \A i \in DOMAIN toPage' : Posted(calls', toPage'[i].call)
        /\ detached' => toPage' = <<>>
    BY <1>1, <2>1 DEF IInv, Sent
  <2>4. /\ w'.job.call <= Len(calls')
        /\ ~detached' => Posted(calls', w'.job.call) /\ (w'.job # NoJob => calls'[w'.job.call].op = w'.job.op)
    <3>1. ~detached /\ w.job # NoJob => w.job.call \in DOMAIN calls
      BY SessionTypes DEF IInv, Sent, Posted, Owner, NoJob, TypeOK, Workers
    <3> QED BY <1>1, <1>2, <1>5, <2>1, <3>1 DEF IInv, Sent
  <2> QED BY <2>2, <2>3, <2>4 DEF Sent
<1>11. Once'
  BY <1>1, <1>4 DEF IInv, Once
<1>12. HasBooted'
  <2>1. /\ step' \notin {"preparing", "boot", "failed"} => Booted'
        /\ step \notin {"preparing", "boot"} => Booted'
    BY <1>1 DEF IInv, HasBooted, Booted
  <2>2. \A k \in DOMAIN calls' : Exclusive(calls', k) /\ ~calls'[k].early => Booted'
    BY <1>1, <1>2, <2>1 DEF IInv, HasBooted, Booted, Exclusive
  <2>3. \A k \in DOMAIN calls' : calls'[k].op = "boot" /\ calls'[k].outcome = "done" => Booted'
    BY <1>1, <1>2 DEF IInv, HasBooted, Booted
  <2>4. \A i \in DOMAIN toPage' :
          toPage'[i].kind = "result" /\ toPage'[i].call # 0 /\ calls'[toPage'[i].call].op = "boot" => Booted'
    BY <1>1, <1>2, <1>5 DEF IInv, HasBooted, Booted
  <2> QED BY <2>1, <2>2, <2>3, <2>4 DEF HasBooted
<1>13. Armed'
  <2>1. ~w.armed
    <3>1. w.armed => running # 0 /\ calls[running].op = "lspArm"
      BY DEF IInv, Armed
    <3> QED BY <1>5, <3>1, NoArmBefore
  <2>2. timer' = "off" /\ \A k \in DOMAIN calls' : ~(calls'[k].op = "lspArm" /\ calls'[k].outcome = "done")
    BY <1>1, <1>2, <2>1 DEF IInv, Armed
  <2>3. \A i \in DOMAIN toPage' :
          toPage'[i].kind # "beat" /\ ~(toPage'[i].kind = "result" /\ toPage'[i].call # 0 /\ calls'[toPage'[i].call].op = "lspArm")
    BY <1>1, <1>2, <1>5, <2>1 DEF IInv, Armed
  <2> QED BY <1>1, <2>1, <2>2, <2>3 DEF Armed
<1>14. Owner(w)' /\ DeadIsTold' /\ RefusesNoneBooted'
  <2>1. Owner(w)'
    BY <1>1 DEF IInv, Owner
  <2>2. DeadIsTold'
    BY <1>1, <1>2, <1>5 DEF IInv, DeadIsTold
  <2>3. RefusesNoneBooted'
    BY <1>2 DEF IInv, RefusesNoneBooted
  <2> QED BY <2>1, <2>2, <2>3
<1> QED BY <1>6, <1>7, <1>8, <1>9, <1>10, <1>11, <1>12, <1>13, <1>14 DEF IInv

(* A call goes out at once: the boot's first, or a probe.                   *)
LEMMA RequestIInv ==
  ASSUME IInv, NEW op \in {"boot", "telemetry"}, NEW by \in {"boot", "watch"}, request(op, by),
         UNCHANGED <<loads, lifeVars, clientDoc, workerVars, toPage>>,
         \/ op = "boot" /\ step = "preparing" /\ step' = "boot" /\ awaits' = Next1 /\ UNCHANGED timerVars
         \/ op = "telemetry" /\ UNCHANGED <<step, awaits>> /\ timer = "loss" /\ timer' = "probe" /\ probe' = Next1 /\ frozen' = FALSE
  PROVE  IInv'
<1>0. calls' = Append(calls, Call(op, by, "posted")) /\ toWorker' = Append(toWorker, [op |-> op, call |-> Next1]) /\ UNCHANGED turnVars
  BY DEF request
<1>1. UNCHANGED <<queue, running, loads, dead, reported, detached, clientDoc, w, gone, toPage>>
  BY <1>0 DEF lifeVars, workerVars, turnVars
<1>a. \/ op = "boot" /\ step = "preparing" /\ step' = "boot" /\ awaits' = Next1 /\ UNCHANGED <<timer, probe, frozen>>
      \/ op = "telemetry" /\ UNCHANGED <<step, awaits>> /\ timer = "loss" /\ timer' = "probe" /\ probe' = Next1 /\ frozen' = FALSE
  BY DEF timerVars
<1>2. /\ calls' \in Seq(CallRecords) /\ Len(calls') = Next1 /\ Next1 \in Nat /\ DOMAIN calls' = 1..Next1
      /\ \A k \in DOMAIN calls : k < Next1 /\ k \in DOMAIN calls' /\ calls'[k] = calls[k]
      /\ \A k \in DOMAIN calls' : k \in DOMAIN calls \/ k = Next1
      /\ Next1 \in DOMAIN calls' /\ Next1 \notin DOMAIN calls /\ Next1 # 0
      /\ calls'[Next1].op = op /\ calls'[Next1].outcome = "posted" /\ calls'[Next1].code = "none"
      /\ calls'[Next1].early <=> step \in {"preparing", "boot"}
  BY <1>0, CallIs
<1>3. /\ toWorker' \in Seq(Requests) /\ toWorker'[Len(toWorker) + 1].op = op /\ toWorker'[Len(toWorker) + 1].call = Next1
      /\ \A i \in DOMAIN toWorker : toWorker'[i] = toWorker[i]
      /\ \A i \in DOMAIN toWorker' : i \in DOMAIN toWorker \/ i = Len(toWorker) + 1
  <2> DEFINE m == [op |-> op, call |-> Next1]
  <2>1. toWorker \in Seq(Requests)  BY DEF IInv, TypeOK
  <2>2. m \in Requests /\ m.op = op /\ m.call = Next1  BY <1>2 DEF Requests
  <2>3. toWorker' = Append(toWorker, m)  BY <1>0
  <2> HIDE DEF m
  <2> QED BY <2>1, <2>2, <2>3, AppendIs
<1>5. /\ running \in 0..Len(calls) /\ awaits \in 0..Len(calls) /\ probe \in 0..Len(calls) /\ Len(calls) < Next1
      /\ (running # 0 => running \in DOMAIN calls) /\ (awaits # 0 => awaits \in DOMAIN calls)
      /\ \A i \in DOMAIN toPage : toPage[i].call = 0 \/ toPage[i].call \in DOMAIN calls
      /\ \A i \in DOMAIN toWorker : toWorker[i].call = 0 \/ toWorker[i].call \in DOMAIN calls
      /\ w.job.call \in Nat /\ w.job.call <= Len(calls) /\ Len(calls) \in Nat
      /\ \A i \in DOMAIN queue : queue[i] \in DOMAIN calls
  <2>1. /\ \A i \in DOMAIN toPage : toPage[i].call = 0 \/ toPage[i].call \in DOMAIN calls
        /\ \A i \in DOMAIN toWorker : toWorker[i].call = 0 \/ toWorker[i].call \in DOMAIN calls
        /\ \A i \in DOMAIN queue : queue[i] \in DOMAIN calls
    BY DEF IInv, Sent, Posted, TurnsInOrder
  <2>2. w.job.call <= Len(calls)  BY DEF IInv, Sent
  <2> QED BY <2>1, <2>2, SessionTypes DEF IInv, Next1
<1>6. TypeOK'
  <2>1. step' \in Steps /\ awaits' \in 0..Len(calls') /\ running' \in 0..Len(calls') /\ probe' \in 0..Len(calls')
    <3>1. step' \in Steps
      BY <1>a DEF IInv, TypeOK, Steps
    <3>2. Next1 \in 0..Next1 /\ \A i \in 0..Len(calls) : i \in 0..Next1
      BY <1>2, <1>5
    <3>3. /\ running' = running /\ awaits' \in {awaits, Next1} /\ probe' \in {probe, Next1}
      BY <1>1, <1>a
    <3>4. Len(calls') = Next1
      BY <1>2
    <3> QED BY <1>5, <3>1, <3>2, <3>3, <3>4
  <2>2. timer' \in {"off", "loss", "probe"} /\ frozen' \in BOOLEAN
    BY <1>a DEF IInv, TypeOK
  <2> QED BY <1>1, <1>2, <1>3, <2>1, <2>2 DEF IInv, TypeOK
<1>b. \A k \in DOMAIN calls' : Exclusive(calls', k) => k \in DOMAIN calls /\ Exclusive(calls, k)
  BY <1>2 DEF Exclusive, RuntimeCalls
<1>7. TurnsInOrder'
  <2>1. ASSUME NEW i \in DOMAIN queue'
        PROVE  queue'[i] \in DOMAIN calls' /\ running' < queue'[i] /\ Exclusive(calls', queue'[i]) /\ calls'[queue'[i]].outcome = "queued"
    BY <1>1, <1>2, <1>5 DEF IInv, TurnsInOrder, Exclusive
  <2>2. \A i, j \in DOMAIN queue' : i < j => queue'[i] < queue'[j]
    BY <1>1 DEF IInv, TurnsInOrder
  <2>3. ASSUME NEW k \in DOMAIN calls', calls'[k].outcome = "queued" PROVE \E i \in DOMAIN queue' : queue'[i] = k
    BY <1>1, <1>2, <2>3 DEF IInv, TurnsInOrder
  <2>4. ASSUME NEW k \in DOMAIN calls', Exclusive(calls', k), calls'[k].outcome = "posted" PROVE k = running'
    BY <1>1, <1>2, <1>b, <2>4 DEF IInv, TurnsInOrder
  <2>5. running' # 0 => Exclusive(calls', running')
    BY <1>1, <1>2, <1>5 DEF IInv, TurnsInOrder, Exclusive
  <2> QED BY <2>1, <2>2, <2>3, <2>4, <2>5 DEF TurnsInOrder
<1>8. ArmIsLast'
  <2>1. ASSUME NEW k \in DOMAIN calls', calls'[k].op = "lspArm"
        PROVE  k \in DOMAIN calls /\ calls[k].op = "lspArm" /\ op = "telemetry" /\ step' = step
    <3>1. k \in DOMAIN calls /\ calls[k].op = "lspArm"  BY <1>2, <2>1
    <3> QED BY <1>a, <3>1, NoArmBefore
  <2> QED BY <1>1, <1>2, <1>b, <2>1 DEF IInv, ArmIsLast
<1>9. BootOrder'
  <2>1. dead' = detached' /\ (detached' => timer' = "off")
    BY <1>1, <1>a DEF IInv, BootOrder
  <2>2. \A k \in DOMAIN calls' : calls'[k].op = "boot" => calls'[k].early
    BY <1>2, <1>a DEF IInv, BootOrder
  <2>3. CASE step' = step /\ awaits' = awaits
    BY <1>1, <1>2, <1>5, <2>1, <2>2, <2>3 DEF IInv, BootOrder
  <2>4. CASE step' = "boot" /\ op = "boot" /\ awaits' = Next1 /\ step = "preparing"
    BY <1>1, <1>2, <2>1, <2>2, <2>4 DEF IInv, BootOrder
  <2> QED BY <1>a, <2>3, <2>4
<1>10. Sent'
  <2>1. \A k : Posted(calls, k) => Posted(calls', k)
    BY <1>2 DEF Posted
  <2>2. ASSUME NEW i \in DOMAIN toWorker'
        PROVE  Posted(calls', toWorker'[i].call) /\ (IF toWorker'[i].op = "lsp" THEN toWorker'[i].call = 0
                                                     ELSE toWorker'[i].call # 0 /\ calls'[toWorker'[i].call].op = toWorker'[i].op)
    <3>1. CASE i \in DOMAIN toWorker
      <4>1. Posted(calls, toWorker[i].call) /\ (IF toWorker[i].op = "lsp" THEN toWorker[i].call = 0
                                                ELSE toWorker[i].call # 0 /\ calls[toWorker[i].call].op = toWorker[i].op)
        BY <3>1 DEF IInv, Sent
      <4>2. toWorker[i].call # 0 => toWorker[i].call \in DOMAIN calls
        BY <1>5, <3>1
      <4> QED BY <1>2, <1>3, <2>1, <3>1, <4>1, <4>2
    <3>2. CASE i = Len(toWorker) + 1
      BY <1>2, <1>3, <3>2 DEF Posted
    <3> QED BY <1>3, <3>1, <3>2
  <2>3. /\ \A i \in DOMAIN toPage' : Posted(calls', toPage'[i].call)
        /\ detached' => toPage' = <<>>
    BY <1>1, <2>1 DEF IInv, Sent
  <2>4. /\ w'.job.call <= Len(calls')
        /\ ~detached' => Posted(calls', w'.job.call) /\ (w'.job # NoJob => calls'[w'.job.call].op = w'.job.op)
    <3>1. ~detached /\ w.job # NoJob => w.job.call \in DOMAIN calls
      BY SessionTypes DEF IInv, Sent, Posted, Owner, NoJob, TypeOK, Workers
    <3> QED BY <1>1, <1>2, <1>5, <2>1, <3>1 DEF IInv, Sent
  <2> QED BY <2>2, <2>3, <2>4 DEF Sent
<1>11. Once'
  <2>1. \A i \in DOMAIN toWorker : toWorker[i].call # Next1
    BY <1>2, <1>5
  <2>2. \A i, j \in DOMAIN toWorker' : i # j /\ toWorker'[i].call = toWorker'[j].call => toWorker'[i].call = 0
    BY <1>3, <2>1 DEF IInv, Once
  <2>a. \A j \in DOMAIN toPage : toPage[j].call # Next1
    BY <1>2, <1>5
  <2>3. \A i \in DOMAIN toWorker', j \in DOMAIN toPage' : toWorker'[i].call = toPage'[j].call => toWorker'[i].call = 0
    BY <1>1, <1>3, <2>a DEF IInv, Once
  <2>4. \A i \in DOMAIN toWorker' : toWorker'[i].call = w'.job.call => w'.job.call = 0
    BY <1>1, <1>2, <1>3, <1>5 DEF IInv, Once
  <2> QED BY <1>1, <2>2, <2>3, <2>4 DEF IInv, Once
<1>12. HasBooted'
  <2>1. step' \notin {"preparing", "boot", "failed"} => Booted'
    BY <1>1, <1>a DEF IInv, HasBooted, Booted
  <2>2. \A k \in DOMAIN calls' : Exclusive(calls', k) /\ ~calls'[k].early => Booted'
    BY <1>1, <1>2, <1>b DEF IInv, HasBooted, Booted
  <2>3. \A k \in DOMAIN calls' : calls'[k].op = "boot" /\ calls'[k].outcome = "done" => Booted'
    BY <1>1, <1>2 DEF IInv, HasBooted, Booted
  <2>4. \A i \in DOMAIN toPage' :
          toPage'[i].kind = "result" /\ toPage'[i].call # 0 /\ calls'[toPage'[i].call].op = "boot" => Booted'
    BY <1>1, <1>2, <1>5 DEF IInv, HasBooted, Booted
  <2> QED BY <2>1, <2>2, <2>3, <2>4 DEF HasBooted
<1>13. Armed'
  <2>1. timer' # "off" => timer # "off"
    BY <1>a
  <2>2. w'.armed => running' # 0 /\ calls'[running'].op = "lspArm" /\ w'.job = NoJob
    BY <1>1, <1>2, <1>5 DEF IInv, Armed
  <2>3. \A k \in DOMAIN calls' : calls'[k].op = "lspArm" /\ calls'[k].outcome = "done" => w'.armed
    BY <1>1, <1>2 DEF IInv, Armed
  <2>4. \A i \in DOMAIN toPage' :
          /\ toPage'[i].kind = "beat" => w'.armed
          /\ toPage'[i].kind = "result" /\ toPage'[i].call # 0 /\ calls'[toPage'[i].call].op = "lspArm" => w'.armed
    BY <1>1, <1>2, <1>5 DEF IInv, Armed
  <2>5. timer' # "off" => w'.armed
    BY <1>1, <2>1 DEF IInv, Armed
  <2> QED BY <2>2, <2>3, <2>4, <2>5 DEF Armed
<1>14. Owner(w)' /\ DeadIsTold' /\ RefusesNoneBooted'
  <2>1. Owner(w)'
    BY <1>1 DEF IInv, Owner
  <2>2. DeadIsTold'
    BY <1>1, <1>2, <1>5 DEF IInv, DeadIsTold
  <2>3. RefusesNoneBooted'
    BY <1>2 DEF IInv, RefusesNoneBooted
  <2> QED BY <2>1, <2>2, <2>3
<1> QED BY <1>6, <1>7, <1>8, <1>9, <1>10, <1>11, <1>12, <1>13, <1>14 DEF IInv

(* The next one in the queue has its turn: the one before is over.          *)
LEMMA TakeTurnIInv == ASSUME IInv, TakeTurn PROVE IInv'
<1> DEFINE h == Head(queue)
           out == IF dead THEN "failed" ELSE "posted"
           new == [calls[h] EXCEPT !.outcome = out]
<1>1. /\ queue # <<>> /\ ~Waiting(running) /\ running' = h /\ queue' = Tail(queue)
      /\ UNCHANGED <<step, awaits, loads, dead, reported, detached, timer, probe, frozen, clientDoc, w, gone, toPage>>
  BY DEF TakeTurn, TurnIsFree, bootVars, lifeVars, timerVars, workerVars
<1>2. /\ Tail(queue) \in Seq(Nat) /\ h = queue[1] /\ 1 \in DOMAIN queue
      /\ \A i \in DOMAIN Tail(queue) : i \in Int /\ i > 0 /\ i + 1 \in DOMAIN queue /\ Tail(queue)[i] = queue[i + 1]
      /\ \A i \in DOMAIN queue : i = 1 \/ (i \in Int /\ i > 1 /\ i - 1 \in DOMAIN Tail(queue) /\ Tail(queue)[i - 1] = queue[i])
  <2>1. queue \in Seq(Nat)  BY DEF IInv, TypeOK
  <2> QED BY <1>1, <2>1, TailIs
<1>3. /\ h \in DOMAIN calls /\ h \in 1..Len(calls) /\ running < h /\ Exclusive(calls, h) /\ calls[h].outcome = "queued" /\ calls[h] \in CallRecords
      /\ h # 0 /\ calls \in Seq(CallRecords) /\ running \in Nat
  <2>1. h \in DOMAIN calls /\ running < h /\ Exclusive(calls, h) /\ calls[h].outcome = "queued"
    BY <1>2 DEF IInv, TurnsInOrder
  <2> QED BY <2>1, SessionTypes DEF IInv, TypeOK
<1>4. dead = detached
  BY DEF IInv, BootOrder
<1>5. PICK outcome \in {"failed", "posted"} : outcome = out
  OBVIOUS
<1>6. new \in CallRecords /\ new.op = calls[h].op /\ new.early = calls[h].early /\ new.code = calls[h].code /\ new.outcome = outcome
  <2>1. new = [calls[h] EXCEPT !.outcome = outcome]  BY <1>5
  <2> QED BY <1>3, <2>1 DEF CallRecords, Outcomes
<1>7. calls' = [calls EXCEPT ![h] = new]
  BY <1>3 DEF TakeTurn
<1>8. /\ calls' \in Seq(CallRecords) /\ Len(calls') = Len(calls) /\ DOMAIN calls' = DOMAIN calls /\ calls'[h] = new
      /\ \A k \in DOMAIN calls : k # h => calls'[k] = calls[k]
  <2> HIDE DEF new, h
  <2> QED BY <1>3, <1>6, <1>7
<1> HIDE DEF new
<1>a. \A k \in DOMAIN calls : calls'[k].op = calls[k].op /\ calls'[k].early = calls[k].early /\ calls'[k].code = calls[k].code
  BY <1>6, <1>8
<1>9. \A k \in DOMAIN calls : ~(Exclusive(calls, k) /\ calls[k].outcome = "posted")
  BY <1>1 DEF IInv, TurnsInOrder, Waiting
<1>10. /\ toWorker' \in Seq(Requests)
       /\ \A i \in DOMAIN toWorker : toWorker'[i] = toWorker[i]
       /\ \A i \in DOMAIN toWorker' : i \in DOMAIN toWorker \/
            (~detached /\ i = Len(toWorker) + 1 /\ toWorker'[i].op = calls[h].op /\ toWorker'[i].call = h)
  <2> DEFINE m == [op |-> calls[h].op, call |-> h]
  <2>1. toWorker \in Seq(Requests)  BY DEF IInv, TypeOK
  <2>2. m \in Requests /\ m.op = calls[h].op /\ m.call = h  BY <1>3 DEF Requests, Exclusive
  <2>3. toWorker' = IF detached THEN toWorker ELSE Append(toWorker, m)  BY <1>4 DEF TakeTurn
  <2> HIDE DEF m, h
  <2> QED BY <2>1, <2>2, <2>3, AppendIs
<1> HIDE DEF h, out
<1>11. ~w.armed
  <2>1. ASSUME w.armed PROVE FALSE
    <3>1. running \in DOMAIN calls /\ calls[running].op = "lspArm"
      BY <2>1, SessionTypes DEF IInv, Armed
    <3>2. h <= running
      BY <1>3, <3>1 DEF IInv, ArmIsLast
    <3> QED BY <1>3, <3>2, SessionTypes DEF IInv
  <2> QED BY <2>1
<1>12. TypeOK'
  <2>1. awaits \in 0..Len(calls) /\ probe \in 0..Len(calls) /\ running' \in 0..Len(calls)
    BY <1>1, <1>3, SessionTypes DEF IInv
  <2> QED BY <1>1, <1>2, <1>8, <1>10, <2>1 DEF IInv, TypeOK
<1>13. TurnsInOrder'
  <2>1. ASSUME NEW i \in DOMAIN queue'
        PROVE  queue'[i] \in DOMAIN calls' /\ running' < queue'[i] /\ Exclusive(calls', queue'[i]) /\ calls'[queue'[i]].outcome = "queued"
    <3>1. i + 1 \in DOMAIN queue /\ queue'[i] = queue[i + 1] /\ 1 < i + 1
      BY <1>1, <1>2
    <3>2. h < queue[i + 1]
      BY <1>2, <3>1 DEF IInv, TurnsInOrder
    <3>3. queue[i + 1] # h
      BY <1>3, <3>1, <3>2, SessionTypes DEF IInv
    <3> QED BY <1>1, <1>8, <3>1, <3>2, <3>3 DEF IInv, TurnsInOrder, Exclusive
  <2>2. ASSUME NEW i \in DOMAIN queue', NEW j \in DOMAIN queue', i < j PROVE queue'[i] < queue'[j]
    <3>1. i + 1 \in DOMAIN queue /\ queue'[i] = queue[i + 1] /\ j + 1 \in DOMAIN queue /\ queue'[j] = queue[j + 1] /\ i + 1 < j + 1
      BY <1>1, <1>2, <2>2
    <3> QED BY <3>1 DEF IInv, TurnsInOrder
  <2>3. ASSUME NEW k \in DOMAIN calls', calls'[k].outcome = "queued" PROVE \E i \in DOMAIN queue' : queue'[i] = k
    <3>1. k \in DOMAIN calls /\ k # h /\ calls[k].outcome = "queued"
      BY <1>6, <1>8, <2>3
    <3>2. PICK i \in DOMAIN queue : queue[i] = k
      BY <3>1 DEF IInv, TurnsInOrder
    <3> QED BY <1>1, <1>2, <3>1, <3>2
  <2>4. ASSUME NEW k \in DOMAIN calls', Exclusive(calls', k), calls'[k].outcome = "posted" PROVE k = running'
    BY <1>1, <1>8, <1>9, <2>4 DEF Exclusive
  <2>5. running' # 0 => Exclusive(calls', running')
    BY <1>1, <1>3, <1>a DEF Exclusive
  <2> QED BY <2>1, <2>2, <2>3, <2>4, <2>5 DEF TurnsInOrder
<1>14. ArmIsLast'
  BY <1>1, <1>8, <1>a DEF IInv, ArmIsLast, Exclusive
<1>15. BootOrder'
  <2>1. awaits # 0 => awaits \in DOMAIN calls
    BY SessionTypes DEF IInv
  <2> QED BY <1>1, <1>8, <1>a, <2>1 DEF IInv, BootOrder
<1>16. Sent'
  <2>1. \A k : Posted(calls, k) => Posted(calls', k)
    BY <1>3, <1>8 DEF Posted
  <2>2. ASSUME NEW i \in DOMAIN toWorker'
        PROVE  Posted(calls', toWorker'[i].call) /\ (IF toWorker'[i].op = "lsp" THEN toWorker'[i].call = 0
                                                     ELSE toWorker'[i].call # 0 /\ calls'[toWorker'[i].call].op = toWorker'[i].op)
    <3>1. CASE i \in DOMAIN toWorker
      <4>1. Posted(calls, toWorker[i].call) /\ (IF toWorker[i].op = "lsp" THEN toWorker[i].call = 0
                                                ELSE toWorker[i].call # 0 /\ calls[toWorker[i].call].op = toWorker[i].op)
        BY <3>1 DEF IInv, Sent
      <4>2. toWorker[i].call # 0 => toWorker[i].call \in DOMAIN calls
        BY <4>1 DEF Posted
      <4> QED BY <1>10, <1>a, <2>1, <3>1, <4>1, <4>2
    <3>2. CASE ~detached /\ toWorker'[i].op = calls[h].op /\ toWorker'[i].call = h
      <4>1. out = "posted"  BY <1>4, <3>2 DEF out
      <4>2. toWorker'[i].op # "lsp"  BY <1>3, <3>2 DEF Exclusive, RuntimeCalls
      <4> QED BY <1>3, <1>5, <1>6, <1>8, <3>2, <4>1, <4>2 DEF Posted
    <3> QED BY <1>10, <3>1, <3>2
  <2>3. /\ \A i \in DOMAIN toPage' : Posted(calls', toPage'[i].call)
        /\ detached' => toPage' = <<>>
    BY <1>1, <2>1 DEF IInv, Sent
  <2>4. /\ w'.job.call <= Len(calls')
        /\ ~detached' => Posted(calls', w'.job.call) /\ (w'.job # NoJob => calls'[w'.job.call].op = w'.job.op)
    <3>1. ~detached /\ w.job # NoJob => w.job.call \in DOMAIN calls
      BY SessionTypes DEF IInv, Sent, Posted, Owner, NoJob, TypeOK, Workers
    <3> QED BY <1>1, <1>8, <1>a, <2>1, <3>1 DEF IInv, Sent
  <2> QED BY <2>2, <2>3, <2>4 DEF Sent
<1>17. Once'
  <2>1. /\ \A i \in DOMAIN toWorker : toWorker[i].call # h
        /\ \A i \in DOMAIN toPage : toPage[i].call # h
        /\ ~detached => w.job.call # h
    BY <1>3 DEF IInv, Sent, Posted
  <2>2. \A i, j \in DOMAIN toWorker' : i # j /\ toWorker'[i].call = toWorker'[j].call => toWorker'[i].call = 0
    BY <1>10, <2>1 DEF IInv, Once
  <2>3. \A i \in DOMAIN toWorker', j \in DOMAIN toPage' : toWorker'[i].call = toPage'[j].call => toWorker'[i].call = 0
    BY <1>1, <1>10, <2>1 DEF IInv, Once
  <2>4. \A i \in DOMAIN toWorker' : toWorker'[i].call = w'.job.call => w'.job.call = 0
    BY <1>1, <1>10, <2>1 DEF IInv, Once
  <2> QED BY <1>1, <2>2, <2>3, <2>4 DEF IInv, Once
<1>18. HasBooted'
  <2>1. \A i \in DOMAIN toPage : toPage[i].call = 0 \/ toPage[i].call \in DOMAIN calls
    BY DEF IInv, Sent, Posted
  <2>2. step' \notin {"preparing", "boot", "failed"} => Booted'
    BY <1>1 DEF IInv, HasBooted, Booted
  <2>3. \A k \in DOMAIN calls' : Exclusive(calls', k) /\ ~calls'[k].early => Booted'
    BY <1>1, <1>8, <1>a DEF IInv, HasBooted, Booted, Exclusive
  <2>4. \A k \in DOMAIN calls' : calls'[k].op = "boot" /\ calls'[k].outcome = "done" => Booted'
    BY <1>1, <1>6, <1>8 DEF IInv, HasBooted, Booted
  <2>5. \A i \in DOMAIN toPage' :
          toPage'[i].kind = "result" /\ toPage'[i].call # 0 /\ calls'[toPage'[i].call].op = "boot" => Booted'
    BY <1>1, <1>a, <2>1 DEF IInv, HasBooted, Booted
  <2> QED BY <2>2, <2>3, <2>4, <2>5 DEF HasBooted
<1>19. Armed'
  <2>1. \A i \in DOMAIN toPage : toPage[i].call = 0 \/ toPage[i].call \in DOMAIN calls
    BY DEF IInv, Sent, Posted
  <2>2. timer' = "off" /\ \A k \in DOMAIN calls' : ~(calls'[k].op = "lspArm" /\ calls'[k].outcome = "done")
    BY <1>1, <1>6, <1>8, <1>11 DEF IInv, Armed
  <2>3. \A i \in DOMAIN toPage' :
          toPage'[i].kind # "beat" /\ ~(toPage'[i].kind = "result" /\ toPage'[i].call # 0 /\ calls'[toPage'[i].call].op = "lspArm")
    BY <1>1, <1>a, <1>11, <2>1 DEF IInv, Armed
  <2> QED BY <1>1, <1>11, <2>2, <2>3 DEF Armed
<1>20. Owner(w)' /\ DeadIsTold' /\ RefusesNoneBooted'
  <2>1. \A i \in DOMAIN toPage : toPage[i].call = 0 \/ toPage[i].call \in DOMAIN calls
    BY DEF IInv, Sent, Posted
  <2>2. Owner(w)'
    BY <1>1 DEF IInv, Owner
  <2>3. DeadIsTold'
    BY <1>1, <1>a, <2>1 DEF IInv, DeadIsTold
  <2>4. RefusesNoneBooted'
    BY <1>8, <1>a DEF IInv, RefusesNoneBooted
  <2> QED BY <2>2, <2>3, <2>4
<1> QED BY <1>12, <1>13, <1>14, <1>15, <1>16, <1>17, <1>18, <1>19, <1>20 DEF IInv

(* The client opens its document.                                           *)
LEMMA ClientOpensIInv == ASSUME IInv, ClientOpens PROVE IInv'
<1> DEFINE m == [op |-> "lsp", call |-> 0]
<1>1. /\ UNCHANGED <<calls, queue, running, step, awaits, loads, dead, reported, detached, timer, probe, frozen, w, gone, toPage>>
      /\ clientDoc' = TRUE /\ toWorker' = IF detached THEN toWorker ELSE Append(toWorker, m)
  BY DEF ClientOpens, turnVars, bootVars, lifeVars, timerVars, workerVars
<1>2. m \in Requests /\ m.op = "lsp" /\ m.call = 0
  BY DEF Requests
<1> HIDE DEF m
<1>3. /\ toWorker' \in Seq(Requests)
      /\ \A i \in DOMAIN toWorker' :
           (i \in DOMAIN toWorker /\ toWorker'[i] = toWorker[i]) \/ (toWorker'[i].op = "lsp" /\ toWorker'[i].call = 0)
  <2>1. toWorker \in Seq(Requests)  BY DEF IInv, TypeOK
  <2>2. /\ Append(toWorker, m) \in Seq(Requests) /\ Append(toWorker, m)[Len(toWorker) + 1] = m
        /\ \A i \in DOMAIN toWorker : Append(toWorker, m)[i] = toWorker[i]
        /\ \A i \in DOMAIN Append(toWorker, m) : i \in DOMAIN toWorker \/ i = Len(toWorker) + 1
    BY <1>2, <2>1, AppendIs
  <2> QED BY <1>1, <1>2, <2>1, <2>2
<1>4. TypeOK'
  BY <1>1, <1>3 DEF IInv, TypeOK
<1>5. TurnsInOrder' /\ ArmIsLast' /\ BootOrder'
  BY <1>1 DEF IInv, TurnsInOrder, Exclusive, ArmIsLast, BootOrder
<1>6. Sent'
  <2>1. \A i \in DOMAIN toWorker' :
          Posted(calls, toWorker'[i].call) /\ (IF toWorker'[i].op = "lsp" THEN toWorker'[i].call = 0
                                               ELSE toWorker'[i].call # 0 /\ calls[toWorker'[i].call].op = toWorker'[i].op)
    BY <1>3 DEF IInv, Sent, Posted
  <2> QED BY <1>1, <2>1 DEF IInv, Sent, Posted
<1>7. Once'
  BY <1>1, <1>3 DEF IInv, Once
<1>8. HasBooted' /\ Armed' /\ Owner(w)'
  BY <1>1 DEF IInv, HasBooted, Booted, Exclusive, Armed, Owner
<1>9. DeadIsTold' /\ RefusesNoneBooted'
  BY <1>1 DEF IInv, DeadIsTold, RefusesNoneBooted
<1> QED BY <1>4, <1>5, <1>6, <1>7, <1>8, <1>9 DEF IInv

(* A message settles its call, which was posted.                            *)
LEMMA SettleIs ==
  ASSUME IInv, NEW k, Posted(calls, k), NEW outcome \in {"done", "failed"}, NEW code \in {"none", "BAD_STATE"},
         NEW ds, ds = Settle(calls, k, outcome, code)
  PROVE  /\ ds \in Seq(CallRecords) /\ DOMAIN ds = DOMAIN calls /\ Len(ds) = Len(calls)
         /\ \A j \in DOMAIN calls : ds[j].op = calls[j].op /\ ds[j].early = calls[j].early
         /\ \A j \in DOMAIN calls : j # k => ds[j] = calls[j]
         /\ k # 0 => k \in DOMAIN calls /\ calls[k].outcome = "posted" /\ ds[k].outcome = outcome /\ ds[k].code = code
<1>1. calls \in Seq(CallRecords) /\ 0 \notin DOMAIN calls
  BY SessionTypes DEF IInv, TypeOK
<1>2. CASE k = 0
  BY <1>1, <1>2 DEF Settle
<1>3. CASE k # 0
  <2> DEFINE new == [calls[k] EXCEPT !.outcome = outcome, !.code = code]
  <2>1. k \in DOMAIN calls /\ calls[k].outcome = "posted" /\ calls[k] \in CallRecords /\ k \in 1..Len(calls)
    BY <1>3, SessionTypes DEF Posted, IInv
  <2>2. ds = [calls EXCEPT ![k] = new]
    BY <1>3, <2>1 DEF Settle
  <2>3. new \in CallRecords /\ new.op = calls[k].op /\ new.early = calls[k].early /\ new.outcome = outcome /\ new.code = code
    BY <2>1 DEF CallRecords, Outcomes
  <2> HIDE DEF new
  <2> QED BY <1>1, <1>3, <2>1, <2>2, <2>3
<1> QED BY <1>2, <1>3

(* The calls posted are rejected.                                           *)
LEMMA RejectIs ==
  ASSUME NEW cs \in Seq(CallRecords), NEW ds, ds = rejectAll(cs)
  PROVE  /\ ds \in Seq(CallRecords) /\ DOMAIN ds = DOMAIN cs /\ Len(ds) = Len(cs)
         /\ \A j \in DOMAIN cs : /\ ds[j].op = cs[j].op /\ ds[j].early = cs[j].early /\ ds[j].code = cs[j].code
                                 /\ ds[j].outcome = IF cs[j].outcome = "posted" THEN "failed" ELSE cs[j].outcome
<1> DEFINE new(j) == [cs[j] EXCEPT !.outcome = "failed"]
           one(j) == IF cs[j].outcome = "posted" THEN new(j) ELSE cs[j]
<1>1. Len(cs) \in Nat /\ DOMAIN cs = 1..Len(cs) /\ \A j \in DOMAIN cs : cs[j] \in CallRecords
  BY LenProperties, ElementOfSeq
<1>2. \A j \in DOMAIN cs : /\ new(j) \in CallRecords /\ new(j).op = cs[j].op /\ new(j).early = cs[j].early
                           /\ new(j).code = cs[j].code /\ new(j).outcome = "failed"
  BY <1>1 DEF CallRecords, Outcomes
<1>3. ds = [j \in 1..Len(cs) |-> one(j)]
  BY <1>1 DEF rejectAll
<1> HIDE DEF new
<1>4. \A j \in 1..Len(cs) : /\ one(j) \in CallRecords /\ one(j).op = cs[j].op /\ one(j).early = cs[j].early /\ one(j).code = cs[j].code
                            /\ one(j).outcome = IF cs[j].outcome = "posted" THEN "failed" ELSE cs[j].outcome
  BY <1>1, <1>2
<1> HIDE DEF one
<1>5. ds \in Seq(CallRecords) /\ DOMAIN ds = 1..Len(cs) /\ Len(ds) = Len(cs)
  BY <1>1, <1>3, <1>4
<1> QED BY <1>1, <1>3, <1>4, <1>5

(* The session is disposed of: nothing is heard of the worker any more.     *)
LEMMA CloseIInv ==
  ASSUME IInv, NEW cs \in Seq(CallRecords), DOMAIN cs = DOMAIN calls, Len(cs) = Len(calls),
         \A k \in DOMAIN calls : cs[k].op = calls[k].op /\ cs[k].early = calls[k].early,
         \A k \in DOMAIN calls :
           cs[k] = calls[k] \/ (calls[k].outcome = "posted" /\ cs[k].outcome = "failed" /\ (~calls[k].early => cs[k].code # "BAD_STATE")),
         Close, calls' = rejectAll(cs), reported' \in {"no", "crash", "error", "died", "heartbeat"},
         UNCHANGED <<turnVars, bootVars, clientDoc, workerVars>>
  PROVE  IInv'
<1>1. /\ UNCHANGED <<queue, running, step, awaits, loads, clientDoc, w, gone>>
      /\ dead' = TRUE /\ detached' = TRUE /\ toWorker' = <<>> /\ toPage' = <<>> /\ timer' = "off" /\ probe' = 0 /\ frozen' = FALSE
  BY DEF turnVars, bootVars, workerVars, Close
<1>2. /\ calls' \in Seq(CallRecords) /\ DOMAIN calls' = DOMAIN calls /\ Len(calls') = Len(calls)
      /\ \A k \in DOMAIN calls : /\ calls'[k].op = cs[k].op /\ calls'[k].early = cs[k].early /\ calls'[k].code = cs[k].code
                                 /\ calls'[k].outcome = IF cs[k].outcome = "posted" THEN "failed" ELSE cs[k].outcome
  BY RejectIs
<1>3. \A k \in DOMAIN calls :
        /\ calls'[k].op = calls[k].op /\ calls'[k].early = calls[k].early
        /\ calls'[k].outcome = IF calls[k].outcome = "posted" THEN "failed" ELSE calls[k].outcome
        /\ ~calls[k].early => calls'[k].code # "BAD_STATE"
  BY <1>2 DEF IInv, RefusesNoneBooted
<1>4. awaits \in 0..Len(calls) /\ running \in 0..Len(calls) /\ (awaits # 0 => awaits \in DOMAIN calls) /\ (running # 0 => running \in DOMAIN calls)
  BY SessionTypes DEF IInv
<1>5. TypeOK'
  <2>1. 0 \in 0..Len(calls)  BY SessionTypes DEF IInv
  <2>2. {running', awaits', probe'} \subseteq 0..Len(calls')  BY <1>1, <1>2, <1>4, <2>1
  <2>3. <<>> \in Seq(Requests) /\ <<>> \in Seq(Posts)  OBVIOUS
  <2>4. {dead', detached', frozen', clientDoc', gone'} \subseteq BOOLEAN /\ timer' \in {"off", "loss", "probe"}  BY <1>1 DEF IInv, TypeOK
  <2> QED BY <1>1, <1>2, <2>2, <2>3, <2>4 DEF IInv, TypeOK
<1>6. TurnsInOrder'
  BY <1>1, <1>2, <1>3, <1>4 DEF IInv, TurnsInOrder, Exclusive
<1>7. ArmIsLast' /\ BootOrder'
  BY <1>1, <1>2, <1>3, <1>4 DEF IInv, ArmIsLast, BootOrder, Exclusive
<1>8. Sent' /\ Once'
  BY <1>1, <1>2 DEF IInv, Sent, Once
<1>9. HasBooted'
  BY <1>1, <1>2, <1>3 DEF IInv, HasBooted, Booted, Exclusive
<1>10. Armed'
  BY <1>1, <1>2, <1>3, <1>4 DEF IInv, Armed
<1>11. Owner(w)' /\ DeadIsTold' /\ RefusesNoneBooted'
  BY <1>1, <1>2, <1>3 DEF IInv, Owner, DeadIsTold, RefusesNoneBooted
<1> QED BY <1>5, <1>6, <1>7, <1>8, <1>9, <1>10, <1>11 DEF IInv

(* The first message to the page, and those behind it.                      *)
LEMMA HeadIs ==
  ASSUME IInv, toPage # <<>>, NEW m, m = Head(toPage)
  PROVE  /\ m \in Posts /\ m = toPage[1] /\ 1 \in DOMAIN toPage /\ Posted(calls, m.call) /\ Tail(toPage) \in Seq(Posts)
         /\ \A i \in DOMAIN Tail(toPage) : /\ i \in Int /\ i > 0 /\ i + 1 \in DOMAIN toPage /\ Tail(toPage)[i] = toPage[i + 1]
                                           /\ Tail(toPage)[i].call = m.call => m.call = 0
         /\ \A i \in DOMAIN toPage : i = 1 \/ (i \in Int /\ i > 1 /\ i - 1 \in DOMAIN Tail(toPage) /\ Tail(toPage)[i - 1] = toPage[i])
         /\ m.code = "BAD_STATE" /\ m.call # 0 => calls[m.call].early
<1>1. toPage \in Seq(Posts)
  BY DEF IInv, TypeOK
<1>2. /\ Tail(toPage) \in Seq(Posts) /\ m \in Posts /\ m = toPage[1] /\ 1 \in DOMAIN toPage
      /\ \A i \in DOMAIN Tail(toPage) : i \in Int /\ i > 0 /\ i + 1 \in DOMAIN toPage /\ Tail(toPage)[i] = toPage[i + 1]
      /\ \A i \in DOMAIN toPage : i = 1 \/ (i \in Int /\ i > 1 /\ i - 1 \in DOMAIN Tail(toPage) /\ Tail(toPage)[i - 1] = toPage[i])
  BY <1>1, TailIs
<1>3. Posted(calls, m.call)
  BY <1>2 DEF IInv, Sent
<1>4. ASSUME NEW i \in DOMAIN Tail(toPage), Tail(toPage)[i].call = m.call PROVE m.call = 0
  <2>1. i + 1 \in DOMAIN toPage /\ toPage[i + 1].call = toPage[1].call /\ i + 1 # 1
    BY <1>2, <1>4
  <2>2. toPage[1].call = 0
    BY <1>2, <2>1 DEF IInv, Once
  <2> QED BY <1>2, <2>2
<1>5. ASSUME m.code = "BAD_STATE", m.call # 0, ~calls[m.call].early PROVE FALSE
  <2>1. PICK i \in DOMAIN toPage : i < 1
    BY <1>2, <1>5 DEF IInv, DeadIsTold
  <2> QED BY <2>1, SessionTypes DEF IInv
<1> QED BY <1>2, <1>3, <1>4, <1>5

(* A call is settled by its answer.                                         *)
LEMMA AnswerIInv ==
  ASSUME IInv, toPage # <<>>, ~detached, NEW m, m = Head(toPage), m.kind \in {"result", "error"}, toPage' = Tail(toPage),
         NEW outcome \in {"done", "failed"}, outcome = "done" => m.kind = "result",
         calls' \in Seq(CallRecords), DOMAIN calls' = DOMAIN calls, Len(calls') = Len(calls),
         \A j \in DOMAIN calls : calls'[j].op = calls[j].op /\ calls'[j].early = calls[j].early,
         \A j \in DOMAIN calls : j # m.call => calls'[j] = calls[j],
         m.call # 0 => m.call \in DOMAIN calls /\ calls[m.call].outcome = "posted" /\ calls'[m.call].outcome = outcome /\ calls'[m.call].code = m.code,
         UNCHANGED <<turnVars, bootVars, lifeVars, timerVars, clientDoc, workerVars, toWorker>>
  PROVE  IInv'
<1>1. UNCHANGED <<queue, running, step, awaits, loads, dead, reported, detached, timer, probe, frozen, clientDoc, w, gone, toWorker>>
  BY DEF turnVars, bootVars, lifeVars, timerVars, workerVars
<1>2. /\ m \in Posts /\ m = toPage[1] /\ 1 \in DOMAIN toPage /\ Posted(calls, m.call) /\ toPage' \in Seq(Posts)
      /\ \A i \in DOMAIN toPage' : /\ i \in Int /\ i > 0 /\ i + 1 \in DOMAIN toPage /\ toPage'[i] = toPage[i + 1]
                                   /\ toPage'[i].call = m.call => m.call = 0
      /\ \A i \in DOMAIN toPage : i = 1 \/ (i \in Int /\ i > 1 /\ i - 1 \in DOMAIN toPage' /\ toPage'[i - 1] = toPage[i])
      /\ m.code = "BAD_STATE" /\ m.call # 0 => calls[m.call].early
  BY HeadIs
<1>5. /\ calls' \in Seq(CallRecords) /\ DOMAIN calls' = DOMAIN calls /\ Len(calls') = Len(calls)
      /\ \A j \in DOMAIN calls : calls'[j].op = calls[j].op /\ calls'[j].early = calls[j].early
      /\ \A j \in DOMAIN calls : j # m.call => calls'[j] = calls[j]
      /\ m.call # 0 => m.call \in DOMAIN calls /\ calls[m.call].outcome = "posted" /\ calls'[m.call].outcome = outcome /\ calls'[m.call].code = m.code
  OBVIOUS
<1>6. /\ awaits \in 0..Len(calls) /\ running \in 0..Len(calls) /\ probe \in 0..Len(calls) /\ 0 \notin DOMAIN calls
      /\ (awaits # 0 => awaits \in DOMAIN calls) /\ (running # 0 => running \in DOMAIN calls)
      /\ \A i \in DOMAIN toPage : toPage[i].call = 0 \/ toPage[i].call \in DOMAIN calls
      /\ \A i \in DOMAIN toWorker : toWorker[i].call = 0 \/ toWorker[i].call \in DOMAIN calls
  <2>1. /\ \A i \in DOMAIN toPage : toPage[i].call = 0 \/ toPage[i].call \in DOMAIN calls
        /\ \A i \in DOMAIN toWorker : toWorker[i].call = 0 \/ toWorker[i].call \in DOMAIN calls
    BY DEF IInv, Sent, Posted
  <2> QED BY <2>1, SessionTypes DEF IInv
<1>a. \A k : Posted(calls, k) /\ (k = m.call => k = 0) => Posted(calls', k)
  BY <1>5 DEF Posted
<1>b. /\ TurnsInOrder /\ ArmIsLast /\ BootOrder /\ HasBooted /\ Armed /\ RefusesNoneBooted
  BY DEF IInv
<1>7. TypeOK'
  <2>1. {running', awaits', probe'} \subseteq 0..Len(calls')  BY <1>1, <1>5, <1>6
  <2> QED BY <1>1, <1>2, <1>5, <2>1 DEF IInv, TypeOK
<1>8. TurnsInOrder'
  <2>1. \A i \in DOMAIN queue : queue[i] # m.call
    BY <1>5, <1>6, <1>b DEF TurnsInOrder
  <2>2. \A k \in DOMAIN calls : calls'[k].outcome \in {"queued", "posted"} => calls'[k] = calls[k]
    BY <1>5
  <2>3. \A i \in DOMAIN queue' : queue'[i] \in DOMAIN calls' /\ running' < queue'[i] /\ Exclusive(calls', queue'[i]) /\ calls'[queue'[i]].outcome = "queued"
    BY <1>1, <1>5, <2>1, <1>b DEF TurnsInOrder, Exclusive
  <2>4. \A k \in DOMAIN calls' : calls'[k].outcome = "queued" => \E i \in DOMAIN queue' : queue'[i] = k
    BY <1>1, <1>5, <2>2, <1>b DEF TurnsInOrder
  <2>5. \A k \in DOMAIN calls' : Exclusive(calls', k) /\ calls'[k].outcome = "posted" => k = running'
    BY <1>1, <1>5, <2>2, <1>b DEF TurnsInOrder, Exclusive
  <2>6. /\ \A i, j \in DOMAIN queue' : i < j => queue'[i] < queue'[j]
        /\ running' # 0 => Exclusive(calls', running')
    BY <1>1, <1>5, <1>6, <1>b DEF TurnsInOrder, Exclusive
  <2> QED BY <2>3, <2>4, <2>5, <2>6 DEF TurnsInOrder
<1>9. ArmIsLast' /\ BootOrder'
  <2>1. ArmIsLast'
    <3>1. \A k \in DOMAIN calls : calls'[k].op = calls[k].op /\ (Exclusive(calls', k) <=> Exclusive(calls, k))
      BY <1>5 DEF Exclusive
    <3>2. DOMAIN calls' = DOMAIN calls
      BY <1>5
    <3> QED BY <1>1, <3>1, <3>2, <1>b DEF ArmIsLast
  <2>2. BootOrder'
    BY <1>1, <1>5, <1>6, <1>b DEF BootOrder
  <2> QED BY <2>1, <2>2
<1>10. Sent'
  <2>1. \A i \in DOMAIN toWorker : toWorker[i].call = m.call => toWorker[i].call = 0
    BY <1>2 DEF IInv, Once
  <2>2. ASSUME NEW i \in DOMAIN toWorker'
        PROVE  Posted(calls', toWorker'[i].call) /\ (IF toWorker'[i].op = "lsp" THEN toWorker'[i].call = 0
                                                     ELSE toWorker'[i].call # 0 /\ calls'[toWorker'[i].call].op = toWorker'[i].op)
    <3>1. i \in DOMAIN toWorker /\ toWorker'[i] = toWorker[i]
      BY <1>1
    <3>2. Posted(calls, toWorker[i].call) /\ (IF toWorker[i].op = "lsp" THEN toWorker[i].call = 0
                                              ELSE toWorker[i].call # 0 /\ calls[toWorker[i].call].op = toWorker[i].op)
      BY <3>1 DEF IInv, Sent
    <3> QED BY <1>5, <1>6, <1>a, <2>1, <3>1, <3>2
  <2>3. ASSUME NEW i \in DOMAIN toPage' PROVE Posted(calls', toPage'[i].call)
    <3>1. i + 1 \in DOMAIN toPage /\ toPage'[i] = toPage[i + 1] /\ (toPage'[i].call = m.call => toPage'[i].call = 0)
      BY <1>2
    <3>2. Posted(calls, toPage[i + 1].call)
      BY <3>1 DEF IInv, Sent
    <3> QED BY <1>a, <3>1, <3>2
  <2>4. /\ w'.job.call <= Len(calls')
        /\ ~detached' => Posted(calls', w'.job.call) /\ (w'.job # NoJob => calls'[w'.job.call].op = w'.job.op)
    <3>1. w.job.call = m.call => w.job.call = 0
      BY <1>2 DEF IInv, Once
    <3>2. w.job # NoJob => w.job.call \in DOMAIN calls
      BY SessionTypes DEF IInv, Sent, Posted, Owner, NoJob, TypeOK, Workers
    <3> QED BY <1>1, <1>5, <1>a, <3>1, <3>2 DEF IInv, Sent
  <2> QED BY <1>1, <2>2, <2>3, <2>4 DEF Sent
<1>11. Once'
  <2>1. ASSUME NEW i \in DOMAIN toPage', NEW j \in DOMAIN toPage', i # j, toPage'[i].call = toPage'[j].call PROVE toPage'[i].call = 0
    <3>1. i + 1 \in DOMAIN toPage /\ j + 1 \in DOMAIN toPage /\ i + 1 # j + 1 /\ toPage'[i] = toPage[i + 1] /\ toPage'[j] = toPage[j + 1]
      BY <1>2, <2>1
    <3> QED BY <2>1, <3>1 DEF IInv, Once
  <2>2. /\ \A i \in DOMAIN toWorker', j \in DOMAIN toPage' : toWorker'[i].call = toPage'[j].call => toWorker'[i].call = 0
        /\ \A j \in DOMAIN toPage' : toPage'[j].call = w'.job.call => w'.job.call = 0
    BY <1>1, <1>2 DEF IInv, Once
  <2> QED BY <1>1, <2>1, <2>2 DEF IInv, Once
<1>12. HasBooted'
  <2>1. step' \notin {"preparing", "boot", "failed"} => Booted'
    BY <1>1, <1>b DEF HasBooted, Booted
  <2>2. \A k \in DOMAIN calls' : Exclusive(calls', k) /\ ~calls'[k].early => Booted'
    BY <1>1, <1>5, <1>b DEF HasBooted, Booted, Exclusive
  <2>3. ASSUME NEW k \in DOMAIN calls', calls'[k].op = "boot", calls'[k].outcome = "done" PROVE Booted'
    <3>1. CASE k = m.call
      <4>1. m.kind = "result" /\ k # 0 /\ calls[k].op = "boot"
        BY <1>5, <1>6, <2>3, <3>1
      <4> QED BY <1>1, <1>2, <3>1, <4>1, <1>b DEF HasBooted, Booted
    <3>2. CASE k # m.call
      BY <1>1, <1>5, <2>3, <3>2, <1>b DEF HasBooted, Booted
    <3> QED BY <3>1, <3>2
  <2>4. \A i \in DOMAIN toPage' :
          toPage'[i].kind = "result" /\ toPage'[i].call # 0 /\ calls'[toPage'[i].call].op = "boot" => Booted'
    BY <1>1, <1>2, <1>5, <1>6, <1>b DEF HasBooted, Booted
  <2> QED BY <2>1, <2>2, <2>3, <2>4 DEF HasBooted
<1>13. Armed'
  <2>1. /\ w'.armed => running' # 0 /\ calls'[running'].op = "lspArm" /\ w'.job = NoJob
        /\ timer' # "off" => w'.armed
    BY <1>1, <1>5, <1>6, <1>b DEF Armed
  <2>2. ASSUME NEW k \in DOMAIN calls', calls'[k].op = "lspArm", calls'[k].outcome = "done" PROVE w'.armed
    <3>1. CASE k = m.call
      <4>1. m.kind = "result" /\ k # 0 /\ calls[k].op = "lspArm"
        BY <1>5, <1>6, <2>2, <3>1
      <4> QED BY <1>1, <1>2, <3>1, <4>1, <1>b DEF Armed
    <3>2. CASE k # m.call
      BY <1>1, <1>5, <2>2, <3>2, <1>b DEF Armed
    <3> QED BY <3>1, <3>2
  <2>3. \A i \in DOMAIN toPage' :
          /\ toPage'[i].kind = "beat" => w'.armed
          /\ toPage'[i].kind = "result" /\ toPage'[i].call # 0 /\ calls'[toPage'[i].call].op = "lspArm" => w'.armed
    BY <1>1, <1>2, <1>5, <1>6, <1>b DEF Armed
  <2> QED BY <2>1, <2>2, <2>3 DEF Armed
<1>14. DeadIsTold'
  <2>1. ASSUME w'.state = "dead", ~detached' PROVE \E i \in DOMAIN toPage' : toPage'[i].kind = "fatal"
    <3>1. PICK i \in DOMAIN toPage : toPage[i].kind = "fatal"
      BY <1>1, <2>1 DEF IInv, DeadIsTold
    <3>2. i # 1
      BY <1>2, <3>1
    <3>3. i - 1 \in DOMAIN toPage' /\ toPage'[i - 1] = toPage[i]
      BY <1>2, <3>2
    <3> QED BY <3>1, <3>3
  <2>2. ASSUME NEW j \in DOMAIN toPage', toPage'[j].code = "BAD_STATE", toPage'[j].call # 0, ~calls'[toPage'[j].call].early
        PROVE  \E i \in DOMAIN toPage' : i < j /\ toPage'[i].kind = "fatal"
    <3>1. j + 1 \in DOMAIN toPage /\ toPage'[j] = toPage[j + 1] /\ j \in Int /\ ~calls[toPage[j + 1].call].early
      BY <1>2, <1>5, <1>6, <2>2
    <3>2. PICK i \in DOMAIN toPage : i < j + 1 /\ toPage[i].kind = "fatal"
      BY <2>2, <3>1 DEF IInv, DeadIsTold
    <3>3. i # 1
      BY <1>2, <3>2
    <3>4. i \in Int /\ i - 1 \in DOMAIN toPage' /\ toPage'[i - 1] = toPage[i] /\ i - 1 < j
      BY <1>2, <3>1, <3>2, <3>3
    <3> QED BY <3>2, <3>4
  <2> QED BY <2>1, <2>2 DEF DeadIsTold
<1>15. Owner(w)' /\ RefusesNoneBooted'
  <2>1. Owner(w)'
    BY <1>1 DEF IInv, Owner
  <2>2. ASSUME NEW k \in DOMAIN calls', ~calls'[k].early PROVE calls'[k].code # "BAD_STATE"
    <3>1. CASE k = m.call
      BY <1>2, <1>5, <1>6, <2>2, <3>1
    <3>2. CASE k # m.call
      BY <1>5, <2>2, <3>2, <1>b DEF RefusesNoneBooted
    <3> QED BY <3>1, <3>2
  <2> QED BY <2>1, <2>2 DEF RefusesNoneBooted
<1> QED BY <1>7, <1>8, <1>9, <1>10, <1>11, <1>12, <1>13, <1>14, <1>15 DEF IInv

(* Only what is on its way to the page, or the watchdog, changes.           *)
LEMMA WatchIInv ==
  ASSUME IInv, UNCHANGED <<calls, turnVars, bootVars, lifeVars, clientDoc, workerVars, toWorker, toPage>>,
         timer' \in {"loss", "probe"}, timer # "off", probe' \in {0, probe}, frozen' \in BOOLEAN
  PROVE  IInv'
<1>1. UNCHANGED <<calls, queue, running, step, awaits, loads, dead, reported, detached, clientDoc, w, gone, toWorker, toPage>>
  BY DEF turnVars, bootVars, lifeVars, workerVars
<1>2. TypeOK'
  <2>1. probe' \in 0..Len(calls)  BY SessionTypes DEF IInv
  <2> QED BY <1>1, <2>1 DEF IInv, TypeOK
<1>3. TurnsInOrder' /\ ArmIsLast' /\ Sent' /\ Once'
  BY <1>1 DEF IInv, TurnsInOrder, ArmIsLast, Exclusive, Sent, Posted, Once
<1>4. BootOrder' /\ Armed'
  BY <1>1 DEF IInv, BootOrder, Armed
<1>5. HasBooted' /\ Owner(w)' /\ DeadIsTold' /\ RefusesNoneBooted'
  BY <1>1 DEF IInv, HasBooted, Booted, Exclusive, Owner, DeadIsTold, RefusesNoneBooted
<1> QED BY <1>2, <1>3, <1>4, <1>5 DEF IInv

(* A beat is heard.                                                         *)
LEMMA BeatIInv ==
  ASSUME IInv, toPage # <<>>, ~detached, Head(toPage).kind = "beat", toPage' = Tail(toPage),
         timer' = "loss", probe' = 0, frozen' = FALSE,
         UNCHANGED <<calls, turnVars, bootVars, lifeVars, clientDoc, workerVars, toWorker>>
  PROVE  IInv'
<1>1. UNCHANGED <<calls, queue, running, step, awaits, loads, dead, reported, detached, clientDoc, w, gone, toWorker>>
  BY DEF turnVars, bootVars, lifeVars, workerVars
<1>2. /\ toPage[1].kind = "beat" /\ 1 \in DOMAIN toPage /\ toPage' \in Seq(Posts)
      /\ \A i \in DOMAIN toPage' : i \in Int /\ i > 0 /\ i + 1 \in DOMAIN toPage /\ toPage'[i] = toPage[i + 1]
      /\ \A i \in DOMAIN toPage : i = 1 \/ (i \in Int /\ i > 1 /\ i - 1 \in DOMAIN toPage' /\ toPage'[i - 1] = toPage[i])
  BY HeadIs
<1>3. w.armed
  BY <1>2 DEF IInv, Armed
<1>4. TypeOK'
  <2>1. 0 \in 0..Len(calls)  BY SessionTypes DEF IInv
  <2> QED BY <1>1, <1>2, <2>1 DEF IInv, TypeOK
<1>5. TurnsInOrder' /\ ArmIsLast' /\ BootOrder'
  BY <1>1 DEF IInv, TurnsInOrder, ArmIsLast, Exclusive, BootOrder
<1>6. Sent'
  BY <1>1, <1>2 DEF IInv, Sent, Posted
<1>7. Once'
  <2>1. ASSUME NEW i \in DOMAIN toPage', NEW j \in DOMAIN toPage', i # j, toPage'[i].call = toPage'[j].call PROVE toPage'[i].call = 0
    <3>1. i + 1 \in DOMAIN toPage /\ j + 1 \in DOMAIN toPage /\ i + 1 # j + 1 /\ toPage'[i] = toPage[i + 1] /\ toPage'[j] = toPage[j + 1]
      BY <1>2, <2>1
    <3> QED BY <2>1, <3>1 DEF IInv, Once
  <2>2. /\ \A i \in DOMAIN toWorker', j \in DOMAIN toPage' : toWorker'[i].call = toPage'[j].call => toWorker'[i].call = 0
        /\ \A j \in DOMAIN toPage' : toPage'[j].call = w'.job.call => w'.job.call = 0
    BY <1>1, <1>2 DEF IInv, Once
  <2> QED BY <1>1, <2>1, <2>2 DEF IInv, Once
<1>8. HasBooted' /\ Owner(w)' /\ RefusesNoneBooted'
  BY <1>1, <1>2 DEF IInv, HasBooted, Booted, Exclusive, Owner, RefusesNoneBooted
<1>9. Armed'
  BY <1>1, <1>2, <1>3 DEF IInv, Armed
<1>10. DeadIsTold'
  <2>1. ASSUME w'.state = "dead", ~detached' PROVE \E i \in DOMAIN toPage' : toPage'[i].kind = "fatal"
    <3>1. PICK i \in DOMAIN toPage : toPage[i].kind = "fatal"
      BY <1>1, <2>1 DEF IInv, DeadIsTold
    <3>2. i # 1
      BY <1>2, <3>1
    <3>3. i - 1 \in DOMAIN toPage' /\ toPage'[i - 1] = toPage[i]
      BY <1>2, <3>2
    <3> QED BY <3>1, <3>3
  <2>2. ASSUME NEW j \in DOMAIN toPage', toPage'[j].code = "BAD_STATE", toPage'[j].call # 0, ~calls'[toPage'[j].call].early
        PROVE  \E i \in DOMAIN toPage' : i < j /\ toPage'[i].kind = "fatal"
    <3>1. j + 1 \in DOMAIN toPage /\ toPage'[j] = toPage[j + 1] /\ j \in Int /\ ~calls[toPage[j + 1].call].early
      BY <1>1, <1>2, <2>2
    <3>2. PICK i \in DOMAIN toPage : i < j + 1 /\ toPage[i].kind = "fatal"
      BY <2>2, <3>1 DEF IInv, DeadIsTold
    <3>3. i # 1
      BY <1>2, <3>2
    <3>4. i \in Int /\ i - 1 \in DOMAIN toPage' /\ toPage'[i - 1] = toPage[i] /\ i - 1 < j
      BY <1>2, <3>1, <3>2, <3>3
    <3> QED BY <3>2, <3>4
  <2> QED BY <2>1, <2>2 DEF DeadIsTold
<1> QED BY <1>4, <1>5, <1>6, <1>7, <1>8, <1>9, <1>10 DEF IInv

(* dispatch().                                                              *)
LEMMA ReceivesIInv == ASSUME IInv, Receives PROVE IInv'
<1> DEFINE m == Head(toPage)
<1>1. toPage # <<>> /\ ~detached /\ UNCHANGED <<turnVars, bootVars, clientDoc, workerVars>>
  BY DEF Receives
<1>2. m \in Posts /\ Posted(calls, m.call) /\ (m.code = "BAD_STATE" /\ m.call # 0 => calls[m.call].early)
  BY <1>1, HeadIs
<1>3. CASE m.kind \in {"result", "error"}
  <2>1. /\ calls' = Settle(calls, m.call, IF m.kind = "result" THEN "done" ELSE "failed", m.code)
        /\ toPage' = Tail(toPage) /\ UNCHANGED <<lifeVars, timerVars, toWorker>>
    BY <1>3 DEF Receives
  <2>2. PICK outcome \in {"done", "failed"} :
          outcome = (IF m.kind = "result" THEN "done" ELSE "failed") /\ (outcome = "done" => m.kind = "result")
    OBVIOUS
  <2>3. m.code \in {"none", "BAD_STATE"}
    BY <1>2 DEF Posts
  <2>4. calls' = Settle(calls, m.call, outcome, m.code)
    BY <2>1, <2>2
  <2>5. /\ calls' \in Seq(CallRecords) /\ DOMAIN calls' = DOMAIN calls /\ Len(calls') = Len(calls)
        /\ \A j \in DOMAIN calls : calls'[j].op = calls[j].op /\ calls'[j].early = calls[j].early
        /\ \A j \in DOMAIN calls : j # m.call => calls'[j] = calls[j]
        /\ m.call # 0 => m.call \in DOMAIN calls /\ calls[m.call].outcome = "posted" /\ calls'[m.call].outcome = outcome /\ calls'[m.call].code = m.code
    BY <1>2, <2>3, <2>4, SettleIs
  <2> QED BY <1>1, <1>3, <2>1, <2>2, <2>5, AnswerIInv
<1>4. CASE m.kind = "fatal"
  <2>1. died("error", Settle(calls, m.call, "failed", m.code))
    BY <1>4 DEF Receives
  <2>2. PICK cs : cs = Settle(calls, m.call, "failed", m.code)
    OBVIOUS
  <2>3. m.code \in {"none", "BAD_STATE"}
    BY <1>2 DEF Posts
  <2>4. /\ cs \in Seq(CallRecords) /\ DOMAIN cs = DOMAIN calls /\ Len(cs) = Len(calls)
        /\ \A j \in DOMAIN calls : cs[j].op = calls[j].op /\ cs[j].early = calls[j].early
        /\ \A j \in DOMAIN calls : j # m.call => cs[j] = calls[j]
        /\ m.call # 0 => m.call \in DOMAIN calls /\ calls[m.call].outcome = "posted" /\ cs[m.call].outcome = "failed" /\ cs[m.call].code = m.code
    BY <1>2, <2>2, <2>3, SettleIs
  <2>5. 0 \notin DOMAIN calls
    BY SessionTypes DEF IInv
  <2>6. \A k \in DOMAIN calls :
          cs[k] = calls[k] \/ (calls[k].outcome = "posted" /\ cs[k].outcome = "failed" /\ (~calls[k].early => cs[k].code # "BAD_STATE"))
    BY <1>2, <2>4, <2>5
  <2>7. Close /\ calls' = rejectAll(cs) /\ reported' = "error"
    BY <2>1, <2>2 DEF died
  <2> QED BY <1>1, <2>4, <2>6, <2>7, CloseIInv
<1>5. CASE m.kind = "died"
  <2>1. Close /\ calls' = rejectAll(calls) /\ reported' = "died"
    BY <1>5 DEF Receives, died
  <2>2. calls \in Seq(CallRecords)
    BY DEF IInv, TypeOK
  <2> QED BY <1>1, <2>1, <2>2, CloseIInv
<1>6. CASE m.kind = "beat"
  <2>1. timer' = "loss" /\ probe' = 0 /\ frozen' = FALSE /\ toPage' = Tail(toPage) /\ UNCHANGED <<calls, lifeVars, toWorker>>
    BY <1>6 DEF Receives
  <2> QED BY <1>1, <1>6, <2>1, BeatIInv
<1> QED BY <1>2, <1>3, <1>4, <1>5, <1>6 DEF Posts

(* The session ends by the page's own doing, or by its watchdog's.          *)
LEMMA EndsIInv == ASSUME IInv, BootFailed \/ PageDisposes \/ WorkerError \/ ProbeTimer PROVE IInv'
<1>1. calls \in Seq(CallRecords) /\ reported \in {"no", "crash", "error", "died", "heartbeat"}
  BY DEF IInv, TypeOK
<1>2. CASE BootFailed \/ PageDisposes
  <2>1. Close /\ calls' = rejectAll(calls) /\ reported' = reported /\ UNCHANGED <<turnVars, bootVars, clientDoc, workerVars>>
    BY <1>2 DEF BootFailed, PageDisposes, dispose
  <2> QED BY <1>1, <2>1, CloseIInv
<1>3. CASE WorkerError \/ (ProbeTimer /\ ~Answered)
  <2>1. Close /\ calls' = rejectAll(calls) /\ reported' \in {"crash", "heartbeat"} /\ UNCHANGED <<turnVars, bootVars, clientDoc, workerVars>>
    BY <1>3 DEF WorkerError, ProbeTimer, died
  <2> QED BY <1>1, <2>1, CloseIInv
<1>4. CASE ProbeTimer /\ Answered
  BY <1>4, WatchIInv DEF ProbeTimer
<1> QED BY <1>2, <1>3, <1>4

-----------------------------------------------------------------------------
(* Messages behind those on their way.                                      *)
LEMMA BehindIs ==
  ASSUME NEW a \in Seq(Posts), NEW b \in Seq(Posts), NEW c, c = a \o b
  PROVE  /\ c \in Seq(Posts)
         /\ \A i \in DOMAIN c : i \in Int /\ \/ i \in DOMAIN a /\ c[i] = a[i]
                                             \/ i - Len(a) \in DOMAIN b /\ c[i] = b[i - Len(a)] /\ \A j \in DOMAIN a : j < i
         /\ \A i \in DOMAIN a : i \in DOMAIN c /\ c[i] = a[i]
         /\ \A i \in DOMAIN b : Len(a) + i \in DOMAIN c /\ c[Len(a) + i] = b[i]
<1>1. /\ c \in Seq(Posts) /\ DOMAIN c = 1..(Len(a) + Len(b)) /\ Len(a) \in Nat /\ Len(b) \in Nat
      /\ DOMAIN a = 1..Len(a) /\ DOMAIN b = 1..Len(b)
      /\ \A i \in DOMAIN c : c[i] = IF i <= Len(a) THEN a[i] ELSE b[i - Len(a)]
  BY ConcatProperties, LenProperties
<1>2. ASSUME NEW i \in DOMAIN c
      PROVE  i \in Int /\ \/ i \in DOMAIN a /\ c[i] = a[i]
                          \/ i - Len(a) \in DOMAIN b /\ c[i] = b[i - Len(a)] /\ \A j \in DOMAIN a : j < i
  BY <1>1
<1>3. ASSUME NEW i \in DOMAIN a PROVE i \in DOMAIN c /\ c[i] = a[i]
  BY <1>1
<1>4. ASSUME NEW i \in DOMAIN b PROVE Len(a) + i \in DOMAIN c /\ c[Len(a) + i] = b[i]
  <2>1. i \in 1..Len(b) /\ Len(a) + i \in 1..(Len(a) + Len(b)) /\ ~(Len(a) + i <= Len(a)) /\ (Len(a) + i) - Len(a) = i
    BY <1>1
  <2> QED BY <1>1, <2>1
<1> QED BY <1>1, <1>2, <1>3, <1>4

(* A step of the worker, with the call `k` in hand.                         *)
LEMMA WorkerIInv ==
  ASSUME IInv, ~detached, NEW r, NEW k \in Nat, Posted(calls, k), Keeps(w, k, r),
         WorkerDoes(r), UNCHANGED pageVars, NEW d \in {0, 1}, toWorker' \in Seq(Requests),
         \A i \in DOMAIN toWorker' : i \in Int /\ i + d \in DOMAIN toWorker /\ toWorker'[i] = toWorker[i + d],
         k # 0 => \A i \in DOMAIN toWorker' : toWorker'[i].call # k,
         k # 0 => \A i \in DOMAIN toPage : toPage[i].call # k,
         \/ r.w.job = NoJob
         \/ r.w.job = w.job /\ (k # 0 => k # w.job.call)
         \/ r.w.job.call = k /\ r.w.job # NoJob /\ k # 0 /\ r.out = <<>> /\ calls[k].op = r.w.job.op,
         r.w.armed => running # 0 /\ calls[running].op = "lspArm" /\ r.w.job = NoJob,
         \A i \in DOMAIN r.out : r.out[i].kind = "result" /\ r.out[i].call # 0 =>
           (calls[k].op = "boot" => r.w.state \notin {"idle", "booting"}) /\ (calls[k].op = "lspArm" => r.w.armed),
         \A i \in DOMAIN r.out : r.out[i].code = "BAD_STATE" /\ r.out[i].call # 0 /\ ~calls[k].early =>
           \E j \in DOMAIN toPage : toPage[j].kind = "fatal"
  PROVE  IInv'
<1>1. /\ UNCHANGED <<calls, queue, running, step, awaits, loads, dead, reported, detached, timer, probe, frozen, clientDoc, gone>>
      /\ w' = r.w /\ toPage' = toPage \o r.out
  BY DEF pageVars, WorkerDoes, turnVars, bootVars, lifeVars, timerVars
<1>2. PICK out \in Seq(Posts) :
        /\ out = r.out
        /\ \A i \in DOMAIN out : out[i].call \in {0, k} /\ out[i].kind # "beat"
        /\ \A i, j \in DOMAIN out : i # j /\ out[i].call = out[j].call => out[i].call = 0
  BY DEF Keeps, Answers
<1>3. /\ w' \in Workers /\ Owner(w') /\ (Booted => Booted') /\ (w.armed => w'.armed)
      /\ w'.state = "dead" /\ w.state # "dead" => \E i \in DOMAIN out : out[i].kind = "fatal"
  BY <1>1, <1>2 DEF Keeps, Booted
<1>4. /\ toPage' \in Seq(Posts)
      /\ \A i \in DOMAIN toPage' : i \in Int /\ \/ i \in DOMAIN toPage /\ toPage'[i] = toPage[i]
                                                \/ i - Len(toPage) \in DOMAIN out /\ toPage'[i] = out[i - Len(toPage)] /\ \A j \in DOMAIN toPage : j < i
      /\ \A i \in DOMAIN toPage : i \in DOMAIN toPage' /\ toPage'[i] = toPage[i]
      /\ \A i \in DOMAIN out : Len(toPage) + i \in DOMAIN toPage' /\ toPage'[Len(toPage) + i] = out[i]
  <2>1. toPage \in Seq(Posts) /\ toPage' = toPage \o out
    BY <1>1, <1>2 DEF IInv, TypeOK
  <2> QED BY <2>1, BehindIs
<1>5. TypeOK'
  BY <1>1, <1>3, <1>4 DEF IInv, TypeOK
<1>6. TurnsInOrder' /\ ArmIsLast' /\ BootOrder' /\ RefusesNoneBooted'
  BY <1>1 DEF IInv, TurnsInOrder, ArmIsLast, BootOrder, Exclusive, RefusesNoneBooted
<1>7. Owner(w)'
  BY <1>3
<1>8. Sent'
  <2>1. ASSUME NEW i \in DOMAIN toWorker'
        PROVE  Posted(calls, toWorker'[i].call) /\ (IF toWorker'[i].op = "lsp" THEN toWorker'[i].call = 0
                                                    ELSE toWorker'[i].call # 0 /\ calls[toWorker'[i].call].op = toWorker'[i].op)
    BY DEF IInv, Sent
  <2>2. ASSUME NEW i \in DOMAIN toPage' PROVE Posted(calls, toPage'[i].call)
    <3>1. CASE i \in DOMAIN toPage /\ toPage'[i] = toPage[i]
      BY <3>1 DEF IInv, Sent
    <3>2. CASE i - Len(toPage) \in DOMAIN out /\ toPage'[i] = out[i - Len(toPage)]
      <4>1. toPage'[i].call \in {0, k}  BY <1>2, <3>2
      <4>2. Posted(calls, 0)  BY DEF Posted
      <4> QED BY <4>1, <4>2
    <3> QED BY <1>4, <3>1, <3>2
  <2>3. w'.job.call <= Len(calls) /\ Posted(calls, w'.job.call) /\ (w'.job # NoJob => calls[w'.job.call].op = w'.job.op)
    <3>1. CASE w'.job = NoJob
      BY <3>1, SessionTypes DEF IInv, NoJob, Posted
    <3>2. CASE w'.job = w.job
      BY <3>2 DEF IInv, Sent
    <3>3. CASE w'.job.call = k /\ w'.job # NoJob /\ k # 0 /\ calls[k].op = w'.job.op
      BY <3>3, SessionTypes DEF IInv, Posted
    <3> QED BY <1>1, <3>1, <3>2, <3>3
  <2> QED BY <1>1, <2>1, <2>2, <2>3 DEF Sent
<1>9. Once'
  <2>1. ASSUME NEW i \in DOMAIN toWorker', NEW j \in DOMAIN toWorker', i # j, toWorker'[i].call = toWorker'[j].call PROVE toWorker'[i].call = 0
    <3>1. i + d # j + d  BY <2>1
    <3> QED BY <2>1, <3>1 DEF IInv, Once
  <2>2. ASSUME NEW i \in DOMAIN toPage', NEW j \in DOMAIN toPage', i # j, toPage'[i].call = toPage'[j].call PROVE toPage'[i].call = 0
    <3>1. CASE i \in DOMAIN toPage /\ j \in DOMAIN toPage
      BY <1>4, <2>2, <3>1 DEF IInv, Once
    <3>2. CASE i - Len(toPage) \in DOMAIN out /\ toPage'[i] = out[i - Len(toPage)] /\ j - Len(toPage) \in DOMAIN out /\ toPage'[j] = out[j - Len(toPage)]
      <4>1. i - Len(toPage) # j - Len(toPage)
        <5>1. i \in Int /\ j \in Int /\ Len(toPage) \in Int
          BY <1>4, LenProperties DEF IInv, TypeOK
        <5> QED BY <2>2, <5>1
      <4> QED BY <1>2, <2>2, <3>2, <4>1
    <3>3. CASE i \in DOMAIN toPage /\ j - Len(toPage) \in DOMAIN out /\ toPage'[j] = out[j - Len(toPage)]
      BY <1>2, <1>4, <2>2, <3>3
    <3>4. CASE j \in DOMAIN toPage /\ i - Len(toPage) \in DOMAIN out /\ toPage'[i] = out[i - Len(toPage)]
      BY <1>2, <1>4, <2>2, <3>4
    <3> QED BY <1>4, <3>1, <3>2, <3>3, <3>4
  <2>3. ASSUME NEW i \in DOMAIN toWorker', NEW j \in DOMAIN toPage', toWorker'[i].call = toPage'[j].call PROVE toWorker'[i].call = 0
    <3>1. CASE j \in DOMAIN toPage
      BY <1>4, <2>3, <3>1 DEF IInv, Once
    <3>2. CASE j - Len(toPage) \in DOMAIN out /\ toPage'[j] = out[j - Len(toPage)]
      BY <1>2, <2>3, <3>2
    <3> QED BY <1>4, <3>1, <3>2
  <2>4. ASSUME NEW i \in DOMAIN toWorker', toWorker'[i].call = w'.job.call PROVE w'.job.call = 0
    <3>1. CASE w'.job = NoJob
      BY <3>1 DEF NoJob
    <3>2. CASE w'.job = w.job
      BY <2>4, <3>2 DEF IInv, Once
    <3>3. CASE w'.job.call = k /\ k # 0
      BY <2>4, <3>3
    <3> QED BY <1>1, <3>1, <3>2, <3>3
  <2>5. ASSUME NEW j \in DOMAIN toPage', toPage'[j].call = w'.job.call PROVE w'.job.call = 0
    <3>1. CASE w'.job = NoJob
      BY <3>1 DEF NoJob
    <3>2. CASE w'.job = w.job /\ (k # 0 => k # w.job.call)
      <4>1. CASE j \in DOMAIN toPage
        BY <1>4, <2>5, <3>2, <4>1 DEF IInv, Once
      <4>2. CASE j - Len(toPage) \in DOMAIN out /\ toPage'[j] = out[j - Len(toPage)]
        BY <1>2, <2>5, <3>2, <4>2
      <4> QED BY <1>4, <4>1, <4>2
    <3>3. CASE w'.job.call = k /\ k # 0 /\ r.out = <<>>
      <4>1. j \in DOMAIN toPage /\ toPage'[j] = toPage[j]
        <5>1. DOMAIN out = {}  BY <1>2, <3>3
        <5> QED BY <1>4, <5>1
      <4> QED BY <2>5, <3>3, <4>1
    <3> QED BY <1>1, <3>1, <3>2, <3>3
  <2> QED BY <2>1, <2>2, <2>3, <2>4, <2>5 DEF Once
<1>10. HasBooted'
  <2>1. ASSUME NEW i \in DOMAIN toPage', toPage'[i].kind = "result", toPage'[i].call # 0, calls[toPage'[i].call].op = "boot" PROVE Booted'
    <3>1. CASE i \in DOMAIN toPage
      BY <1>3, <1>4, <2>1, <3>1 DEF IInv, HasBooted
    <3>2. CASE i - Len(toPage) \in DOMAIN out /\ toPage'[i] = out[i - Len(toPage)]
      BY <1>1, <1>2, <2>1, <3>2 DEF Booted
    <3> QED BY <1>4, <3>1, <3>2
  <2>2. /\ step' \notin {"preparing", "boot", "failed"} => Booted'
        /\ \A j \in DOMAIN calls' : Exclusive(calls', j) /\ ~calls'[j].early => Booted'
        /\ \A j \in DOMAIN calls' : calls'[j].op = "boot" /\ calls'[j].outcome = "done" => Booted'
    BY <1>1, <1>3 DEF IInv, HasBooted, Exclusive
  <2> QED BY <1>1, <2>1, <2>2 DEF HasBooted
<1>11. Armed'
  <2>1. ASSUME NEW i \in DOMAIN toPage'
        PROVE  /\ toPage'[i].kind = "beat" => w'.armed
               /\ toPage'[i].kind = "result" /\ toPage'[i].call # 0 /\ calls[toPage'[i].call].op = "lspArm" => w'.armed
    <3>1. CASE i \in DOMAIN toPage
      BY <1>3, <1>4, <3>1 DEF IInv, Armed
    <3>2. CASE i - Len(toPage) \in DOMAIN out /\ toPage'[i] = out[i - Len(toPage)]
      BY <1>1, <1>2, <3>2
    <3> QED BY <1>4, <3>1, <3>2
  <2>2. /\ w'.armed => running' # 0 /\ calls'[running'].op = "lspArm" /\ w'.job = NoJob
        /\ timer' # "off" => w'.armed
        /\ \A j \in DOMAIN calls' : calls'[j].op = "lspArm" /\ calls'[j].outcome = "done" => w'.armed
    BY <1>1, <1>3 DEF IInv, Armed
  <2> QED BY <1>1, <2>1, <2>2 DEF Armed
<1>12. DeadIsTold'
  <2>1. ASSUME w'.state = "dead" PROVE \E i \in DOMAIN toPage' : toPage'[i].kind = "fatal"
    <3>1. CASE w.state = "dead"
      <4>1. PICK i \in DOMAIN toPage : toPage[i].kind = "fatal"  BY <3>1 DEF IInv, DeadIsTold
      <4> QED BY <1>4, <4>1
    <3>2. CASE w.state # "dead"
      <4>1. PICK i \in DOMAIN out : out[i].kind = "fatal"  BY <1>3, <2>1, <3>2
      <4> QED BY <1>4, <4>1
    <3> QED BY <3>1, <3>2
  <2>2. ASSUME NEW j \in DOMAIN toPage', toPage'[j].code = "BAD_STATE", toPage'[j].call # 0, ~calls[toPage'[j].call].early
        PROVE  \E i \in DOMAIN toPage' : i < j /\ toPage'[i].kind = "fatal"
    <3>1. CASE j \in DOMAIN toPage
      <4>1. PICK i \in DOMAIN toPage : i < j /\ toPage[i].kind = "fatal"  BY <1>4, <2>2, <3>1 DEF IInv, DeadIsTold
      <4> QED BY <1>4, <4>1
    <3>2. CASE j - Len(toPage) \in DOMAIN out /\ toPage'[j] = out[j - Len(toPage)] /\ \A i \in DOMAIN toPage : i < j
      <4>1. PICK i \in DOMAIN toPage : toPage[i].kind = "fatal"  BY <1>2, <2>2, <3>2
      <4> QED BY <1>4, <3>2, <4>1
    <3> QED BY <1>4, <3>1, <3>2
  <2> QED BY <1>1, <2>1, <2>2 DEF DeadIsTold
<1> QED BY <1>5, <1>6, <1>7, <1>8, <1>9, <1>10, <1>11, <1>12 DEF IInv

(* A request is served.                                                     *)
LEMMA WorkerServesIInv == ASSUME IInv, WorkerServes PROVE IInv'
<1> DEFINE m == Head(toWorker)
<1>1. ~detached /\ toWorker # <<>> /\ toWorker' = Tail(toWorker) /\ UNCHANGED pageVars
  BY DEF WorkerServes, WorkerLives
<1>2. PICK r \in served(w, m) : WorkerDoes(r)
  BY DEF WorkerServes
<1>3. /\ m \in Requests /\ m = toWorker[1] /\ 1 \in DOMAIN toWorker /\ toWorker' \in Seq(Requests)
      /\ \A i \in DOMAIN toWorker' : i \in Int /\ i > 0 /\ i + 1 \in DOMAIN toWorker /\ toWorker'[i] = toWorker[i + 1]
  <2>1. toWorker \in Seq(Requests)  BY DEF IInv, TypeOK
  <2> QED BY <1>1, <2>1, TailIs
<1> HIDE DEF m
<1>4. PICK op, k : op = m.op /\ k = m.call
  OBVIOUS
<1>5. /\ k \in Nat /\ Posted(calls, k) /\ (op = "lsp" <=> k = 0)
      /\ k # 0 => calls[k].op = op /\ k \in DOMAIN calls /\ calls[k].outcome = "posted"
  <2>1. m.call \in Nat  BY <1>3 DEF Requests
  <2>2. Posted(calls, m.call) /\ (IF m.op = "lsp" THEN m.call = 0 ELSE m.call # 0 /\ calls[m.call].op = m.op)
    BY <1>3 DEF IInv, Sent
  <2> QED BY <1>4, <2>1, <2>2 DEF Posted
<1>6. Serves(w, op, k, r) /\ w \in Workers /\ Owner(w)
  <2>1. w \in Workers /\ Owner(w)  BY DEF IInv, TypeOK
  <2> QED BY <1>2, <1>3, <1>4, <1>5, <2>1, ServedIs
<1>7. PICK out : out = r.out
  OBVIOUS
<1>8. /\ Keeps(w, k, r)
      /\ \/ r.w.job = w.job
         \/ /\ r.w.job = [op |-> op, call |-> k] /\ out = <<>> /\ w.job = NoJob /\ k # 0
            /\ (op = "boot" /\ w.state = "idle") \/ op \in {"compile", "loadSnapshot"}
      /\ r.w.armed # w.armed => op = "lspArm" /\ w.state = "ready"
      /\ op = "boot" => \A i \in DOMAIN out : out[i].kind # "result"
      /\ op = "lspArm" => \A i \in DOMAIN out : out[i].kind = "result" => r.w.armed
      /\ op # "boot" => \A i \in DOMAIN out : out[i].code = "BAD_STATE" =>
           /\ op \in {"compile", "loadSnapshot", "lspArm"}
           /\ w.state # "ready" \/ (op # "lspArm" /\ w.resident)
  BY <1>6, <1>7 DEF Serves
<1>9. \A i \in DOMAIN out : out[i].call \in {0, k}
  BY <1>7, <1>8 DEF Keeps, Answers
<1>10. /\ k # 0 => \A i \in DOMAIN toWorker' : toWorker'[i].call # k
       /\ k # 0 => \A i \in DOMAIN toPage : toPage[i].call # k
       /\ k # 0 => w.job.call # k
  <2>1. ASSUME NEW i \in DOMAIN toWorker', toWorker'[i].call = k PROVE k = 0
    <3>1. i + 1 \in DOMAIN toWorker /\ i + 1 # 1 /\ toWorker[i + 1].call = toWorker[1].call /\ toWorker[1].call = k
      BY <1>3, <1>4, <2>1
    <3> QED BY <1>3, <3>1 DEF IInv, Once
  <2>2. ASSUME NEW i \in DOMAIN toPage, toPage[i].call = k PROVE k = 0
    BY <1>3, <1>4, <2>2 DEF IInv, Once
  <2>3. k = w.job.call => k = 0
    BY <1>3, <1>4 DEF IInv, Once
  <2> QED BY <2>1, <2>2, <2>3
<1>11. op \in {"compile", "loadSnapshot", "writeFiles", "lspArm"} => k # 0 /\ k = running /\ Exclusive(calls, k)
  BY <1>5 DEF IInv, TurnsInOrder, Exclusive, RuntimeCalls
<1>12. \/ r.w.job = w.job /\ (k # 0 => k # w.job.call)
       \/ r.w.job.call = k /\ r.w.job # NoJob /\ k # 0 /\ out = <<>> /\ calls[k].op = r.w.job.op
  <2>1. CASE r.w.job = [op |-> op, call |-> k] /\ out = <<>> /\ k # 0
    <3>1. r.w.job.call = k /\ r.w.job.op = op  BY <2>1
    <3>2. r.w.job # NoJob  BY <2>1, <3>1 DEF NoJob
    <3> QED BY <1>5, <2>1, <3>1, <3>2
  <2> QED BY <1>8, <1>10, <2>1
<1>13. ASSUME r.w.armed PROVE running # 0 /\ calls[running].op = "lspArm" /\ r.w.job = NoJob
  <2>1. CASE w.armed
    <3>1. running # 0 /\ calls[running].op = "lspArm" /\ w.job = NoJob /\ w.state # "idle"
      BY <1>6, <2>1 DEF IInv, Armed, Owner
    <3>2. op \notin {"compile", "loadSnapshot"}
      BY <1>5, <1>11, <3>1
    <3> QED BY <1>8, <3>1, <3>2
  <2>2. CASE ~w.armed
    <3>1. op = "lspArm" /\ w.state = "ready"
      BY <1>8, <1>13, <2>2
    <3>2. w.job \in [op : {"none", "boot", "compile", "loadSnapshot"}, call : Nat] /\ w.job.op = "none" /\ w.job.call = 0
      BY <1>6, <3>1 DEF Owner, Workers
    <3>3. w.job = NoJob
      BY <3>2 DEF NoJob
    <3>4. k # 0 /\ k = running /\ calls[running].op = "lspArm"
      BY <1>5, <1>11, <3>1
    <3> QED BY <1>8, <3>1, <3>3, <3>4
  <2> QED BY <2>1, <2>2
<1>14. \A i \in DOMAIN out : out[i].kind = "result" /\ out[i].call # 0 =>
         (calls[k].op = "boot" => r.w.state \notin {"idle", "booting"}) /\ (calls[k].op = "lspArm" => r.w.armed)
  BY <1>5, <1>8, <1>9
<1>15. ASSUME NEW i \in DOMAIN out, out[i].code = "BAD_STATE", out[i].call # 0, ~calls[k].early
       PROVE  \E j \in DOMAIN toPage : toPage[j].kind = "fatal"
  <2>1. k # 0 /\ op # "boot"
    BY <1>5, <1>9, <1>15 DEF IInv, BootOrder
  <2>2. op \in {"compile", "loadSnapshot", "lspArm"} /\ (w.state # "ready" \/ (op # "lspArm" /\ w.resident))
    BY <1>8, <1>15, <2>1
  <2>3. k = running /\ calls[running].op = op /\ w.state \notin {"idle", "booting"}
    BY <1>5, <1>11, <1>15, <2>1, <2>2 DEF IInv, HasBooted, Booted
  <2>4. w.state # "compiling"
    <3>1. ASSUME w.state = "compiling" PROVE FALSE
      <4>1. w.job.op \in {"compile", "loadSnapshot"} /\ w.job.call # 0
        BY <1>6, <3>1 DEF Owner
      <4>2. w.job # NoJob  BY <4>1 DEF NoJob
      <4>3. w.job.call \in DOMAIN calls /\ calls[w.job.call].outcome = "posted" /\ calls[w.job.call].op = w.job.op
        BY <1>1, <4>1, <4>2 DEF IInv, Sent, Posted
      <4>4. w.job.call = running
        BY <4>1, <4>3 DEF IInv, TurnsInOrder, Exclusive, RuntimeCalls
      <4> QED BY <1>10, <2>1, <2>3, <4>4
    <3> QED BY <3>1
  <2>5. ~(op # "lspArm" /\ w.resident)
    BY <1>6, <2>3 DEF IInv, Armed, Owner
  <2>6. w.state = "dead"
    BY <1>6, <2>2, <2>3, <2>4, <2>5 DEF Workers
  <2> QED BY <1>1, <2>6 DEF IInv, DeadIsTold
<1>16. \A i \in DOMAIN toWorker' : i \in Int /\ i + 1 \in DOMAIN toWorker /\ toWorker'[i] = toWorker[i + 1]
  BY <1>3
<1> QED BY <1>1, <1>2, <1>3, <1>5, <1>7, <1>8, <1>10, <1>12, <1>13, <1>14, <1>15, <1>16, WorkerIInv

(* A job ends.                                                              *)
LEMMA WorkerEndsIInv == ASSUME IInv, WorkerEndsJob PROVE IInv'
<1>1. ~detached /\ w.job # NoJob /\ UNCHANGED pageVars /\ toWorker' = toWorker
  BY DEF WorkerEndsJob, WorkerLives
<1>2. PICK r \in jobEnds(w) : WorkerDoes(r)
  BY DEF WorkerEndsJob
<1>3. Ends(w, r) /\ w \in Workers /\ Owner(w)
  <2>1. w \in Workers /\ Owner(w)  BY DEF IInv, TypeOK
  <2> QED BY <1>1, <1>2, <2>1, JobEndsIs
<1>4. PICK k, out : k = w.job.call /\ out = r.out
  OBVIOUS
<1>5. /\ Keeps(w, k, r) /\ r.w.job = NoJob /\ r.w.armed = w.armed /\ k # 0
      /\ w.job.op \in {"boot", "compile", "loadSnapshot"}
      /\ \A i \in DOMAIN out : out[i].code = "none" /\ (out[i].kind = "result" => r.w.state = "ready")
  BY <1>3, <1>4 DEF Ends
<1>6. k \in Nat /\ Posted(calls, k) /\ calls[k].op = w.job.op
  BY <1>1, <1>4, SessionTypes DEF IInv, Sent
<1>7. ~r.w.armed
  BY <1>1, <1>5 DEF IInv, Armed
<1>8. /\ \A i \in DOMAIN toWorker : toWorker[i].call # k
      /\ \A i \in DOMAIN toPage : toPage[i].call # k
  BY <1>4, <1>5 DEF IInv, Once
<1>9. toWorker \in Seq(Requests) /\ \A i \in DOMAIN toWorker : i \in Int /\ i + 0 \in DOMAIN toWorker /\ toWorker[i] = toWorker[i + 0]
  <2>1. \A i \in DOMAIN toWorker : i \in Int /\ i + 0 = i  BY SessionTypes DEF IInv
  <2> QED BY <2>1 DEF IInv, TypeOK
<1> QED BY <1>1, <1>2, <1>4, <1>5, <1>6, <1>7, <1>8, <1>9, WorkerIInv

(* The loop dies, or the runtime does.                                      *)
LEMMA WorkerDiesIInv == ASSUME IInv, WorkerDies PROVE IInv'
<1>1. ~detached /\ UNCHANGED pageVars /\ toWorker' = toWorker
  BY DEF WorkerDies, WorkerLives
<1>2. w \in Workers /\ Owner(w)
  BY DEF IInv, TypeOK
<1>3. PICK r : WorkerDoes(r) /\ (r = die(w) \/ (w.state = "ready" /\ r = aborted(w)))
  BY DEF WorkerDies
<1>4. PICK out : out = r.out
  OBVIOUS
<1>5. /\ Keeps(w, 0, r) /\ r.w.job = w.job /\ r.w.armed = w.armed
      /\ \A i \in DOMAIN out : out[i].kind # "result" /\ out[i].code = "none"
  <2>1. CASE r = die(w)
    <3>1. diedEvent.kind = "died" /\ diedEvent.code = "none"  BY PostsAre
    <3> QED BY <1>2, <1>4, <2>1, <3>1, DieIs
  <2>2. CASE w.state = "ready" /\ r = aborted(w)
    <3>1. w.job \in [op : {"none", "boot", "compile", "loadSnapshot"}, call : Nat] /\ w.job.op = "none" /\ w.job.call = 0
      BY <1>2, <2>2 DEF Owner, Workers
    <3>2. w.job = NoJob
      BY <3>1 DEF NoJob
    <3> QED BY <1>2, <1>4, <2>2, <3>1, <3>2, AbortedIs DEF Sorry
  <2> QED BY <1>3, <2>1, <2>2
<1>6. r.w.armed => running # 0 /\ calls[running].op = "lspArm" /\ r.w.job = NoJob
  BY <1>5 DEF IInv, Armed
<1>7. toWorker \in Seq(Requests) /\ \A i \in DOMAIN toWorker : i \in Int /\ i + 0 \in DOMAIN toWorker /\ toWorker[i] = toWorker[i + 0]
  <2>1. \A i \in DOMAIN toWorker : i \in Int /\ i + 0 = i  BY SessionTypes DEF IInv
  <2> QED BY <2>1 DEF IInv, TypeOK
<1>8. Posted(calls, 0)
  BY DEF Posted
<1> QED BY <1>1, <1>3, <1>4, <1>5, <1>6, <1>7, <1>8, WorkerIInv

(* A beat is sent.                                                          *)
LEMMA WorkerBeatsIInv == ASSUME IInv, WorkerBeats PROVE IInv'
<1>1. /\ UNCHANGED <<calls, queue, running, step, awaits, loads, dead, reported, detached, timer, probe, frozen, clientDoc, gone, w, toWorker>>
      /\ ~detached /\ w.resident /\ toPage' = Append(toPage, beatEvent)
  BY DEF WorkerBeats, WorkerLives, pageVars, turnVars, bootVars, lifeVars, timerVars
<1>2. PICK beat \in Posts : beat = beatEvent /\ beat.kind = "beat" /\ beat.call = 0 /\ beat.code = "none"
  <2>1. beatEvent \in Posts /\ beatEvent.kind = "beat" /\ beatEvent.call = 0 /\ beatEvent.code = "none"
    BY DEF beatEvent, Post, Posts
  <2> QED BY <2>1
<1>3. /\ toPage' \in Seq(Posts) /\ toPage'[Len(toPage) + 1] = beat
      /\ \A i \in DOMAIN toPage : i \in Int /\ i \in DOMAIN toPage' /\ toPage'[i] = toPage[i]
      /\ \A i \in DOMAIN toPage' : i \in Int /\ (i \in DOMAIN toPage \/ i = Len(toPage) + 1)
  <2>1. toPage \in Seq(Posts)  BY DEF IInv, TypeOK
  <2> QED BY <1>1, <1>2, <2>1, AppendIs
<1>4. w.armed
  BY <1>1 DEF IInv, Owner
<1>5. TypeOK'
  BY <1>1, <1>3 DEF IInv, TypeOK
<1>6. TurnsInOrder' /\ ArmIsLast' /\ BootOrder' /\ RefusesNoneBooted' /\ Owner(w)'
  BY <1>1 DEF IInv, TurnsInOrder, ArmIsLast, BootOrder, Exclusive, RefusesNoneBooted, Owner
<1>7. Sent'
  <2>1. \A i \in DOMAIN toPage' : Posted(calls, toPage'[i].call)
    BY <1>2, <1>3 DEF IInv, Sent, Posted
  <2> QED BY <1>1, <2>1 DEF IInv, Sent, Posted
<1>8. Once'
  BY <1>1, <1>2, <1>3 DEF IInv, Once
<1>9. HasBooted'
  BY <1>1, <1>2, <1>3 DEF IInv, HasBooted, Booted, Exclusive
<1>10. Armed'
  BY <1>1, <1>4 DEF IInv, Armed
<1>11. DeadIsTold'
  BY <1>1, <1>2, <1>3 DEF IInv, DeadIsTold
<1> QED BY <1>5, <1>6, <1>7, <1>8, <1>9, <1>10, <1>11 DEF IInv

(* An await of the boot resumes.                                            *)
LEMMA BootResumesIInv == ASSUME IInv, BootResumes PROVE IInv'
<1>1. /\ awaits # 0 /\ awaits \in DOMAIN calls
      /\ UNCHANGED <<lifeVars, probe, frozen, clientDoc, workerVars, toPage>>
  BY SessionTypes DEF BootResumes, Resumes, IInv
<1>2. PICK ok \in {calls[awaits].outcome = "done"} :
        /\ CASE step = "boot" /\ ok  -> GoTo(AfterLoads(0)) /\ UNCHANGED loads
             [] step = "load" /\ ok  -> GoTo(AfterLoads(loads + 1)) /\ loads' = loads + 1
             [] step = "warm"        -> GoTo("files") /\ UNCHANGED loads
             [] step = "write" /\ ok -> GoTo("hook") /\ UNCHANGED loads
             [] step = "arm" /\ ok   -> GoTo("serving") /\ UNCHANGED loads
             [] OTHER                -> GoTo("failed") /\ UNCHANGED loads
        /\ timer' = IF Watches(ok) THEN "loss" ELSE timer
  BY DEF BootResumes
<1>3. ok = (calls[awaits].outcome = "done")
  OBVIOUS
<1>4. /\ loads \in 0..Snapshots /\ Snapshots \in Nat /\ step \in Steps
      /\ step \in {"preparing", "boot"} => loads = 0
      /\ step = "load" => loads < Snapshots
      /\ step \in {"warm", "write", "arm"} => loads = Snapshots
      /\ step \notin {"preparing", "boot", "failed"} => Booted
      /\ (\E k \in DOMAIN calls : calls[k].op = "lspArm") => step \in {"arm", "serving", "failed"} /\ loads = Snapshots
  BY SessionAssumption DEF IInv, TypeOK, BootOrder, HasBooted, ArmIsLast
<1>5. CASE step = "boot" /\ ok
  <2>1. GoTo(AfterLoads(0)) /\ loads' = loads /\ timer' = timer
    BY <1>2, <1>5 DEF Watches
  <2>2. Booted
    BY <1>1, <1>3, <1>5 DEF IInv, HasBooted, BootOrder
  <2>3. PICK next \in {"prefetch", "loaded"} : next = AfterLoads(0) /\ (next = "prefetch" <=> 0 < Snapshots)
    BY DEF AfterLoads
  <2>4. step' = next /\ awaits' = 0 /\ UNCHANGED <<calls, turnVars, toWorker>>
    BY <2>1, <2>3 DEF GoTo
  <2>5. ~\E k \in DOMAIN calls : calls[k].op = "lspArm"
    BY <1>4, <1>5
  <2>6. loads = 0
    BY <1>4, <1>5
  <2>7. step' = "prefetch" => loads' < Snapshots
    BY <2>1, <2>3, <2>4, <2>6
  <2>8. step' = "loaded" => loads' = Snapshots
    BY <1>4, <2>1, <2>3, <2>4, <2>6
  <2> QED BY <1>1, <1>4, <2>1, <2>2, <2>4, <2>5, <2>7, <2>8, GoToIInv DEF Steps
<1>6. CASE step = "load" /\ ok
  <2>1. GoTo(AfterLoads(loads + 1)) /\ loads' = loads + 1 /\ timer' = timer
    BY <1>2, <1>6 DEF Watches
  <2>2. Booted
    BY <1>4, <1>6
  <2>3. PICK next \in {"prefetch", "loaded"} : next = AfterLoads(loads + 1) /\ (next = "prefetch" <=> loads + 1 < Snapshots)
    BY DEF AfterLoads
  <2>4. step' = next /\ awaits' = 0 /\ UNCHANGED <<calls, turnVars, toWorker>>
    BY <2>1, <2>3 DEF GoTo
  <2>5. ~\E k \in DOMAIN calls : calls[k].op = "lspArm"
    BY <1>4, <1>6
  <2>6. loads' \in 0..Snapshots
    BY <1>4, <1>6, <2>1
  <2>7. step' = "prefetch" => loads' < Snapshots
    BY <2>1, <2>3, <2>4
  <2>8. step' = "loaded" => loads' = Snapshots
    BY <1>4, <1>6, <2>1, <2>3, <2>4
  <2> QED BY <1>1, <2>1, <2>2, <2>4, <2>5, <2>6, <2>7, <2>8, GoToIInv DEF Steps
<1>7. CASE step = "warm" \/ (step = "write" /\ ok)
  <2>1. PICK next \in {"files", "hook"} : GoTo(next) /\ loads' = loads /\ timer' = timer
    BY <1>2, <1>7 DEF Watches
  <2>2. step' = next /\ awaits' = 0 /\ UNCHANGED <<calls, turnVars, toWorker>>
    BY <2>1 DEF GoTo
  <2>3. Booted /\ loads = Snapshots /\ ~\E k \in DOMAIN calls : calls[k].op = "lspArm"
    BY <1>4, <1>7
  <2> QED BY <1>1, <1>4, <2>1, <2>2, <2>3, GoToIInv DEF Steps
<1>8. CASE step = "arm" /\ ok
  <2>1. GoTo("serving") /\ loads' = loads /\ (timer' = timer \/ (timer' = "loss" /\ ~detached))
    BY <1>2, <1>8 DEF Watches
  <2>2. step' = "serving" /\ awaits' = 0 /\ UNCHANGED <<calls, turnVars, toWorker>>
    BY <2>1 DEF GoTo
  <2>3. Booted /\ loads = Snapshots
    BY <1>4, <1>8
  <2>4. w.armed
    BY <1>1, <1>3, <1>8 DEF IInv, Armed, BootOrder
  <2> QED BY <1>1, <1>4, <2>1, <2>2, <2>3, <2>4, GoToIInv DEF Steps
<1>9. CASE ~(ok /\ step \in {"boot", "load", "write", "arm"}) /\ step # "warm"
  <2>1. GoTo("failed") /\ loads' = loads /\ timer' = timer
    BY <1>2, <1>9 DEF Watches
  <2>2. step' = "failed" /\ awaits' = 0 /\ UNCHANGED <<calls, turnVars, toWorker>>
    BY <2>1 DEF GoTo
  <2> QED BY <1>1, <1>4, <2>1, <2>2, GoToIInv DEF Steps
<1> QED BY <1>3, <1>5, <1>6, <1>7, <1>8, <1>9

(* The boot goes on, and its caller makes no runtime call.                  *)
LEMMA BootGoesIInv ==
  ASSUME IInv, NEW next \in {"files", "hook", "failed", "abandoned"}, GoTo(next),
         step \in {"preparing", "loaded", "files", "hook"}, step = "preparing" => next = "failed",
         UNCHANGED <<loads, lifeVars, timerVars, clientDoc, workerVars, toPage>>
  PROVE  IInv'
<1>1. step' = next /\ awaits' = 0 /\ UNCHANGED <<calls, turnVars, toWorker>>
  BY DEF GoTo
<1>2. UNCHANGED <<timer, probe, frozen>>
  BY DEF timerVars
<1>3. /\ loads \in 0..Snapshots
      /\ step # "preparing" => loads = Snapshots /\ Booted
      /\ ~\E k \in DOMAIN calls : calls[k].op = "lspArm"
  BY NoArmBefore DEF IInv, TypeOK, BootOrder, HasBooted
<1> QED BY <1>1, <1>2, <1>3, GoToIInv DEF Steps

(* The boot's own tasks, and the host's calls.                              *)
LEMMA BootTaskIInv ==
  ASSUME IInv, Warm \/ Prepared \/ Prefetched \/ FilesFetched \/ HookReturns \/ \E op \in RuntimeCalls : PageCalls(op)
  PROVE  IInv'
<1>1. ASSUME NEW next, NEW op \in RuntimeCalls, Await(next, op),
             UNCHANGED <<loads, lifeVars, timerVars, clientDoc, workerVars, toPage>>,
             step \in {"loaded", "prefetch", "files"}, next \in {"load", "warm", "write"},
             (next = "load") <=> (step = "prefetch")
      PROVE  IInv'
  <2>1. /\ step' = next /\ awaits' = Next1 /\ calls' = Append(calls, Call(op, "boot", "queued"))
        /\ queue' = Append(queue, Next1) /\ running' = running /\ toWorker' = toWorker
    BY <1>1 DEF Await, exclusive
  <2>2. (next = "load" => loads < Snapshots) /\ (next # "load" => loads = Snapshots)
    BY <1>1 DEF IInv, BootOrder
  <2>3. op # "lspArm"
    BY DEF RuntimeCalls
  <2> QED BY <1>1, <2>1, <2>2, <2>3, QueuesIInv
<1>2. CASE Warm
  <2>1. /\ step = "loaded" /\ UNCHANGED <<loads, lifeVars, timerVars, clientDoc, workerVars, toPage>>
        /\ Await("warm", "compile") \/ GoTo("files")
    BY <1>2 DEF Warm
  <2> QED BY <1>1, <2>1, BootGoesIInv DEF RuntimeCalls
<1>3. CASE Prefetched
  <2>1. /\ step = "prefetch" /\ UNCHANGED <<loads, lifeVars, timerVars, clientDoc, workerVars, toPage>>
        /\ Await("load", "loadSnapshot")
    BY <1>3 DEF Prefetched
  <2> QED BY <1>1, <2>1 DEF RuntimeCalls
<1>4. CASE FilesFetched
  <2>1. /\ step = "files" /\ UNCHANGED <<loads, lifeVars, timerVars, clientDoc, workerVars, toPage>>
        /\ Await("write", "writeFiles") \/ GoTo("hook") \/ GoTo("failed")
    BY <1>4 DEF FilesFetched
  <2> QED BY <1>1, <2>1, BootGoesIInv DEF RuntimeCalls
<1>5. CASE Prepared
  <2>1. /\ step = "preparing" /\ UNCHANGED <<loads, lifeVars, timerVars, clientDoc, workerVars, toPage>>
        /\ (step' = "boot" /\ awaits' = Next1 /\ request("boot", "boot")) \/ GoTo("failed")
    BY <1>5 DEF Prepared
  <2>2. CASE step' = "boot" /\ awaits' = Next1 /\ request("boot", "boot")
    BY <2>1, <2>2, RequestIInv
  <2> QED BY <2>1, <2>2, BootGoesIInv
<1>6. CASE HookReturns
  <2>1. /\ step = "hook" /\ UNCHANGED <<loads, lifeVars, timerVars, clientDoc, workerVars, toPage>>
        /\ ReplayAndArm \/ GoTo("failed")
    BY <1>6 DEF HookReturns
  <2>2. CASE ~detached /\ ReplayAndArm
    <3>1. /\ step' = "arm" /\ awaits' = Next1
          /\ calls' = Append(calls, Call("lspArm", "boot", "queued"))
          /\ queue' = Append(queue, Next1) /\ running' = running
          /\ toWorker' = toWorker \/ toWorker' = Append(toWorker, [op |-> "lsp", call |-> 0])
      BY <2>2 DEF ReplayAndArm
    <3>2. loads = Snapshots
      BY <2>1 DEF IInv, BootOrder
    <3> QED BY <2>1, <3>1, <3>2, QueuesIInv
  <2>3. CASE GoTo("abandoned") \/ GoTo("failed")
    BY <2>1, <2>3, BootGoesIInv
  <2> QED BY <2>1, <2>2, <2>3 DEF ReplayAndArm
<1>7. ASSUME NEW op \in RuntimeCalls, PageCalls(op) PROVE IInv'
  <2>1. /\ step \notin {"arm", "serving", "failed", "abandoned"}
        /\ UNCHANGED <<step, awaits, loads, lifeVars, timerVars, clientDoc, workerVars, toPage, toWorker>>
        /\ calls' = Append(calls, Call(op, "page", "queued")) /\ queue' = Append(queue, Next1) /\ running' = running
    BY <1>7 DEF PageCalls, exclusive, bootVars
  <2>2. op # "lspArm"
    BY DEF RuntimeCalls
  <2> QED BY <2>1, <2>2, QueuesIInv
<1> QED BY <1>2, <1>3, <1>4, <1>5, <1>6, <1>7

(* The timers of the watchdog, and a worker that vanishes.                  *)
LEMMA QuietIInv == ASSUME IInv, LossTimer \/ PageFreezes \/ WorkerVanishes \/ UNCHANGED vars PROVE IInv'
<1>1. CASE LossTimer
  <2>1. /\ timer = "loss" /\ timer' = "probe" /\ probe' = Next1 /\ frozen' = FALSE /\ request("telemetry", "watch")
        /\ UNCHANGED <<step, awaits, loads, lifeVars, clientDoc, workerVars, toPage>>
    BY <1>1 DEF LossTimer, bootVars
  <2> QED BY <2>1, RequestIInv
<1>2. CASE PageFreezes
  BY <1>2, WatchIInv DEF PageFreezes
<1>3. CASE WorkerVanishes \/ UNCHANGED vars
  <2>1. /\ UNCHANGED <<calls, queue, running, step, awaits, loads, dead, reported, detached, timer, probe, frozen, clientDoc, w, toWorker, toPage>>
        /\ gone' \in BOOLEAN
    BY <1>3 DEF WorkerVanishes, vars, turnVars, bootVars, lifeVars, timerVars, workerVars, IInv, TypeOK
  <2>2. TypeOK'
    BY <2>1 DEF IInv, TypeOK
  <2>3. TurnsInOrder' /\ ArmIsLast' /\ BootOrder' /\ Sent' /\ Once'
    BY <2>1 DEF IInv, TurnsInOrder, ArmIsLast, Exclusive, BootOrder, Sent, Posted, Once
  <2>4. Owner(w)' /\ HasBooted' /\ Armed' /\ DeadIsTold' /\ RefusesNoneBooted'
    BY <2>1 DEF IInv, Owner, HasBooted, Booted, Exclusive, Armed, DeadIsTold, RefusesNoneBooted
  <2> QED BY <2>2, <2>3, <2>4 DEF IInv
<1> QED BY <1>1, <1>2, <1>3

-----------------------------------------------------------------------------
(* A session that has not begun.                                            *)
LEMMA InitIInv == Init => IInv
<1> SUFFICES ASSUME Init PROVE IInv
  OBVIOUS
<1>1. /\ calls = <<>> /\ queue = <<>> /\ running = 0 /\ step = "preparing" /\ awaits = 0 /\ loads = 0
      /\ dead = FALSE /\ reported = "no" /\ detached = FALSE /\ timer = "off" /\ probe = 0 /\ frozen = FALSE
      /\ clientDoc = FALSE /\ gone = FALSE /\ toWorker = <<>> /\ toPage = <<>>
  BY DEF Init
<1>2. DOMAIN calls = {} /\ DOMAIN queue = {} /\ DOMAIN toWorker = {} /\ DOMAIN toPage = {} /\ Len(calls) = 0
  BY <1>1
<1>3. /\ w \in Workers /\ w.state = "idle" /\ w.job = NoJob /\ NoJob.op = "none" /\ NoJob.call = 0
      /\ ~w.armed /\ ~w.resident
  BY DEF Init, freshWorker, NoJob, Workers
<1>4. TypeOK
  <2>1. calls \in Seq(CallRecords) /\ queue \in Seq(Nat) /\ toWorker \in Seq(Requests) /\ toPage \in Seq(Posts)
    BY <1>1, EmptySeq
  <2>2. {running, awaits, probe} \subseteq 0..Len(calls)
    <3>1. running \in 0..Len(calls) /\ awaits \in 0..Len(calls) /\ probe \in 0..Len(calls)  BY <1>1, <1>2
    <3> QED BY <3>1
  <2>4. {dead, detached, frozen, clientDoc, gone} \subseteq BOOLEAN
    <3>1. dead \in BOOLEAN /\ detached \in BOOLEAN /\ frozen \in BOOLEAN /\ clientDoc \in BOOLEAN /\ gone \in BOOLEAN  BY <1>1
    <3> QED BY <3>1
  <2>3. step \in Steps /\ loads \in 0..Snapshots
    BY <1>1, SessionAssumption DEF Steps
  <2> QED BY <1>1, <1>3, <2>1, <2>2, <2>3, <2>4 DEF TypeOK
<1>5. TurnsInOrder /\ ArmIsLast /\ BootOrder
  BY <1>1, <1>2 DEF TurnsInOrder, ArmIsLast, BootOrder
<1>6. Sent /\ Once
  BY <1>1, <1>2, <1>3 DEF Sent, Posted, Once
<1>7. Owner(w)
  BY <1>3 DEF Owner
<1>8. HasBooted /\ Armed /\ DeadIsTold /\ RefusesNoneBooted
  BY <1>1, <1>2, <1>3 DEF HasBooted, Armed, DeadIsTold, RefusesNoneBooted
<1> QED BY <1>4, <1>5, <1>6, <1>7, <1>8 DEF IInv

(* Every step keeps the invariant.                                          *)
LEMMA NextIInv == IInv /\ [Next]_vars => IInv'
<1> SUFFICES ASSUME IInv, [Next]_vars PROVE IInv'
  OBVIOUS
<1>1. CASE Microtask
  BY <1>1, TakeTurnIInv, BootResumesIInv, BootTaskIInv, EndsIInv DEF Microtask
<1>2. CASE PageTask
  BY <1>2, BootTaskIInv, ClientOpensIInv, ReceivesIInv, EndsIInv, QuietIInv DEF PageTask
<1>3. CASE WorkerTask
  BY <1>3, WorkerServesIInv, WorkerEndsIInv, WorkerBeatsIInv, WorkerDiesIInv, QuietIInv DEF WorkerTask
<1>4. CASE UNCHANGED vars
  BY <1>4, QuietIInv
<1> QED BY <1>1, <1>2, <1>3, <1>4 DEF Next

(* The invariant holds in every state of a session.                         *)
THEOREM SessionInvariant == Spec => []IInv
<1>1. Init => IInv
  BY InitIInv
<1>2. IInv /\ [Next]_vars => IInv'
  BY NextIInv
<1> QED BY <1>1, <1>2, PTL DEF Spec

(* The loop opens last, over every snapshot and with no runtime call left   *)
(* to serve; and once the runtime has booted nothing is refused.            *)
THEOREM SessionOneOwner == Spec => []OneOwnerAtATime
<1>1. IInv => OneOwnerAtATime
  <2> SUFFICES ASSUME IInv PROVE OpensLast
    BY DEF IInv, OneOwnerAtATime
  <2> SUFFICES ASSUME w.resident
        PROVE  loads = Snapshots /\ (\A k \in DOMAIN calls : calls[k].op \in RuntimeCalls => ~Waiting(k)) /\ w.job = NoJob
    BY DEF OpensLast
  <2>1. running # 0 /\ calls[running].op = "lspArm" /\ w.job = NoJob
    BY DEF IInv, Owner, Armed
  <2>2. running \in DOMAIN calls
    BY <2>1, SessionTypes DEF IInv
  <2>3. loads = Snapshots /\ \A j \in DOMAIN calls : Exclusive(calls, j) => j <= running
    BY <2>1, <2>2 DEF IInv, ArmIsLast
  <2>4. ASSUME NEW k \in DOMAIN calls, calls[k].op \in RuntimeCalls, Waiting(k) PROVE FALSE
    <3>1. Exclusive(calls, k) /\ k # running
      BY <2>1, <2>4 DEF Exclusive, RuntimeCalls
    <3>2. calls[k].outcome = "queued"
      BY <2>4, <3>1 DEF Waiting, IInv, TurnsInOrder
    <3>3. running < k
      BY <3>2 DEF IInv, TurnsInOrder
    <3>4. k \in Int /\ running \in Int
      BY <2>2, SessionTypes DEF IInv
    <3> QED BY <2>3, <3>1, <3>3, <3>4
  <2> QED BY <2>1, <2>3, <2>4
<1> QED BY <1>1, SessionInvariant, PTL

(* A busy worker is never declared dead by the watchdog.                    *)
THEOREM SessionHeartbeat == Spec => HeartbeatDeathIsReal
<1>1. IInv /\ [Next]_vars => [reported # "heartbeat" /\ reported' = "heartbeat" => gone \/ frozen]_vars
  <2> SUFFICES ASSUME IInv, Next, reported # "heartbeat", reported' = "heartbeat" PROVE gone \/ frozen
    OBVIOUS
  <2>1. ProbeTimer /\ ~Answered
    <3>1. CASE Microtask
      BY <3>1 DEF Microtask, TakeTurn, BootResumes, Warm, BootFailed, dispose, lifeVars
    <3>2. CASE PageTask
      <4>1. CASE Prepared \/ Prefetched \/ FilesFetched \/ HookReturns \/ \E op \in RuntimeCalls : PageCalls(op)
        BY <4>1 DEF Prepared, Prefetched, FilesFetched, HookReturns, PageCalls, lifeVars
      <4>2. CASE ClientOpens \/ PageDisposes \/ WorkerError \/ LossTimer \/ PageFreezes
        BY <4>2 DEF ClientOpens, PageDisposes, WorkerError, LossTimer, PageFreezes, dispose, died, lifeVars
      <4>3. CASE Receives
        <5>1. toPage # <<>> /\ Head(toPage) \in Posts
          <6>1. toPage # <<>> /\ toPage \in Seq(Posts)  BY <4>3 DEF Receives, IInv, TypeOK
          <6> QED BY <6>1, HeadTailProperties
        <5>2. Head(toPage).kind \in {"result", "error", "fatal", "died", "beat"}
          BY <5>1 DEF Posts
        <5>3. CASE Head(toPage).kind \in {"result", "error", "beat"}
          <6>1. UNCHANGED lifeVars  BY <4>3, <5>3 DEF Receives
          <6> QED BY <6>1 DEF lifeVars
        <5>4. CASE Head(toPage).kind = "fatal"
          <6>1. reported' = "error"  BY <4>3, <5>4 DEF Receives, died
          <6> QED BY <6>1
        <5>5. CASE Head(toPage).kind = "died"
          <6>1. reported' = "died"  BY <4>3, <5>5 DEF Receives, died
          <6> QED BY <6>1
        <5> QED BY <5>2, <5>3, <5>4, <5>5
      <4>4. CASE ProbeTimer
        BY <4>4 DEF ProbeTimer, lifeVars
      <4> QED BY <3>2, <4>1, <4>2, <4>3, <4>4 DEF PageTask
    <3>3. CASE WorkerTask
      BY <3>3 DEF WorkerTask, WorkerServes, WorkerEndsJob, WorkerBeats, WorkerDies, WorkerVanishes, pageVars, lifeVars
    <3> QED BY <3>1, <3>2, <3>3 DEF Next
  <2>2. timer = "probe" /\ (gone \/ frozen \/ w.job # NoJob)
    BY <2>1 DEF ProbeTimer
  <2>3. w.job = NoJob
    BY <2>2 DEF IInv, Armed
  <2> QED BY <2>2, <2>3
<1> QED BY <1>1, SessionInvariant, PTL DEF Spec, HeartbeatDeathIsReal
-----------------------------------------------------------------------------
(* What travels and what came of it: a plain body is its own bytes, and an  *)
(* announced length is that of what a server sent unencoded.                *)
unencoded(r) == r.encoding \in {"", "identity"}
ABody(body, Byte) ==
  /\ body.format \in {"gzip", "plain", "html"} /\ body.sent \in Nat /\ body.content \in Seq(Byte)
  /\ body.format = "plain" => body.sent = Len(body.content)
AResponse(r, Byte) ==
  /\ ABody(r.body, Byte) /\ r.arrived \in 0..r.body.sent
  /\ r.length \in Nat /\ (unencoded(r) => r.length \in {0, r.body.sent})
AnIndexEntry(transferBytes, r) == transferBytes \in Nat /\ (r.body.format = "gzip" => transferBytes \in {0, r.body.sent})

(* A set of naturals has a least element.                                   *)
LEMMA LeastNat ==
  ASSUME NEW T \in SUBSET Nat, T # {}
  PROVE  \E m \in T : \A x \in T : m <= x
<1>1. \E m \in T : \A x \in T : ~(<<x, m>> \in OpToRel(<, Nat))
  BY NatLessThanWellFounded, WFMin
<1>2. PICK m \in T : \A x \in T : ~(<<x, m>> \in OpToRel(<, Nat))
  BY <1>1
<1>3. \A x \in T : x < m => <<x, m>> \in OpToRel(<, Nat)
  BY DEF OpToRel
<1>4. \A x \in T : ~(x < m)
  BY <1>2, <1>3
<1>5. \A x \in T : x \in Nat /\ m \in Nat
  OBVIOUS
<1> QED BY <1>4, <1>5

(* The first guard that holds decides a refusal; none holds where there is  *)
(* no refusal.                                                              *)
LEMMA FirstGuard ==
  ASSUME NEW gs, Len(gs) \in Nat, \A i \in 1..Len(gs) : gs[i][2] # "none", refusal(gs) = "none"
  PROVE  \A i \in 1..Len(gs) : ~gs[i][1]
<1> DEFINE T == {i \in 1..Len(gs) : gs[i][1]}
<1>1. refusal(gs) = IF (IF T # {} THEN Min(T) ELSE 0) = 0 THEN "none" ELSE gs[IF T # {} THEN Min(T) ELSE 0][2]
  BY DEF refusal, SelectInSeq
<1> SUFFICES ASSUME T # {} PROVE FALSE
  OBVIOUS
<1>2. T \in SUBSET Nat /\ \A x \in T : x \in 1..Len(gs)
  OBVIOUS
<1>3. \E m \in T : \A x \in T : m <= x
  BY <1>2, LeastNat
<1>4. Min(T) \in T
  BY <1>3 DEF Min
<1>5. Min(T) # 0 /\ gs[Min(T)][2] # "none"
  BY <1>2, <1>4
<1> QED BY <1>1, <1>5

(* A load goes on only past all its guards.                                 *)
LEMMA Unrefused ==
  ASSUME NEW input, NEW booted, NEW exported,
         refusal(refusals("ready", FALSE, input, booted, exported)) = "none"
  PROVE  input.sameOrigin /\ input.runtime \in {"", booted} /\ ~(input.expectedBytes <= 0)
<1> DEFINE unnamed == input.runtime = ""
           c1 == FALSE \/ "ready" # "ready"
           c2 == ~input.shape
           c3 == ~input.sameOrigin
           c4 == input.runtime # "" /\ input.runtime # booted
           c5 == ~exported \/ input.expectedBytes <= 0
           gs == << <<c1, "BAD_STATE">>, <<c2, "INVALID_MESSAGE">>, <<c3, "SNAPSHOT_URL_REFUSED">>,
                    <<c4, "SNAPSHOT_UNPAIRED">>, <<c5, "SNAPSHOT_FAILED">> >>
<1>1. refusals("ready", FALSE, input, booted, exported) = gs
  BY Zenon DEF refusals
<1>2. c4 <=> ~(input.runtime \in {"", booted})
  BY Zenon
<1>3. c5 <=> (~exported \/ input.expectedBytes <= 0)
  OBVIOUS
<1>4. c3 <=> ~input.sameOrigin
  OBVIOUS
<1> HIDE DEF c1, c2, c3, c4, c5
<1>5. Len(gs) = 5 /\ gs[1] = <<c1, "BAD_STATE">> /\ gs[2] = <<c2, "INVALID_MESSAGE">> /\ gs[3] = <<c3, "SNAPSHOT_URL_REFUSED">>
      /\ gs[4] = <<c4, "SNAPSHOT_UNPAIRED">> /\ gs[5] = <<c5, "SNAPSHOT_FAILED">>
  OBVIOUS
<1> HIDE DEF gs
<1>6. \A i \in 1..5 : i = 1 \/ i = 2 \/ i = 3 \/ i = 4 \/ i = 5
  OBVIOUS
<1>7. \A i \in 1..Len(gs) : gs[i][2] # "none"
  BY <1>5, <1>6
<1>8. \A i \in 1..Len(gs) : ~gs[i][1]
  <2>1. refusal(gs) = "none"
    BY <1>1, Zenon
  <2>2. Len(gs) \in Nat
    BY <1>5
  <2> QED BY <1>7, <2>1, <2>2, FirstGuard, Zenon
<1>9. ~c3 /\ ~c4 /\ ~c5
  BY <1>5, <1>8
<1> QED BY <1>2, <1>3, <1>4, <1>9, Zenon

(* Of a body it reads, a part that is whole is a prefix of what it is.      *)
LEMMA CutPrefix ==
  ASSUME NEW Byte, NEW s \in Seq(Byte), NEW n \in 0..Len(s)
  PROVE  SubSeq(s, 1, n) \in Seq(Byte) /\ Len(SubSeq(s, 1, n)) = n /\ IsPrefix(SubSeq(s, 1, n), s)
<1>1. SubSeq(s, 1, n) \in Seq(Byte) /\ Len(SubSeq(s, 1, n)) = n
  BY SubSeqProperties
<1>2. SubSeq(SubSeq(s, 1, n), 1, n) = SubSeq(s, 1, n)
  BY <1>1, SubSeqFull
<1> QED BY <1>1, <1>2 DEF IsPrefix

(* A throw leaves no region. *)
LEMMA ThrowsNoRegion ==
  ASSUME NEW whys, NEW holding, NEW o \in Throws(whys, holding)
  PROVE  o.region = {} /\ o.why \in whys
BY DEF Throws

(* What an attempt leaves of what the cache gave it.                        *)
LEMMA WarmEnds ==
  ASSUME NEW Byte, NEW entry, entry.content \in Seq(Byte), NEW total \in Int, total > 0, NEW memory,
         NEW o \in warmLoad(entry, total, memory)
  PROVE  /\ heldAfter(o) <=> o.region # {}
         /\ \A g \in o.region : Len(g) = total /\ g[1] = OLEAN /\ IsPrefix(g, entry.content)
<1>1. CASE o.region = {}
  BY <1>1 DEF heldAfter
<1>2. CASE o.region # {}
  <2>1. o \in Filled(SubSeq(entry.content, 1, total))
        /\ ~(entry.content # <<>> /\ entry.content[1] # OLEAN) /\ ~(Len(entry.content) < total)
    BY <1>2, ThrowsNoRegion, Zenon DEF warmLoad
  <2>2. o.region = {SubSeq(entry.content, 1, total)} /\ o.allocated
    BY <2>1 DEF Filled
  <2>3. Len(entry.content) \in Nat /\ total \in 0..Len(entry.content) /\ entry.content # <<>>
    BY <2>1
  <2>4. SubSeq(entry.content, 1, total)[1] = entry.content[1]
    BY <2>3
  <2> QED BY <2>1, <2>2, <2>3, <2>4, CutPrefix DEF heldAfter
<1> QED BY <1>1, <1>2

(* What it leaves of what the network brought.                              *)
LEMMA ColdEnds ==
  ASSUME NEW Byte, NEW r, AResponse(r, Byte), NEW total \in Int, total > 0, NEW transferBytes, NEW memory,
         NEW o \in coldLoad(r, total, transferBytes, memory)
  PROVE  /\ heldAfter(o) <=> o.region # {}
         /\ \A g \in o.region : Len(g) = total /\ g[1] = OLEAN /\ IsPrefix(g, r.body.content)
<1>1. CASE o.region = {}
  BY <1>1 DEF heldAfter
<1>2. CASE o.region # {}
  <2> DEFINE got == IF r.body.format = "gzip" THEN r.body.content ELSE SubSeq(r.body.content, 1, r.arrived)
  <2>1. o \in streamed(r, total, transferBytes) /\ r.body.format # "html"
    BY <1>2, ThrowsNoRegion, Zenon DEF coldLoad
  <2>2. o \in Filled(got) /\ wrongBytes(got, total) = {} /\ Len(got) = total
    <3> DEFINE cut == r.arrived < expectedTransfer(r, transferBytes)
               corrupt == r.body.format = "gzip" /\ r.arrived < r.body.sent
               bad == wrongBytes(got, total)
    <3>1. streamed(r, total, transferBytes) =
            IF cut THEN Throws({"ended early"} \cup bad, TRUE)
            ELSE IF corrupt THEN Throws({"corrupt"} \cup bad, TRUE)
            ELSE IF bad # {} THEN Throws(bad, TRUE)
            ELSE IF Len(got) # total THEN Throws({"not the declared bytes"}, TRUE)
            ELSE Filled(got)
      BY Zenon DEF streamed
    <3> HIDE DEF cut, corrupt, bad, got
    <3>2. o \in Filled(got) /\ bad = {} /\ Len(got) = total
      <4>1. \A whys : o \notin Throws(whys, TRUE)
        BY <1>2, ThrowsNoRegion, Zenon
      <4>2. o \in streamed(r, total, transferBytes)
        BY <2>1
      <4>3. CASE cut
        BY <3>1, <4>1, <4>2, <4>3, Zenon
      <4>4. CASE ~cut /\ corrupt
        BY <3>1, <4>1, <4>2, <4>4, Zenon
      <4>5. CASE ~cut /\ ~corrupt
        BY <3>1, <4>1, <4>2, <4>5, Zenon
      <4> QED BY <4>3, <4>4, <4>5
    <3> QED BY <3>2 DEF bad
  <2>3. got \in Seq(Byte) /\ IsPrefix(got, r.body.content)
    <3>1. r.body.content \in Seq(Byte) /\ Len(r.body.content) \in Nat /\ IsPrefix(r.body.content, r.body.content)
      BY DEF AResponse, ABody, IsPrefix
    <3>2. r.body.format # "gzip" => r.arrived \in 0..Len(r.body.content)
      BY <2>1 DEF AResponse, ABody
    <3> QED BY <3>1, <3>2, CutPrefix
  <2>4. got # <<>> /\ got[1] = OLEAN
    <3>1. got # <<>>
      <4> HIDE DEF got
      <4> QED BY <2>2, <2>3
    <3>2. got[1] # OLEAN => "not a region" \in wrongBytes(got, total)
      BY <3>1 DEF wrongBytes
    <3> QED BY <2>2, <3>1, <3>2
  <2> HIDE DEF got
  <2>5. o.region = {got} /\ o.allocated
    BY <2>2 DEF Filled
  <2> QED BY <2>2, <2>3, <2>4, <2>5 DEF heldAfter
<1> QED BY <1>1, <1>2

(* For every index entry, cache and response, a load that is not refused    *)
(* is of this site and for this runtime (or of an index that names none),   *)
(* and a region that reaches the runtime has the bytes the index declares,   *)
(* begins as regions do, and is the beginning of what the cache or the      *)
(* server held; whatever fails leaves no allocation (loadSnapshot).         *)
THEOREM LoadsOnlyARegion ==
  ASSUME NEW Byte, NEW input, input.expectedBytes \in Int, NEW cache, \A e \in cache : e.content \in Seq(Byte),
         NEW r, AResponse(r, Byte), NEW memory, NEW booted, NEW exported,
         refusal(refusals("ready", FALSE, input, booted, exported)) = "none"
  PROVE  /\ input.sameOrigin /\ input.runtime \in {"", booted}
         /\ \A o \in attempt(input, cache, r, memory) :
              /\ heldAfter(o) <=> o.region # {}
              /\ \A g \in o.region :
                   /\ Len(g) = input.expectedBytes /\ g[1] = OLEAN
                   /\ \E c \in {e.content : e \in cache} \cup {r.body.content} : IsPrefix(g, c)
<1>1. input.sameOrigin /\ input.runtime \in {"", booted}
  BY Unrefused, Zenon
<1>2. input.expectedBytes > 0
  <2>1. ~(input.expectedBytes <= 0)
    BY Unrefused, Zenon
  <2> QED BY <2>1
<1> DEFINE total == input.expectedBytes
           raw == openRawSnapshot(cache, input.keyed, total)
           e0 == CHOOSE e \in raw : TRUE
           Sound(o) == /\ heldAfter(o) <=> o.region # {}
                       /\ \A g \in o.region :
                            /\ Len(g) = total /\ g[1] = OLEAN
                            /\ \E c \in {e.content : e \in cache} \cup {r.body.content} : IsPrefix(g, c)
<1>3. CASE raw # {}
  <2>1. e0 \in raw /\ e0 \in cache
    BY <1>3 DEF openRawSnapshot
  <2>2. attempt(input, cache, r, memory) = warmLoad(e0, total, memory)
    BY <1>3, Zenon DEF attempt
  <2> HIDE DEF e0
  <2>3. \A o \in warmLoad(e0, total, memory) :
          /\ heldAfter(o) <=> o.region # {}
          /\ \A g \in o.region : Len(g) = total /\ g[1] = OLEAN /\ IsPrefix(g, e0.content)
    BY <1>2, <2>1, WarmEnds
  <2>4. \A o \in attempt(input, cache, r, memory) : Sound(o)
    BY <2>1, <2>2, <2>3, Zenon
  <2> QED BY <1>1, <2>4, Zenon
<1>4. CASE raw = {}
  <2>1. attempt(input, cache, r, memory) = coldLoad(r, total, input.transferBytes, memory)
    BY <1>4, Zenon DEF attempt
  <2>2. \A o \in coldLoad(r, total, input.transferBytes, memory) :
          /\ heldAfter(o) <=> o.region # {}
          /\ \A g \in o.region : Len(g) = total /\ g[1] = OLEAN /\ IsPrefix(g, r.body.content)
    BY <1>2, ColdEnds
  <2>3. \A o \in attempt(input, cache, r, memory) : Sound(o)
    BY <2>1, <2>2, Zenon
  <2> QED BY <1>1, <2>3, Zenon
<1> QED BY <1>3, <1>4, Zenon

(* A length that is known is that of what was sent.                         *)
LEMMA KnownLength ==
  ASSUME NEW Byte, NEW r, AResponse(r, Byte), NEW transferBytes, AnIndexEntry(transferBytes, r)
  PROVE  /\ announced(r) \in {0, r.body.sent} /\ expectedTransfer(r, transferBytes) \in {0, r.body.sent}
         /\ unencoded(r) => announced(r) = r.length
         /\ r.body.format = "gzip" /\ transferBytes > 0 => expectedTransfer(r, transferBytes) > 0
         /\ unencoded(r) /\ r.length > 0 => expectedTransfer(r, transferBytes) > 0
<1>1. announced(r) = IF unencoded(r) THEN r.length ELSE 0
  BY Zenon DEF announced, unencoded
<1>2. r.length \in Nat /\ r.body.sent \in Nat /\ (unencoded(r) => r.length \in {0, r.body.sent})
  BY DEF AResponse, ABody
<1>3. announced(r) \in {0, r.body.sent} /\ (unencoded(r) => announced(r) = r.length)
  BY <1>1, <1>2
<1>4. transferBytes \in Nat /\ (r.body.format = "gzip" => transferBytes \in {0, r.body.sent})
  BY DEF AnIndexEntry
<1> QED BY <1>2, <1>3, <1>4 DEF expectedTransfer

(* Why a load from the network fails.                                       *)
LEMMA ColdWhys ==
  ASSUME NEW Byte, NEW r, AResponse(r, Byte), NEW total \in Int, NEW transferBytes, AnIndexEntry(transferBytes, r),
         NEW memory, NEW o \in coldLoad(r, total, transferBytes, memory), o.region = {}
  PROVE  \/ o.why = "HTTP" /\ ~r.ok
         \/ r.ok /\ o.why \in {"redirected", "HTML", "no memory"}
         \/ r.ok /\ o.why = "ended early" /\ r.arrived < r.body.sent
         \/ r.ok /\ o.why = "empty" /\ r.arrived = 0 /\ announced(r) = 0
         \/ /\ r.ok /\ o.why \in {"not a region", "more than declared"}
            /\ (r.body.content # <<>> /\ r.body.content[1] # OLEAN) \/ Len(r.body.content) > total
         \/ /\ r.ok /\ o.why \in {"corrupt", "not the declared bytes"}
            /\ expectedTransfer(r, transferBytes) = 0 \/ r.arrived = r.body.sent
<1> DEFINE got == IF r.body.format = "gzip" THEN r.body.content ELSE SubSeq(r.body.content, 1, r.arrived)
           bad == wrongBytes(got, total)
           cut == r.arrived < expectedTransfer(r, transferBytes)
           corrupt == r.body.format = "gzip" /\ r.arrived < r.body.sent
<1>1. r.arrived \in 0..r.body.sent /\ r.body.sent \in Nat /\ r.body.content \in Seq(Byte)
  BY DEF AResponse, ABody
<1>2. expectedTransfer(r, transferBytes) \in {0, r.body.sent} /\ announced(r) \in {0, r.body.sent}
  BY KnownLength
<1>3. ASSUME NEW why \in bad, r.arrived > 0, r.body.format # "html"
      PROVE  /\ why \in {"not a region", "more than declared"}
             /\ (r.body.content # <<>> /\ r.body.content[1] # OLEAN) \/ Len(r.body.content) > total
  <2>1. \/ why = "not a region" /\ got # <<>> /\ got[1] # OLEAN
        \/ why = "more than declared" /\ Len(got) > total
    BY DEF wrongBytes
  <2>2. r.body.format # "gzip" => r.arrived \in 0..Len(r.body.content)
    BY <1>3 DEF AResponse, ABody
  <2>3. Len(got) <= Len(r.body.content) /\ Len(r.body.content) \in Nat /\ Len(got) \in Nat
    BY <1>1, <2>2
  <2>4. got # <<>> => r.body.content # <<>> /\ got[1] = r.body.content[1]
    BY <1>1, <1>3, <2>2
  <2>5. Len(got) > total => Len(r.body.content) > total
    <3> HIDE DEF got
    <3> QED BY <2>3
  <2> HIDE DEF got, bad
  <2> QED BY <2>1, <2>4, <2>5
<1>4. streamed(r, total, transferBytes) =
        IF cut THEN Throws({"ended early"} \cup bad, TRUE)
        ELSE IF corrupt THEN Throws({"corrupt"} \cup bad, TRUE)
        ELSE IF bad # {} THEN Throws(bad, TRUE)
        ELSE IF Len(got) # total THEN Throws({"not the declared bytes"}, TRUE)
        ELSE Filled(got)
  BY Zenon DEF streamed
<1>5. cut => r.arrived < r.body.sent
  BY <1>1, <1>2
<1>6. ~cut => expectedTransfer(r, transferBytes) = 0 \/ r.arrived = r.body.sent
  BY <1>1, <1>2
<1>7. \A g : o \notin Filled(g)
  BY DEF Filled
<1> HIDE DEF got, bad, cut, corrupt
<1>13. \A whys, holding : o \in Throws(whys, holding) => o.why \in whys
  BY ThrowsNoRegion, Zenon
<1>8. CASE ~r.ok
  <2>1. o \in Throws({"HTTP"}, FALSE)
    BY <1>8 DEF coldLoad
  <2> QED BY <1>8, <2>1, <1>13
<1>9. CASE r.ok /\ (r.redirectedOff \/ r.html \/ ~memory)
  <2>1. o \in Throws({"redirected"}, FALSE) \/ o \in Throws({"HTML"}, FALSE) \/ o \in Throws({"no memory"}, FALSE)
    BY <1>9 DEF coldLoad
  <2> QED BY <1>9, <2>1, <1>13
<1>10. CASE r.ok /\ ~(r.redirectedOff \/ r.html \/ ~memory) /\ r.arrived = 0
  <2>1. o \in Throws({IF announced(r) > 0 THEN "ended early" ELSE "empty"}, TRUE)
    BY <1>10 DEF coldLoad
  <2>2. o.why = IF announced(r) > 0 THEN "ended early" ELSE "empty"
    BY <2>1, <1>13
  <2>3. announced(r) > 0 => r.arrived < r.body.sent
    BY <1>1, <1>2, <1>10
  <2>4. ~(announced(r) > 0) => announced(r) = 0
    BY <1>1, <1>2
  <2> QED BY <1>10, <2>2, <2>3, <2>4
<1>11. CASE r.ok /\ ~(r.redirectedOff \/ r.html \/ ~memory) /\ r.arrived # 0 /\ r.body.format = "html"
  <2>1. o \in Throws({"HTML"}, TRUE)
    BY <1>11 DEF coldLoad
  <2> QED BY <1>11, <2>1, <1>13
<1>12. CASE r.ok /\ ~(r.redirectedOff \/ r.html \/ ~memory) /\ r.arrived # 0 /\ r.body.format # "html"
  <2>1. o \in streamed(r, total, transferBytes)
    BY <1>12 DEF coldLoad
  <2>2. r.arrived > 0
    BY <1>1, <1>12
  <2>3. CASE cut
    <3>1. o.why \in {"ended early"} \cup bad
      BY <1>4, <2>1, <2>3, <1>13, Zenon
    <3> QED BY <1>3, <1>5, <1>12, <2>2, <2>3, <3>1
  <2>4. CASE ~cut /\ corrupt
    <3>1. o.why \in {"corrupt"} \cup bad
      BY <1>4, <2>1, <2>4, <1>13, Zenon
    <3> QED BY <1>3, <1>6, <1>12, <2>2, <2>4, <3>1
  <2>5. CASE ~cut /\ ~corrupt /\ bad # {}
    <3>1. o.why \in bad
      BY <1>4, <2>1, <2>5, <1>13, Zenon
    <3> QED BY <1>3, <1>12, <2>2, <3>1
  <2>6. CASE ~cut /\ ~corrupt /\ bad = {}
    <3>1. o \in Throws({"not the declared bytes"}, TRUE)
      BY <1>4, <1>7, <2>1, <2>6, Zenon
    <3>2. o.why = "not the declared bytes"
      BY <3>1, <1>13
    <3> QED BY <1>6, <1>12, <2>6, <3>2
  <2> QED BY <2>3, <2>4, <2>5, <2>6, Zenon
<1> QED BY <1>8, <1>9, <1>10, <1>11, <1>12, Zenon

(* The first rule that holds decides a kind.                                *)
LEMMA FirstRule ==
  ASSUME NEW f, Len(kindRules(f)) \in Nat, NEW i \in 1..Len(kindRules(f)), kindRules(f)[i][1],
         \A j \in 1..(i - 1) : ~kindRules(f)[j][1]
  PROVE  failureKindOf(f) = kindRules(f)[i][2]
<1> DEFINE rules == kindRules(f)
           T == {j \in 1..Len(rules) : rules[j][1]}
<1>1. failureKindOf(f) = IF (IF T # {} THEN Min(T) ELSE 0) = 0 THEN "other" ELSE rules[IF T # {} THEN Min(T) ELSE 0][2]
  BY DEF failureKindOf, SelectInSeq
<1> HIDE DEF rules
<1>2. i \in T /\ \A j \in T : i <= j
  BY DEF rules
<1>3. Min(T) = i
  BY <1>2 DEF Min
<1>4. T # {} /\ i # 0
  BY <1>2
<1>5. failureKindOf(f) = rules[i][2]
  BY <1>1, <1>3, <1>4, Zenon
<1> QED BY <1>5 DEF rules

(* What a page should make of each failure of a load.                       *)
Gone(status) == status \in (400..499) \ Retryable
KindFits(why, status, kind) ==
  /\ why = "HTTP" => kind = IF Gone(status) THEN "missing" ELSE "network"
  /\ why = "HTML" => kind = "missing"
  /\ why = "redirected" => kind = "other"
  /\ why = "no memory" => kind = "oom"
  /\ why = "ended early" => kind = "network"
  /\ why \notin {"HTTP", "HTML", "redirected", "no memory", "ended early"} => kind = "corrupt"
(* The table's answer for each of them.                                     *)
LEMMA KindOf ==
  ASSUME NEW why, NEW status \in Nat
  PROVE  KindFits(why, status, failureKindOf(loadFailure(why, status)))
<1> DEFINE f == loadFailure(why, status)
           words == CASE why = "HTTP"        -> {x \in {"no connection"} : status = 0}
                      [] why = "HTML"        -> {"html"}
                      [] why = "redirected"  -> {"url refused"}
                      [] why = "no memory"   -> {"allocation"}
                      [] why = "ended early" -> {"ended early"}
                      [] OTHER               -> {"wrong bytes"}
           bytes == why \notin {"HTTP", "HTML", "redirected", "no memory", "ended early"}
           c1 == f.code = WORKER_DEP_MISMATCH \/ "mixed versions" \in f.words
           c2 == f.code = "SNAPSHOT_UNPAIRED" \/ "baked for another" \in f.words
           c3 == f.code = "SNAPSHOT_URL_REFUSED" \/ "url refused" \in f.words
           c4 == f.code = "SNAPSHOT_NOT_IN_INDEX"
           c5 == f.code = "RUNTIME_MANIFEST_MISMATCH"
           c6 == f.status \in (400 .. 499) \ Retryable
           c7 == "html" \in f.words
           c8 == f.code = "MEMORY_FAILED" \/ "allocation" \in f.words
           c9 == "ended early" \in f.words
           c10 == "wrong bytes" \in f.words
           c11 == f.code = "RUNTIME_FETCH_FAILED" \/ f.status # 0 \/ "no connection" \in f.words
           c12 == "storage" \in f.words
           rules == << <<c1, "stale">>, <<c2, "unpaired">>, <<c3, "other">>, <<c4, "missing">>, <<c5, "corrupt">>,
                       <<c6, "missing">>, <<c7, "missing">>, <<c8, "oom">>, <<c9, "network">>, <<c10, "corrupt">>,
                       <<c11, "network">>, <<c12, "storage">> >>
<1>1. f.code = "SNAPSHOT_FAILED" /\ f.status = (IF why = "HTTP" THEN status ELSE 0) /\ f.words = words
  BY DEF loadFailure, Failure
<1>2. /\ why = "HTTP" => words = {x \in {"no connection"} : status = 0}
      /\ why = "HTML" => words = {"html"}
      /\ why = "redirected" => words = {"url refused"}
      /\ why = "no memory" => words = {"allocation"}
      /\ why = "ended early" => words = {"ended early"}
      /\ bytes => words = {"wrong bytes"}
  OBVIOUS
<1>3. kindRules(f) = rules
  BY Zenon DEF kindRules
<1> HIDE DEF words, f
<1>4. ~c1 /\ ~c2 /\ ~c4 /\ ~c5
  BY <1>1, <1>2 DEF WORKER_DEP_MISMATCH
<1>5. c3 <=> why = "redirected"
  BY <1>1, <1>2
<1>6. c6 <=> why = "HTTP" /\ Gone(status)
  BY <1>1 DEF Gone
<1>7. c7 <=> why = "HTML"
  BY <1>1, <1>2
<1>8. c8 <=> why = "no memory"
  BY <1>1, <1>2
<1>9. c9 <=> why = "ended early"
  BY <1>1, <1>2
<1>10. c10 <=> bytes
  BY <1>1, <1>2
<1>11. c11 <=> why = "HTTP"
  BY <1>1, <1>2
<1> HIDE DEF c1, c2, c3, c4, c5, c6, c7, c8, c9, c10, c11, c12
<1>12. /\ Len(rules) = 12
       /\ rules[1] = <<c1, "stale">> /\ rules[2] = <<c2, "unpaired">> /\ rules[3] = <<c3, "other">>
       /\ rules[4] = <<c4, "missing">> /\ rules[5] = <<c5, "corrupt">> /\ rules[6] = <<c6, "missing">>
       /\ rules[7] = <<c7, "missing">> /\ rules[8] = <<c8, "oom">> /\ rules[9] = <<c9, "network">>
       /\ rules[10] = <<c10, "corrupt">> /\ rules[11] = <<c11, "network">>
  OBVIOUS
<1> HIDE DEF rules
<1> DEFINE c(i) == rules[i][1]
<1>13. /\ (c(1) <=> c1) /\ (c(2) <=> c2) /\ (c(3) <=> c3) /\ (c(4) <=> c4) /\ (c(5) <=> c5) /\ (c(6) <=> c6)
       /\ (c(7) <=> c7) /\ (c(8) <=> c8) /\ (c(9) <=> c9) /\ (c(10) <=> c10) /\ (c(11) <=> c11)
  BY <1>12
<1>14. ASSUME NEW i \in 1..11, c(i), \A j \in 1..(i - 1) : ~c(j)
       PROVE  failureKindOf(f) = rules[i][2]
  <2>1. Len(kindRules(f)) \in Nat /\ i \in 1..Len(kindRules(f))
    BY <1>3, <1>12
  <2>2. kindRules(f)[i][1]
    BY <1>3, <1>14, Zenon
  <2>3. \A j \in 1..(i - 1) : ~kindRules(f)[j][1]
    BY <1>3, <1>14, Zenon
  <2>4. failureKindOf(f) = kindRules(f)[i][2]
    BY <2>1, <2>2, <2>3, FirstRule, Zenon
  <2> QED BY <1>3, <2>4, Zenon
<1> DEFINE kind == failureKindOf(f)
<1>15. /\ c(6) /\ ~c3 => kind = "missing"
       /\ c(7) /\ ~c3 /\ ~c6 => kind = "missing"
       /\ c(3) => kind = "other"
       /\ c(8) /\ ~c3 /\ ~c6 /\ ~c7 => kind = "oom"
       /\ c(9) /\ ~c3 /\ ~c6 /\ ~c7 /\ ~c8 => kind = "network"
       /\ c(10) /\ ~c3 /\ ~c6 /\ ~c7 /\ ~c8 /\ ~c9 => kind = "corrupt"
       /\ c(11) /\ ~c3 /\ ~c6 /\ ~c7 /\ ~c8 /\ ~c9 /\ ~c10 => kind = "network"
  <2> DEFINE off(i) == \A j \in 1..(i - 1) : ~c(j)
  <2>1. /\ off(3)
        /\ ~c3 => off(6)
        /\ ~c3 /\ ~c6 => off(7)
        /\ ~c3 /\ ~c6 /\ ~c7 => off(8)
        /\ ~c3 /\ ~c6 /\ ~c7 /\ ~c8 => off(9)
        /\ ~c3 /\ ~c6 /\ ~c7 /\ ~c8 /\ ~c9 => off(10)
        /\ ~c3 /\ ~c6 /\ ~c7 /\ ~c8 /\ ~c9 /\ ~c10 => off(11)
    <3> HIDE DEF c
    <3>1. \A i \in 1..11 : i = 1 \/ i = 2 \/ i = 3 \/ i = 4 \/ i = 5 \/ i = 6 \/ i = 7 \/ i = 8 \/ i = 9 \/ i = 10 \/ i = 11
      OBVIOUS
    <3> QED BY <1>4, <1>13, <3>1
  <2>2. \A i \in 1..11 : c(i) /\ off(i) => kind = rules[i][2]
    BY <1>14
  <2> HIDE DEF c, off, kind
  <2> QED BY <1>12, <2>1, <2>2
<1> HIDE DEF c, kind
<1>16. /\ why = "HTTP" => ~c3 /\ ~c7 /\ ~c8 /\ ~c9 /\ ~c10 /\ c11 /\ (c6 <=> Gone(status))
       /\ why = "HTML" => ~c3 /\ ~c6 /\ c7
       /\ why = "redirected" => c3
       /\ why = "no memory" => ~c3 /\ ~c6 /\ ~c7 /\ c8
       /\ why = "ended early" => ~c3 /\ ~c6 /\ ~c7 /\ ~c8 /\ c9
       /\ bytes => ~c3 /\ ~c6 /\ ~c7 /\ ~c8 /\ ~c9 /\ c10
  BY <1>5, <1>6, <1>7, <1>8, <1>9, <1>10, <1>11
<1> HIDE DEF bytes
<1>17. /\ why = "HTTP" => kind = IF Gone(status) THEN "missing" ELSE "network"
       /\ why = "HTML" => kind = "missing"
       /\ why = "redirected" => kind = "other"
       /\ why = "no memory" => kind = "oom"
       /\ why = "ended early" => kind = "network"
       /\ bytes => kind = "corrupt"
  BY <1>13, <1>15, <1>16, Zenon
<1> QED BY <1>17, Zenon DEF kind, bytes, f, KindFits

(* A load from the network is called the network's, so that a retry may     *)
(* help, only when bytes it was promised did not come or the server asked   *)
(* to be tried again; and corrupt, once the length is known, only when all  *)
(* of them came, what was sent is no region of the declared length, or none *)
(* came and the response announced no length.  A transfer of a region that  *)
(* is cut, where its length is announced or indexed, is told nothing but    *)
(* that it ended early (loadSnapshot, failureKindOf).                       *)
THEOREM NetworkIsWhatARetryHelps ==
  ASSUME NEW Byte, NEW r, AResponse(r, Byte), NEW total \in Int, NEW transferBytes, AnIndexEntry(transferBytes, r),
         NEW memory, NEW status \in Nat, NEW o \in coldLoad(r, total, transferBytes, memory), o.region = {}
  PROVE  LET kind == failureKindOf(loadFailure(o.why, status))
             whole == r.body.content # <<>> /\ r.body.content[1] = OLEAN /\ Len(r.body.content) = total
             known == expectedTransfer(r, transferBytes) > 0
         IN  /\ kind = "network" => IF r.ok THEN r.arrived < r.body.sent ELSE ~Gone(status)
             /\ ~r.ok => kind = IF Gone(status) THEN "missing" ELSE "network"
             /\ r.ok /\ kind = "corrupt" /\ known =>
                  r.arrived = r.body.sent \/ ~whole \/ (r.arrived = 0 /\ announced(r) = 0)
             /\ /\ r.ok /\ ~r.redirectedOff /\ ~r.html /\ memory /\ r.body.format # "html" /\ whole /\ known
                /\ r.arrived \in 1..(r.body.sent - 1)
                => o.why = "ended early" /\ kind = "network"
<1> DEFINE kind == failureKindOf(loadFailure(o.why, status))
           whole == r.body.content # <<>> /\ r.body.content[1] = OLEAN /\ Len(r.body.content) = total
           known == expectedTransfer(r, transferBytes) > 0
<1>1. KindFits(o.why, status, kind)
  BY KindOf, Zenon
<1>2. \/ o.why = "HTTP" /\ ~r.ok
      \/ r.ok /\ o.why \in {"redirected", "HTML", "no memory"}
      \/ r.ok /\ o.why = "ended early" /\ r.arrived < r.body.sent
      \/ r.ok /\ o.why = "empty" /\ r.arrived = 0 /\ announced(r) = 0
      \/ /\ r.ok /\ o.why \in {"not a region", "more than declared"}
         /\ (r.body.content # <<>> /\ r.body.content[1] # OLEAN) \/ Len(r.body.content) > total
      \/ /\ r.ok /\ o.why \in {"corrupt", "not the declared bytes"}
         /\ expectedTransfer(r, transferBytes) = 0 \/ r.arrived = r.body.sent
  BY ColdWhys, Zenon
<1> HIDE DEF kind
<1>3. kind = "network" => IF r.ok THEN r.arrived < r.body.sent ELSE ~Gone(status)
  BY <1>1, <1>2 DEF KindFits
<1>4. ~r.ok => kind = IF Gone(status) THEN "missing" ELSE "network"
  BY <1>1, <1>2 DEF KindFits
<1>5. (r.body.content # <<>> /\ r.body.content[1] # OLEAN) \/ Len(r.body.content) > total => ~whole
  <2>1. Len(r.body.content) \in Nat
    BY DEF AResponse, ABody
  <2> QED BY <2>1
<1>6. r.ok /\ kind = "corrupt" /\ known => r.arrived = r.body.sent \/ ~whole \/ (r.arrived = 0 /\ announced(r) = 0)
  <2>1. known => expectedTransfer(r, transferBytes) # 0
    OBVIOUS
  <2> HIDE DEF known, whole
  <2> QED BY <1>1, <1>2, <1>5, <2>1 DEF KindFits
<1>7. ASSUME r.ok, ~r.redirectedOff, ~r.html, memory, r.body.format # "html", whole, known, r.arrived \in 1..(r.body.sent - 1)
      PROVE  o.why = "ended early" /\ kind = "network"
  <2>1. expectedTransfer(r, transferBytes) = r.body.sent
    BY <1>7, KnownLength
  <2>2. r.arrived < expectedTransfer(r, transferBytes) /\ r.arrived # 0
    BY <1>7, <2>1 DEF AResponse, ABody
  <2> DEFINE got == IF r.body.format = "gzip" THEN r.body.content ELSE SubSeq(r.body.content, 1, r.arrived)
  <2>3. wrongBytes(got, total) = {}
    <3>1. r.body.format # "gzip" => r.arrived \in 0..Len(r.body.content)
      BY <1>7 DEF AResponse, ABody
    <3>2. r.body.content \in Seq(Byte) /\ r.body.content # <<>> /\ r.body.content[1] = OLEAN /\ Len(r.body.content) = total
      BY <1>7 DEF AResponse, ABody
    <3>3. got[1] = OLEAN
      BY <2>2, <3>1, <3>2
    <3>4. ~(Len(got) > total)
      BY <3>1, <3>2
    <3> HIDE DEF got
    <3> QED BY <3>3, <3>4 DEF wrongBytes
  <2>4. o \in streamed(r, total, transferBytes)
    BY <1>7, <2>2, Zenon DEF coldLoad
  <2>5. o \in Throws({"ended early"} \cup wrongBytes(got, total), TRUE)
    BY <2>2, <2>4, Zenon DEF streamed
  <2>6. o.why = "ended early"
    <3> HIDE DEF got
    <3>1. o.why \in {"ended early"} \cup wrongBytes(got, total)
      BY <2>5, ThrowsNoRegion, Zenon
    <3> QED BY <2>3, <3>1
  <2> QED BY <1>1, <2>6 DEF KindFits
<1> QED BY <1>3, <1>4, <1>6, <1>7, Zenon DEF kind

-----------------------------------------------------------------------------
(* A response that passes for a chunk.                                      *)
Clean(chunk, response) == fetchChunkOnce(chunk, response) # {}

(* A chunk is what the manifest pins, from the cache or from around it; a   *)
(* good response around it is always enough.                                *)
LEMMA ChunkIsPinned ==
  ASSUME NEW chunk, NEW cached, NEW reloaded
  PROVE  /\ fetchChunk(chunk, cached, reloaded) \in {{}, {chunk.sha256}}
         /\ Clean(chunk, reloaded) => fetchChunk(chunk, cached, reloaded) = {chunk.sha256}
<1>1. \A response : fetchChunkOnce(chunk, response) \in {{}, {chunk.sha256}}
  <2> TAKE response
  <2> DEFINE fits == /\ response.ok /\ response.encoding \in {"", "identity"}
                     /\ Len(response.body) = chunk.bytes
  <2>1. fetchChunkOnce(chunk, response) = {body \in {response.body} : fits /\ body = chunk.sha256}
    BY Zenon DEF fetchChunkOnce, sha256
  <2> HIDE DEF fits
  <2> QED BY <2>1
<1>2. fetchChunk(chunk, cached, reloaded) =
        IF fetchChunkOnce(chunk, cached) # {} THEN fetchChunkOnce(chunk, cached) ELSE fetchChunkOnce(chunk, reloaded)
  BY DEF fetchChunk
<1> QED BY <1>1, <1>2 DEF Clean

(* What a boot runs is what its manifest names, whatever the HTTP cache and *)
(* the network answer; a good network boots through any poisoned cache,     *)
(* unless the manifest's chunks are not its file's, and then nothing does   *)
(* (materialize).                                                           *)
THEOREM MaterializedIsTheManifests ==
  ASSUME NEW file, NEW cached, NEW reloaded
  PROVE  LET whole == FlattenSeq([i \in DOMAIN file.chunks |-> file.chunks[i].sha256])
         IN  /\ materialize(file, cached, reloaded) \subseteq {whole}
             /\ materialize(file, cached, reloaded) # {} => whole = file.sha256 /\ Len(whole) = file.bytes
             /\ (\A i \in DOMAIN file.chunks : Clean(file.chunks[i], reloaded[i]))
                  /\ whole = file.sha256 /\ Len(whole) = file.bytes
                => materialize(file, cached, reloaded) = {whole}
<1> DEFINE whole == FlattenSeq([i \in DOMAIN file.chunks |-> file.chunks[i].sha256])
           pieces == [i \in DOMAIN file.chunks |-> fetchChunk(file.chunks[i], cached[i], reloaded[i])]
           got == FlattenSeq([i \in DOMAIN pieces |-> CHOOSE piece \in pieces[i] : TRUE])
<1>1. materialize(file, cached, reloaded) =
        IF \E i \in DOMAIN pieces : pieces[i] = {} THEN {}
        ELSE {x \in {got} : Len(x) = file.bytes /\ x = file.sha256}
  BY Zenon DEF materialize, sha256
<1>2. \A i \in DOMAIN file.chunks : /\ pieces[i] \in {{}, {file.chunks[i].sha256}}
                                    /\ Clean(file.chunks[i], reloaded[i]) => pieces[i] = {file.chunks[i].sha256}
  BY ChunkIsPinned
<1>3. DOMAIN pieces = DOMAIN file.chunks
  OBVIOUS
<1>4. ASSUME \A i \in DOMAIN pieces : pieces[i] # {}
      PROVE  got = whole
  <2>1. \A i \in DOMAIN file.chunks : (CHOOSE piece \in pieces[i] : TRUE) = file.chunks[i].sha256
    BY <1>2, <1>3, <1>4
  <2>2. [i \in DOMAIN pieces |-> CHOOSE piece \in pieces[i] : TRUE] = [i \in DOMAIN file.chunks |-> file.chunks[i].sha256]
    BY <1>3, <2>1
  <2> QED BY <2>2, Zenon
<1> HIDE DEF whole, pieces, got
<1>5. materialize(file, cached, reloaded) # {} => materialize(file, cached, reloaded) = {whole} /\ whole = file.sha256 /\ Len(whole) = file.bytes
  BY <1>1, <1>4
<1>6. ASSUME \A i \in DOMAIN file.chunks : Clean(file.chunks[i], reloaded[i]), whole = file.sha256, Len(whole) = file.bytes
      PROVE  materialize(file, cached, reloaded) = {whole}
  <2>1. \A i \in DOMAIN pieces : pieces[i] # {}
    BY <1>2, <1>3, <1>6
  <2> QED BY <1>1, <1>4, <1>6, <2>1
<1> QED BY <1>5, <1>6 DEF whole

(* The main thread, the task manager's workers, the parked threads and a    *)
(* burst fit the Workers the pool is made with, whatever concurrency a      *)
(* browser tells, and a task manager there always is.                       *)
THEOREM ThreadsFitThePool ==
  ASSUME NEW hardware \in {{}} \cup {{n} : n \in Int}
  PROVE  leanWorkers(hardware) >= 1 /\ 1 + leanWorkers(hardware) + PARKED_DEDICATED + BURST <= POOL
<1> DEFINE told == {n \in hardware : n > 0}
           some == IF told = {} THEN {4} ELSE told
<1>1. PICK n \in Int : some = {n} /\ n > 0
  OBVIOUS
<1>2. \E m \in {8, n} : Min({8} \cup some) = m /\ m <= 8 /\ m > 0
  <2>1. {8} \cup some = {8, n}
    BY <1>1
  <2>2. \E m \in {8, n} : \A x \in {8, n} : m <= x
    BY <1>1
  <2>3. Min({8, n}) \in {8, n} /\ \A x \in {8, n} : Min({8, n}) <= x
    BY <2>2 DEF Min
  <2> HIDE DEF some
  <2> QED BY <1>1, <2>1, <2>3
<1>3. PICK m \in Int : Min({8} \cup some) = m /\ m <= 8 /\ m > 0
  BY <1>1, <1>2
<1>4. Max({1, m}) = m
  <2>1. m \in {1, m} /\ \A x \in {1, m} : m >= x
    BY <1>3
  <2>2. Max({1, m}) \in {1, m} /\ \A x \in {1, m} : Max({1, m}) >= x
    BY <2>1 DEF Max
  <2> QED BY <1>3, <2>2
<1>5. leanWorkers(hardware) = m
  <2>1. leanWorkers(hardware) = Max({1, Min({8} \cup some)})
    BY Zenon DEF leanWorkers, LEAN_WORKERS_MAX
  <2> HIDE DEF some
  <2> QED BY <1>3, <1>4, <2>1
<1> QED BY <1>3, <1>5 DEF PARKED_DEDICATED, BURST, POOL

-----------------------------------------------------------------------------
(* A rung of the memory ladder that is whole pages.                         *)
LEMMA RungIs ==
  ASSUME NEW asked \in Nat, NEW rung \in Nat, rung % PAGE = 0
  PROVE  /\ rungOf(asked, rung).maximum = rung \div PAGE
         /\ rungOf(asked, rung).initial <= rungOf(asked, rung).maximum
         /\ rungOf(asked, rung).initial * PAGE <= asked + PAGE - 1
         /\ asked <= rung => rungOf(asked, rung).initial * PAGE >= asked
<1> DEFINE least == Min({asked, rung})
<1>1. least \in Nat /\ least <= asked /\ least <= rung /\ (asked <= rung => least = asked)
  <2>1. \E m \in {asked, rung} : \A x \in {asked, rung} : m <= x
    OBVIOUS
  <2>2. Min({asked, rung}) \in {asked, rung} /\ \A x \in {asked, rung} : Min({asked, rung}) <= x
    BY <2>1 DEF Min
  <2> QED BY <2>2
<1>2. rungOf(asked, rung) = [initial |-> (least + 2 - 1) \div 2, maximum |-> rung \div 2]
  BY DEF rungOf, PAGE
<1> HIDE DEF least
<1>3. rung % 2 = 0
  BY DEF PAGE
<1>4. PICK h \in Nat : rung = 2 * h /\ rung \div 2 = h
  BY <1>3
<1>5. PICK q \in Nat : (least + 2 - 1) \div 2 = q /\ 2 * q <= least + 1 /\ least <= 2 * q
  <2>1. least + 2 - 1 \in Nat
    BY <1>1
  <2> QED BY <1>1, <2>1
<1>6. q <= h
  BY <1>1, <1>4, <1>5
<1> QED BY <1>1, <1>2, <1>4, <1>5, <1>6 DEF PAGE

(* For every ladder of whole pages, largest first, and every engine: a      *)
(* session gets memory exactly when the engine grants the smallest rung; it *)
(* is the first rung granted, of which it commits what it asked, rounded up *)
(* to a page, and no more than the rung (createSharedMemory64).             *)
THEOREM MemoryIsFound ==
  ASSUME NEW asked \in Nat, NEW limit \in Nat, NEW candidates \in Seq(Nat), candidates # <<>>,
         \A i \in DOMAIN candidates : candidates[i] % PAGE = 0,
         \A i, j \in DOMAIN candidates : i <= j => candidates[i] >= candidates[j]
  PROVE  LET made == createSharedMemory64(asked, candidates, limit)
         IN  /\ made # {} <=> candidates[Len(candidates)] \div PAGE <= limit
             /\ \A m \in made : \E i \in DOMAIN candidates :
                  /\ m.maximum = candidates[i] \div PAGE /\ m.maximum <= limit
                  /\ \A j \in 1..(i - 1) : candidates[j] \div PAGE > limit
                  /\ m.initial <= m.maximum /\ m.initial * PAGE <= asked + PAGE - 1
                  /\ asked <= candidates[i] => m.initial * PAGE >= asked
<1> DEFINE n == Len(candidates)
           rungs == [i \in DOMAIN candidates |-> rungOf(asked, candidates[i])]
           T == {i \in 1..Len(rungs) : rungs[i].initial <= rungs[i].maximum /\ rungs[i].maximum <= limit}
           granted == IF T # {} THEN Min(T) ELSE 0
           made == createSharedMemory64(asked, candidates, limit)
<1>1. made = IF granted = 0 THEN {} ELSE {rungs[granted]}
  BY DEF createSharedMemory64, SelectInSeq
<1>2. DOMAIN candidates = 1..n /\ n \in Nat /\ n > 0 /\ Len(rungs) = n /\ n \in 1..n
  OBVIOUS
<1>3. \A i \in 1..n : candidates[i] \in Nat /\ candidates[i] % PAGE = 0
  BY <1>2
<1>4. \A i \in 1..n : /\ rungs[i].maximum = candidates[i] \div PAGE
                      /\ rungs[i].initial <= rungs[i].maximum
                      /\ rungs[i].initial * PAGE <= asked + PAGE - 1
                      /\ asked <= candidates[i] => rungs[i].initial * PAGE >= asked
  BY <1>2, <1>3, RungIs
<1> HIDE DEF rungs, made
<1>5. \A i \in 1..n : i \in T <=> candidates[i] \div PAGE <= limit
  BY <1>2, <1>4
<1>6. T \in SUBSET (1..n) /\ T \in SUBSET Nat
  BY <1>2
<1> HIDE DEF T
<1>7. T # {} => Min(T) \in T /\ \A x \in T : Min(T) <= x
  <2>1. T # {} => \E m \in T : \A x \in T : m <= x
    BY <1>6, LeastNat
  <2> QED BY <2>1 DEF Min
<1>8. n \in T <=> T # {}
  <2>1. ASSUME NEW i \in T PROVE n \in T
    <3>1. i \in 1..n /\ candidates[i] >= candidates[n] /\ candidates[i] \in Nat /\ candidates[n] \in Nat
      BY <1>2, <1>3, <1>6, <2>1
    <3>2. candidates[n] \div PAGE <= candidates[i] \div PAGE
      BY <3>1 DEF PAGE
    <3>3. candidates[i] \div PAGE <= limit
      BY <1>5, <2>1, <3>1
    <3>4. candidates[n] \div PAGE \in Int /\ candidates[i] \div PAGE \in Int
      BY <3>1 DEF PAGE
    <3> QED BY <1>2, <1>5, <3>2, <3>3, <3>4
  <2> QED BY <2>1
<1>9. granted # 0 <=> T # {}
  BY <1>6, <1>7
<1>10. made # {} <=> candidates[n] \div PAGE <= limit
  BY <1>1, <1>2, <1>5, <1>8, <1>9
<1>11. ASSUME NEW m \in made
       PROVE  \E i \in DOMAIN candidates :
                /\ m.maximum = candidates[i] \div PAGE /\ m.maximum <= limit
                /\ \A j \in 1..(i - 1) : candidates[j] \div PAGE > limit
                /\ m.initial <= m.maximum /\ m.initial * PAGE <= asked + PAGE - 1
                /\ asked <= candidates[i] => m.initial * PAGE >= asked
  <2> DEFINE i == Min(T)
  <2>1. m = rungs[i] /\ i \in T /\ \A x \in T : i <= x
    BY <1>1, <1>7, <1>9, <1>11
  <2> HIDE DEF i
  <2>2. i \in 1..n
    BY <1>6, <2>1
  <2>3. \A j \in 1..(i - 1) : candidates[j] \div PAGE > limit
    <3> TAKE j \in 1..(i - 1)
    <3>1. j \in 1..n /\ j \notin T
      BY <1>2, <2>1, <2>2
    <3>2. ~(candidates[j] \div PAGE <= limit) /\ candidates[j] \div PAGE \in Int
      BY <1>3, <1>5, <3>1 DEF PAGE
    <3> QED BY <3>2
  <2> QED BY <1>2, <1>4, <1>5, <2>1, <2>2, <2>3
<1> QED BY <1>10, <1>11 DEF made

-----------------------------------------------------------------------------
(* A worker that op owns for the call k, and what it leaves when that ends. *)
OwnedAs(y, x, op, k) ==
  y.job = [op |-> op, call |-> k] /\ y.job.op = op /\ y.job.call = k /\ \A state : Freed(y, state) = Freed(x, state)

(* A call that owns the runtime leaves the worker, when it ends, as it was  *)
(* but for its state and job.                                               *)
LEMMA OwnedIs ==
  ASSUME NEW x \in Workers, NEW op, NEW k
  PROVE  OwnedAs(Owned(x, op, k), x, op, k)
<1> DEFINE y == Owned(x, op, k)
<1>1. \A state : Freed(y, state) = Freed(x, state)
  BY DEF Freed, Owned, Workers
<1>2. y.job = [op |-> op, call |-> k]
  BY DEF Owned, Workers
<1> HIDE DEF y
<1>3. y.job.op = op /\ y.job.call = k
  BY <1>2
<1> QED BY <1>1, <1>2, <1>3, Zenon DEF OwnedAs, y

(* What ends a boot.                                                        *)
LEMMA BootEndsAre ==
  ASSUME NEW x, NEW y, NEW k, OwnedAs(y, x, "boot", k)
  PROVE  bootEnds(y) = {To(Freed(x, "ready"), <<result(k)>>), To(Freed(x, "dead"), <<fatal(k)>>)}
<1>1. y.job.call = k
  BY DEF OwnedAs
<1>2. Freed(y, "ready") = Freed(x, "ready") /\ Freed(y, "dead") = Freed(x, "dead")
  BY Zenon DEF OwnedAs
<1>3. bootEnds(y) = {To(Freed(x, "ready"), <<result(y.job.call)>>), To(Freed(x, "dead"), <<fatal(y.job.call)>>)}
  BY <1>2, Zenon DEF bootEnds
<1> QED BY <1>1, <1>3, Zenon

(* What a boot has when it is ready.                                        *)
BootHas(state, cfg, host) ==
  /\ state = "idle" /\ cfg.buildId = runtimeId(cfg.wasm.sha256)
  /\ Fetched(cfg, host, "js") # {} /\ Fetched(cfg, host, "wasm") # {}
  /\ createSharedMemory64(cfg.initialBytes, cfg.candidates, host.limit) # {}
  /\ mountPacks(cfg.packs) # {}
BootCodes(state, code) ==
  /\ code \in {"BAD_STATE", "INVALID_MESSAGE", "RUNTIME_MANIFEST_MISMATCH", "CAPABILITY_MISSING",
               "RUNTIME_FETCH_FAILED", "MEMORY_FAILED", "INIT_FAILED", "ready"}
  /\ code = "BAD_STATE" <=> state # "idle"

(* A boot's code is the one of its first failure; ready is the end of a     *)
(* boot that had none.                                                      *)
LEMMA BootCodeIs ==
  ASSUME NEW state, NEW cfg, NEW host
  PROVE  /\ BootCodes(state, bootCode(state, cfg, host))
         /\ bootCode(state, cfg, host) = "ready" => BootHas(state, cfg, host)
<1> DEFINE c1 == state # "idle"
           c2 == ~cfg.shape
           c3 == cfg.buildId # runtimeId(cfg.wasm.sha256)
           c4 == ~host.capable
           c5 == Fetched(cfg, host, "js") = {} \/ Fetched(cfg, host, "wasm") = {}
           c6 == createSharedMemory64(cfg.initialBytes, cfg.candidates, host.limit) = {}
           c7 == mountPacks(cfg.packs) = {} \/ ~host.initializes
           gs == << <<c1, "BAD_STATE">>, <<c2, "INVALID_MESSAGE">>, <<c3, "RUNTIME_MANIFEST_MISMATCH">>,
                    <<c4, "CAPABILITY_MISSING">>, <<c5, "RUNTIME_FETCH_FAILED">>, <<c6, "MEMORY_FAILED">>,
                    <<c7, "INIT_FAILED">> >>
           T == {i \in 1..Len(gs) : gs[i][1]}
           found == IF T # {} THEN Min(T) ELSE 0
           code == bootCode(state, cfg, host)
<1>1. failures(state, cfg, host) = gs
  BY Zenon DEF failures
<1> HIDE DEF c1, c2, c3, c4, c5, c6, c7
<1>3. /\ Len(gs) = 7 /\ gs[1] = <<c1, "BAD_STATE">> /\ gs[2] = <<c2, "INVALID_MESSAGE">>
      /\ gs[3] = <<c3, "RUNTIME_MANIFEST_MISMATCH">> /\ gs[4] = <<c4, "CAPABILITY_MISSING">>
      /\ gs[5] = <<c5, "RUNTIME_FETCH_FAILED">> /\ gs[6] = <<c6, "MEMORY_FAILED">> /\ gs[7] = <<c7, "INIT_FAILED">>
  OBVIOUS
<1> HIDE DEF gs
<1>2. code = IF found = 0 THEN "ready" ELSE gs[found][2]
  BY <1>1 DEF bootCode, SelectInSeq
<1> HIDE DEF code
<1>4. T \in SUBSET (1..7) /\ T \in SUBSET Nat
  BY <1>3
<1>5. /\ (1 \in T <=> c1) /\ (3 \in T <=> c3) /\ (5 \in T <=> c5) /\ (6 \in T <=> c6) /\ (7 \in T <=> c7)
  BY <1>3
<1> HIDE DEF T
<1>6. T # {} => Min(T) \in T /\ \A x \in T : Min(T) <= x
  <2>1. T # {} => \E m \in T : \A x \in T : m <= x
    BY <1>4, LeastNat
  <2> QED BY <2>1 DEF Min
<1>7. found \in 0..7 /\ (found = 0 <=> T = {}) /\ (found = 1 <=> 1 \in T)
  <2>1. CASE T = {}
    BY <2>1
  <2>2. CASE T # {}
    <3>1. Min(T) \in 1..7 /\ Min(T) \in T /\ found = Min(T)
      BY <1>4, <1>6, <2>2
    <3>2. 1 \in T => Min(T) <= 1
      BY <1>6
    <3>3. found = 1 <=> 1 \in T
      <4> HIDE DEF found
      <4> QED BY <3>1, <3>2
    <3> HIDE DEF found
    <3> QED BY <2>2, <3>1, <3>3
  <2> QED BY <2>1, <2>2
<1>8. \A i \in 0..7 : i = 0 \/ i = 1 \/ i = 2 \/ i = 3 \/ i = 4 \/ i = 5 \/ i = 6 \/ i = 7
  OBVIOUS
<1> HIDE DEF found
<1>9. code \in {"BAD_STATE", "INVALID_MESSAGE", "RUNTIME_MANIFEST_MISMATCH", "CAPABILITY_MISSING",
                "RUNTIME_FETCH_FAILED", "MEMORY_FAILED", "INIT_FAILED", "ready"}
  BY <1>2, <1>3, <1>7, <1>8
<1>10. (code = "BAD_STATE" <=> found = 1) /\ (code = "ready" <=> found = 0)
  BY <1>2, <1>3, <1>7, <1>8
<1>11. code = "ready" => ~c1 /\ ~c3 /\ ~c5 /\ ~c6 /\ ~c7
  BY <1>5, <1>7, <1>10
<1>12. code = "BAD_STATE" <=> c1
  BY <1>5, <1>7, <1>10
<1>13. BootCodes(state, code)
  BY <1>9, <1>12 DEF BootCodes, c1
<1>14. code = "ready" => BootHas(state, cfg, host)
  BY <1>11, Zenon DEF c1, c3, c5, c6, c7, BootHas
<1> QED BY <1>13, <1>14 DEF code

(* Every boot is one the outline of the session's model allows, at once or  *)
(* at the end of its awaits; and one that is ready runs the very wasm whose *)
(* id it answers with, over a memory and its packs (boot).                  *)
THEOREM BootIsTheOutline ==
  ASSUME NEW x \in Workers, NEW k \in Nat, NEW cfg, NEW host
  PROVE  LET code == bootCode(x.state, cfg, host)
         IN  /\ IF code \in AtOnce THEN bootReply(x, k, code) \in boot(x, k)
                ELSE \E owned \in boot(x, k) : /\ owned.w.job = [op |-> "boot", call |-> k] /\ owned.out = <<>>
                                               /\ bootReply(x, k, code) \in bootEnds(owned.w)
             /\ code = "ready" =>
                  /\ \E wasm : Fetched(cfg, host, "wasm") = {wasm} /\ runtimeId(sha256(wasm)) = cfg.buildId
                  /\ createSharedMemory64(cfg.initialBytes, cfg.candidates, host.limit) # {} /\ mountPacks(cfg.packs) # {}
<1> DEFINE code == bootCode(x.state, cfg, host)
           reply == bootReply(x, k, code)
           owned == To(Owned(x, "boot", k), <<>>)
<1>1. /\ code \in {"BAD_STATE", "INVALID_MESSAGE", "RUNTIME_MANIFEST_MISMATCH", "CAPABILITY_MISSING",
                   "RUNTIME_FETCH_FAILED", "MEMORY_FAILED", "INIT_FAILED", "ready"}
      /\ code = "BAD_STATE" <=> x.state # "idle"
  <2>1. BootCodes(x.state, code)
    BY BootCodeIs, Zenon
  <2> QED BY <2>1, Zenon DEF BootCodes
<1>2. code = "ready" => /\ x.state = "idle" /\ cfg.buildId = runtimeId(cfg.wasm.sha256)
                        /\ Fetched(cfg, host, "wasm") # {}
                        /\ createSharedMemory64(cfg.initialBytes, cfg.candidates, host.limit) # {}
                        /\ mountPacks(cfg.packs) # {}
  <2>1. code = "ready" => BootHas(x.state, cfg, host)
    BY BootCodeIs, Zenon
  <2> QED BY <2>1, Zenon DEF BootHas
<1>3. code = "ready" => \E wasm : Fetched(cfg, host, "wasm") = {wasm} /\ runtimeId(sha256(wasm)) = cfg.buildId
  <2> SUFFICES ASSUME code = "ready" PROVE \E wasm : Fetched(cfg, host, "wasm") = {wasm} /\ runtimeId(sha256(wasm)) = cfg.buildId
    OBVIOUS
  <2> DEFINE file == cfg["wasm"]
             whole == FlattenSeq([i \in DOMAIN file.chunks |-> file.chunks[i].sha256])
  <2>1. Fetched(cfg, host, "wasm") \subseteq {whole} /\ (Fetched(cfg, host, "wasm") # {} => whole = file.sha256)
    BY MaterializedIsTheManifests, Zenon DEF Fetched
  <2> HIDE DEF whole
  <2>2. Fetched(cfg, host, "wasm") = {whole} /\ whole = file.sha256
    BY <1>2, <2>1
  <2>3. runtimeId(sha256(whole)) = cfg.buildId
    BY <1>2, <2>2 DEF runtimeId, sha256
  <2> QED BY <2>2, <2>3
<1> HIDE DEF code
<1>4. CASE code \in AtOnce
  <2>1. x.state # "idle" => reply = To(x, <<refused(k, TRUE)>>) /\ boot(x, k) = {To(x, <<refused(k, TRUE)>>)}
    BY <1>1 DEF bootReply, boot
  <2>2. x.state = "idle" => reply = To(Freed(x, "dead"), <<fatal(k)>>)
    <3>1. x.state = "idle" => code # "BAD_STATE" /\ code # "ready"
      BY <1>1, <1>4 DEF AtOnce
    <3> QED BY <3>1 DEF bootReply
  <2>3. x.state = "idle" => To(Freed(x, "dead"), <<fatal(k)>>) \in boot(x, k)
    BY DEF boot
  <2> QED BY <1>2, <1>3, <1>4, <2>1, <2>2, <2>3, Zenon DEF code
<1>5. CASE code \notin AtOnce
  <2>1. x.state = "idle" /\ code # "BAD_STATE"
    BY <1>1, <1>5 DEF AtOnce
  <2>2. owned \in boot(x, k)
    BY <2>1 DEF boot
  <2>8. owned.w = Owned(x, "boot", k) /\ owned.out = <<>>
    BY DEF To
  <2> HIDE DEF owned
  <2>9. OwnedAs(owned.w, x, "boot", k)
    BY <2>8, OwnedIs, Zenon
  <2>3. owned.out = <<>> /\ owned.w.job = [op |-> "boot", call |-> k]
    BY <2>8, <2>9, Zenon DEF OwnedAs
  <2>5. reply = IF code = "ready" THEN To(Freed(x, "ready"), <<result(k)>>) ELSE To(Freed(x, "dead"), <<fatal(k)>>)
    BY <2>1 DEF bootReply
  <2>6. bootEnds(owned.w) = {To(Freed(x, "ready"), <<result(k)>>), To(Freed(x, "dead"), <<fatal(k)>>)}
    BY <2>9, BootEndsAre, Zenon
  <2>7. reply \in bootEnds(owned.w)
    BY <2>5, <2>6, Zenon
  <2> QED BY <1>2, <1>3, <1>5, <2>2, <2>3, <2>7, Zenon DEF code
<1> QED BY <1>4, <1>5

-----------------------------------------------------------------------------
(* What ends an owned call.                                                 *)
LEMMA OwnerEndsAre ==
  ASSUME NEW x, NEW y, NEW op, NEW k, OwnedAs(y, x, op, k)
  PROVE  ownerEnds(y) = {To(Freed(x, "ready"), <<result(k)>>), To(Freed(x, "ready"), <<error(k)>>), aborted(y)}
<1>1. y.job.call = k
  BY DEF OwnedAs
<1>2. Freed(y, "ready") = Freed(x, "ready")
  BY Zenon DEF OwnedAs
<1>3. ownerEnds(y) = {To(Freed(x, "ready"), <<result(y.job.call)>>), To(Freed(x, "ready"), <<error(y.job.call)>>), aborted(y)}
  BY <1>2, Zenon DEF ownerEnds
<1> QED BY <1>1, <1>3, Zenon

(* A load is refused for its state before anything else is looked at.       *)
LEMMA RefusedFirst ==
  ASSUME NEW state, NEW resident, NEW input, NEW booted, NEW exported
  PROVE  refusal(refusals(state, resident, input, booted, exported)) = "BAD_STATE" <=> resident \/ state # "ready"
<1> DEFINE c1 == resident \/ state # "ready"
           c2 == ~input.shape
           c3 == ~input.sameOrigin
           c4 == input.runtime # "" /\ input.runtime # booted
           c5 == ~exported \/ input.expectedBytes <= 0
           gs == << <<c1, "BAD_STATE">>, <<c2, "INVALID_MESSAGE">>, <<c3, "SNAPSHOT_URL_REFUSED">>,
                    <<c4, "SNAPSHOT_UNPAIRED">>, <<c5, "SNAPSHOT_FAILED">> >>
           T == {i \in 1..Len(gs) : gs[i][1]}
           found == IF T # {} THEN Min(T) ELSE 0
           code == refusal(gs)
<1>1. refusals(state, resident, input, booted, exported) = gs
  BY Zenon DEF refusals
<1> HIDE DEF c1, c2, c3, c4, c5
<1>2. /\ Len(gs) = 5 /\ gs[1] = <<c1, "BAD_STATE">> /\ gs[2] = <<c2, "INVALID_MESSAGE">> /\ gs[3] = <<c3, "SNAPSHOT_URL_REFUSED">>
      /\ gs[4] = <<c4, "SNAPSHOT_UNPAIRED">> /\ gs[5] = <<c5, "SNAPSHOT_FAILED">>
  OBVIOUS
<1> HIDE DEF gs
<1>3. code = IF found = 0 THEN "none" ELSE gs[found][2]
  BY DEF refusal, SelectInSeq
<1> HIDE DEF code
<1>4. T \in SUBSET (1..5) /\ T \in SUBSET Nat /\ (1 \in T <=> c1)
  BY <1>2
<1> HIDE DEF T
<1>5. T # {} => Min(T) \in T /\ \A i \in T : Min(T) <= i
  <2>1. T # {} => \E m \in T : \A i \in T : m <= i
    BY <1>4, LeastNat
  <2> QED BY <2>1 DEF Min
<1>6. found \in 0..5 /\ (found = 1 <=> 1 \in T)
  <2>1. CASE T = {}
    BY <2>1
  <2>2. CASE T # {}
    <3>1. Min(T) \in 1..5 /\ Min(T) \in T /\ found = Min(T)
      BY <1>4, <1>5, <2>2
    <3>2. 1 \in T => Min(T) <= 1
      BY <1>5
    <3> HIDE DEF found
    <3> QED BY <3>1, <3>2
  <2> QED BY <2>1, <2>2
<1> HIDE DEF found
<1>7. \A i \in 0..5 : i = 0 \/ i = 1 \/ i = 2 \/ i = 3 \/ i = 4 \/ i = 5
  OBVIOUS
<1>8. code = "BAD_STATE" <=> found = 1
  BY <1>2, <1>3, <1>6, <1>7
<1>9. code = "BAD_STATE" <=> c1
  BY <1>4, <1>6, <1>8
<1> QED BY <1>1, <1>9, Zenon DEF c1, code

(* Every load is one the outline of the session's model allows: refused, or *)
(* owning the runtime and answered once, at its end; and only a region is   *)
(* answered with a result (loadSnapshot).                                   *)
THEOREM LoadIsTheOutline ==
  ASSUME NEW x \in Workers, Owner(x), NEW k, NEW input, NEW booted, NEW exported, NEW o,
         NEW reply \in loadReplies(x, k, refusal(refusals(x.state, x.resident, input, booted, exported)), o)
  PROVE  LET code == refusal(refusals(x.state, x.resident, input, booted, exported))
         IN  /\ IF code = "BAD_STATE" THEN reply \in loadSnapshot(x, k)
                ELSE \E owned \in loadSnapshot(x, k) : /\ owned.w.job = [op |-> "loadSnapshot", call |-> k] /\ owned.out = <<>>
                                                       /\ reply \in ownerEnds(owned.w)
             /\ reply.out = <<result(k)>> => code = "none" /\ o.region # {}
<1> DEFINE code == refusal(refusals(x.state, x.resident, input, booted, exported))
           owned == To(Owned(x, "loadSnapshot", k), <<>>)
<1>1. code = "BAD_STATE" <=> x.resident \/ x.state # "ready"
  BY RefusedFirst
<1>2. reply \in loadReplies(x, k, code, o)
  OBVIOUS
<1> HIDE DEF code
<1>3. result(k) # error(k) /\ result(k) # refused(k, TRUE)
  BY DEF result, error, refused, Post
<1>4. CASE code = "BAD_STATE"
  <2>1. reply = To(x, <<refused(k, TRUE)>>)
    BY <1>2, <1>4 DEF loadReplies
  <2>2. reply \in loadSnapshot(x, k)
    BY <1>1, <1>4, <2>1 DEF loadSnapshot
  <2>3. reply.out # <<result(k)>>
    BY <1>3, <2>1 DEF To
  <2> QED BY <1>4, <2>2, <2>3, Zenon DEF code
<1>5. CASE code # "BAD_STATE"
  <2>1. owned \in loadSnapshot(x, k)
    BY <1>1, <1>5 DEF loadSnapshot
  <2>2. owned.w = Owned(x, "loadSnapshot", k) /\ owned.out = <<>>
    BY DEF To
  <2> HIDE DEF owned
  <2>3. OwnedAs(owned.w, x, "loadSnapshot", k)
    BY <2>2, OwnedIs, Zenon
  <2>4. ownerEnds(owned.w) = {To(Freed(x, "ready"), <<result(k)>>), To(Freed(x, "ready"), <<error(k)>>), aborted(owned.w)}
    BY <2>3, OwnerEndsAre, Zenon
  <2>5. owned.w.job = [op |-> "loadSnapshot", call |-> k]
    BY <2>3 DEF OwnedAs
  <2>6. code # "none" => To(x, <<error(k)>>) = To(Freed(x, "ready"), <<error(k)>>)
    <3>1. x.state = "ready" /\ x.job = NoJob
      <4>1. x.state = "ready"
        BY <1>1, <1>5
      <4>2. x.job.op = "none" /\ x.job.call = 0
        BY <4>1 DEF Owner, Workers
      <4> QED BY <4>1, <4>2 DEF NoJob, Workers
    <3>2. Freed(x, "ready") = x
      BY <3>1 DEF Freed, Workers
    <3> QED BY <3>2
  <2>7. \/ reply = To(Freed(x, "ready"), <<error(k)>>)
        \/ reply = To(Freed(x, "ready"), <<result(k)>>) /\ code = "none" /\ o.region # {}
    <3>1. CASE code = "none"
      BY <1>2, <3>1 DEF loadReplies
    <3>2. CASE code # "none"
      <4>1. reply = To(x, <<error(k)>>)
        BY <1>2, <1>5, <3>2 DEF loadReplies
      <4> QED BY <2>6, <3>2, <4>1, Zenon
    <3> QED BY <3>1, <3>2
  <2>8. reply \in ownerEnds(owned.w)
    BY <2>4, <2>7, Zenon
  <2>9. reply.out = <<result(k)>> => code = "none" /\ o.region # {}
    BY <1>3, <2>7 DEF To
  <2> QED BY <1>5, <2>1, <2>2, <2>5, <2>8, <2>9, Zenon DEF code
<1> QED BY <1>4, <1>5

(* Two messages one after the other.                                        *)
LEMMA Paired ==
  ASSUME NEW a, NEW b
  PROVE  <<a>> \o <<b>> = <<a, b>>
<1> DEFINE l == <<a>> \o <<b>>
           r == <<a, b>>
           S == {a, b}
<1>1. /\ <<a>> \in Seq(S) /\ Len(<<a>>) = 1 /\ <<a>>[1] = a
      /\ <<b>> \in Seq(S) /\ Len(<<b>>) = 1 /\ <<b>>[1] = b
      /\ r \in Seq(S) /\ Len(r) = 2 /\ r[1] = a /\ r[2] = b
  OBVIOUS
<1> HIDE DEF S
<1>2. l \in Seq(S) /\ Len(l) = 2 /\ \A i \in 1..2 : l[i] = IF i <= 1 THEN <<a>>[i] ELSE <<b>>[i - 1]
  BY <1>1, ConcatProperties
<1>3. l[1] = a /\ l[2] = b
  BY <1>1, <1>2
<1>4. \A i \in 1..2 : l[i] = r[i]
  BY <1>1, <1>3
<1> QED BY <1>1, <1>2, <1>4, SeqEqual

(* A compile of an owner ends as the outline of the session's model allows: *)
(* a message for its call, once, whatever Lean printed and however it       *)
(* ended; and a result that says success is of an end with a value, no      *)
(* error counted and none among the diagnostics (compile, onAbort).         *)
THEOREM CompileIsTheOutline ==
  ASSUME NEW x \in Workers, NEW k \in Nat \ {0}, NEW c, NEW ending
  PROVE  LET y == Owned(x, "compile", k)
             reply == compileEnds(y, c, ending)
         IN  /\ reply \in ownerEnds(y)
             /\ \E i \in DOMAIN reply.out : \A j \in DOMAIN reply.out : reply.out[j].call = k <=> j = i
             /\ reply.out = <<result(k)>> => /\ ending.how = "value" /\ exitCode(ending) = 0
                                             /\ \A i \in DOMAIN c.diagnostics : c.diagnostics[i].severity # "error"
<1> DEFINE y == Owned(x, "compile", k)
           reply == compileEnds(y, c, ending)
<1>1. OwnedAs(y, x, "compile", k)
  BY OwnedIs, Zenon
<1>2. ownerEnds(y) = {To(Freed(x, "ready"), <<result(k)>>), To(Freed(x, "ready"), <<error(k)>>), aborted(y)}
  BY <1>1, OwnerEndsAre, Zenon
<1>3. result(k) # error(k) /\ result(k) # fatal(k) /\ result(k).call = k /\ error(k).call = k /\ fatal(k).call = k /\ diedEvent.call = 0
  BY DEF result, error, fatal, diedEvent, Post
<1>4. y.job.op = "compile" /\ y.job.call = k /\ Freed(y, "ready") = Freed(x, "ready")
  BY <1>1, Zenon DEF OwnedAs
<1> HIDE DEF y
<1>5. CASE ending.how = "aborted"
  <2> DEFINE d == die([y EXCEPT !.state = "dead", !.job = NoJob])
  <2>1. reply = aborted(y)
    BY <1>5 DEF compileEnds
  <2>2. aborted(y) = To(d.w, <<fatal(k)>> \o d.out)
    BY <1>4 DEF aborted
  <2>3. d.out = <<>> \/ d.out = <<diedEvent>>
    BY DEF die, To
  <2> HIDE DEF d
  <2>4. reply.out = <<fatal(k)>> \/ reply.out = <<fatal(k), diedEvent>>
    <3>1. reply.out = <<fatal(k)>> \o d.out
      BY <2>1, <2>2 DEF To
    <3>2. <<fatal(k)>> \o <<>> = <<fatal(k)>> /\ <<fatal(k)>> \o <<diedEvent>> = <<fatal(k), diedEvent>>
      <4>1. \A a, b : <<a>> \o <<b>> = <<a, b>>
        BY Paired
      <4>2. \A a : <<a>> \o <<>> = <<a>>
        <5> TAKE a
        <5>1. <<a>> \in Seq({a})
          OBVIOUS
        <5> QED BY <5>1, ConcatEmptySeq
      <4> QED BY <4>1, <4>2, Zenon
    <3> QED BY <2>3, <3>1, <3>2, Zenon
  <2>5. reply \in ownerEnds(y)
    BY <1>2, <2>1
  <2> HIDE DEF reply
  <2>6. \A j \in DOMAIN reply.out : reply.out[j].call = k <=> j = 1
    BY <1>3, <2>4
  <2>7. 1 \in DOMAIN reply.out /\ reply.out # <<result(k)>>
    BY <1>3, <2>4
  <2> QED BY <2>5, <2>6, <2>7 DEF reply, y
<1>6. CASE ending.how # "aborted"
  <2> DEFINE answer == CHOOSE a \in compileAnswers(c, ending) : TRUE
             said == IF answer.code = "result" /\ answer.success THEN result(k) ELSE error(k)
  <2>1. reply = To(Freed(x, "ready"), <<said>>)
    BY <1>4, <1>6, Zenon DEF compileEnds
  <2>2. answer.code = "result" /\ answer.success => ~hasErrors(c, ending)
    <3>1. \A a \in compileAnswers(c, ending) : a.code = "result" /\ a.success => ~hasErrors(c, ending)
      <4> TAKE a \in compileAnswers(c, ending)
      <4>1. \/ a = [code |-> "COMPILE_CRASHED"]
            \/ a = [code |-> "result", success |-> ~hasErrors(c, ending), exitCode |-> exitCode(ending),
                    diagnostics |-> c.diagnostics, raw |-> c.raw]
        BY Zenon DEF compileAnswers
      <4>2. a.code = "result" => a.success = ~hasErrors(c, ending)
        BY <4>1
      <4> QED BY <4>2
    <3>2. compileAnswers(c, ending) # {}
      BY <1>6 DEF compileAnswers
    <3> QED BY <3>1, <3>2
  <2> HIDE DEF answer
  <2>3. said = result(k) => ~hasErrors(c, ending)
    BY <1>3, <2>2
  <2>4. said \in {result(k), error(k)} /\ said.call = k
    BY <1>3
  <2> HIDE DEF said
  <2>5. reply.out = <<said>> /\ reply \in ownerEnds(y)
    BY <1>2, <2>1, <2>4 DEF To
  <2> HIDE DEF reply
  <2>6. reply.out = <<result(k)>> => said = result(k)
    BY <2>5
  <2>7. ~hasErrors(c, ending) => /\ ending.how = "value" /\ exitCode(ending) = 0
                                 /\ \A i \in DOMAIN c.diagnostics : c.diagnostics[i].severity # "error"
    BY DEF hasErrors
  <2>8. 1 \in DOMAIN reply.out /\ \A j \in DOMAIN reply.out : reply.out[j].call = k <=> j = 1
    BY <2>4, <2>5
  <2> QED BY <2>3, <2>5, <2>6, <2>7, <2>8 DEF reply, y
<1> QED BY <1>5, <1>6

=============================================================================
