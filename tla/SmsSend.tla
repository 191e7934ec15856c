------------------------------- MODULE SmsSend -------------------------------
(***************************************************************************)
(* Sending a message from view/at-webserver/sms_center.js. The page asks   *)
(* the modem for its message mode and sends in that mode: as PDUs, part by *)
(* part, or as text, for which the character set of the modem is changed   *)
(* and put back; a text too long for that goes out as PDUs. Each AT+CMGS   *)
(* only starts the one SMS job of the service; the page asks for the job   *)
(* until it is over and takes its result for that of its own part.         *)
(*                                                                         *)
(* A send is a chain of commands. Two may run at a time, of one page or of *)
(* two. The second setting that goes with the character set (AT+CSMP) is   *)
(* left out, it is sent right after it and has the same fate.              *)
(***************************************************************************)
EXTENDS Integers, Sequences

CONSTANTS
    Pages,          \* pages that are open
    Chains,         \* numbers, from 1, for the sends under way
    MaxSends,       \* bound: sends
    MaxFail         \* bound: commands that fail

Kinds == {"ascii", "ucs2", "long"}

VARIABLES
    sending,        \* pages whose guard is up
    chain,          \* per send: [at, page, kind, todo, next, sent, mixed, told]
    cmgf,           \* the modem's message mode: 0 PDU, 1 text
    cscs,           \* its character set
    job,            \* the service's SMS job: [on, of, part, ok]
    stuck,          \* history: a command that puts a setting back has failed
    sends, fails

vars == <<sending, chain, cmgf, cscs, job, stuck, sends, fails>>

Idle == [at |-> "idle", page |-> "none", kind |-> "ascii", todo |-> <<>>, next |-> 1,
         sent |-> {}, mixed |-> FALSE, told |-> "none"]
NoJob == [on |-> FALSE, of |-> 0, part |-> 0, ok |-> FALSE]
Parts(kind) == IF kind = "long" THEN 2 ELSE 1

Init ==
    /\ sending = {} /\ chain = [c \in Chains |-> Idle]
    /\ cmgf \in {0, 1} /\ cscs = "IRA" /\ job = NoJob
    /\ stuck = FALSE /\ sends = MaxSends /\ fails = MaxFail

Fails == fails > 0 /\ fails' = fails - 1

\* Mutant: the key that sends does not look at the guard.
MaySendAlways(p) == p \in Pages

\* The guard that send() raises: the enter key does not care for the button.
MaySend(p) == p \notin sending

Send(c, p, kind) ==
    /\ chain[c].at = "idle" /\ MaySend(p)
    /\ sends > 0 /\ sends' = sends - 1
    /\ sending' = sending \union {p}
    /\ chain' = [chain EXCEPT ![c] = [Idle EXCEPT !.at = "run", !.page = p, !.kind = kind,
                                                 !.todo = <<"mode">>]]
    /\ UNCHANGED <<cmgf, cscs, job, stuck, fails>>

\* sendPduMode: asks for the mode once more, then for the service centre, and
\* submits the parts.
PduSteps(kind) ==
    IF kind = "long" THEN <<"pdu?", "csca", "submit", "submit">> ELSE <<"pdu?", "csca", "submit">>

\* sendTextMode
TextSteps(kind) ==
    CASE kind = "ascii" -> <<"submit">>
      [] kind = "ucs2" -> <<"ucs2", "submit", "ira">>
      [] kind = "long" -> <<"pdu", "pdu?", "csca", "submit", "submit", "text">>

Cmd(c) == Head(chain[c].todo)
Turn(c, cmd) == chain[c].at = "run" /\ chain[c].todo # <<>> /\ Cmd(c) = cmd
Goes(c, todo) == chain' = [chain EXCEPT ![c].todo = todo]
Rest(c) == Tail(chain[c].todo)

\* AT+CMGF? of send(); without an answer the mode counts as PDU.
AskMode(c) ==
    /\ Turn(c, "mode")
    /\ \/ Goes(c, IF cmgf = 1 THEN TextSteps(chain[c].kind) ELSE PduSteps(chain[c].kind))
          /\ UNCHANGED fails
       \/ Fails /\ Goes(c, PduSteps(chain[c].kind))
    /\ UNCHANGED <<sending, cmgf, cscs, job, stuck, sends>>

\* AT+CMGF? of sendPduMode
AskPdu(c) ==
    /\ Turn(c, "pdu?")
    /\ \/ Goes(c, IF cmgf = 1 THEN [chain[c].todo EXCEPT ![1] = "pdu"] ELSE Rest(c)) /\ UNCHANGED fails
       \/ Fails /\ Goes(c, Rest(c))
    /\ UNCHANGED <<sending, cmgf, cscs, job, stuck, sends>>

\* A setting is sent; nothing looks at its answer.
Set(c) ==
    /\ chain[c].at = "run" /\ chain[c].todo # <<>>
    /\ Cmd(c) \in {"pdu", "text", "ucs2", "ira", "csca"}
    /\ Goes(c, Rest(c))
    /\ \/ /\ cmgf' = CASE Cmd(c) = "pdu" -> 0 [] Cmd(c) = "text" -> 1 [] OTHER -> cmgf
          /\ cscs' = CASE Cmd(c) = "ucs2" -> "UCS2" [] Cmd(c) = "ira" -> "IRA" [] OTHER -> cscs
          /\ UNCHANGED <<stuck, fails>>
       \/ /\ Fails /\ stuck' = (stuck \/ Cmd(c) = "ira")
          /\ UNCHANGED <<cmgf, cscs>>
    /\ UNCHANGED <<sending, job, sends>>

\* Mutant: the character set is put back only after a success.
AfterFailureNone(c) == <<>>

\* What is left of a chain when a part has failed: the character set is put
\* back all the same, the message mode is not.
AfterFailure(c) ==
    IF \E i \in DOMAIN chain[c].todo : chain[c].todo[i] = "ira" THEN <<"ira">> ELSE <<>>

Failed(c) ==
    chain' = [chain EXCEPT ![c].at = "run", ![c].todo = AfterFailure(c), ![c].told = "failed"]

\* submitSms: the service takes one job at a time. Who waits for a job of
\* another page's will read this one's result.
Submit(c) ==
    /\ Turn(c, "submit")
    /\ \/ /\ ~job.on
          /\ job' = [on |-> TRUE, of |-> c, part |-> chain[c].next, ok |-> FALSE]
          /\ chain' = [d \in Chains |->
                 IF d = c THEN [chain[c] EXCEPT !.at = "wait", !.todo = Rest(c),
                                               !.next = chain[c].next + 1]
                 ELSE IF chain[d].at = "wait"
                 THEN [chain[d] EXCEPT !.mixed = @ \/ chain[d].page # chain[c].page]
                 ELSE chain[d]]
          /\ UNCHANGED fails
       \/ job.on /\ Failed(c) /\ UNCHANGED <<job, fails>>
       \/ Fails /\ Failed(c) /\ UNCHANGED job
    /\ UNCHANGED <<sending, cmgf, cscs, stuck, sends>>

\* The job is over: the modem has taken the part, or it has not.
JobEnds ==
    /\ job.on
    /\ \E ok \in BOOLEAN :
        /\ IF ok THEN UNCHANGED fails ELSE Fails
        /\ job' = [job EXCEPT !.on = FALSE, !.ok = ok]
        /\ chain' = IF ok /\ job.of # 0
                    THEN [chain EXCEPT ![job.of].sent = @ \union {job.part}] ELSE chain
    /\ UNCHANGED <<sending, cmgf, cscs, stuck, sends>>

\* waitSmsJob: AT+SMSJOB? without a usable answer, or a job that lasts too
\* long, counts as a failure.
Poll(c) ==
    /\ chain[c].at = "wait"
    /\ \/ /\ ~job.on /\ job.ok
          /\ chain' = [chain EXCEPT ![c].at = "run"] /\ UNCHANGED fails
       \/ ~job.on /\ ~job.ok /\ Failed(c) /\ UNCHANGED fails
       \/ Fails /\ Failed(c)
    /\ UNCHANGED <<sending, cmgf, cscs, job, stuck, sends>>

\* Mutant: a send that failed leaves the guard up.
LowersAfterSuccess(c) ==
    IF chain[c].told = "failed" THEN sending ELSE sending \ {chain[c].page}

\* The end of send(), after success and failure.
Lowers(c) == sending \ {chain[c].page}

\* All is sent, or all that could be put back is: the page says so, and records
\* what was sent.
Ends(c) ==
    /\ chain[c].at = "run" /\ chain[c].todo = <<>>
    /\ chain' = [chain EXCEPT ![c].at = "told",
                     ![c].told = IF @ = "failed" THEN "failed" ELSE "sent"]
    /\ UNCHANGED <<sending, cmgf, cscs, job, stuck, sends, fails>>

Recorded(c) ==
    /\ chain[c].at = "told"
    /\ sending' = Lowers(c) /\ chain' = [chain EXCEPT ![c] = Idle]
    /\ job' = IF job.of = c THEN [job EXCEPT !.of = 0] ELSE job
    /\ UNCHANGED <<cmgf, cscs, stuck, sends, fails>>

Moves ==
    \/ \E c \in Chains : AskMode(c) \/ AskPdu(c) \/ Set(c) \/ Submit(c) \/ Poll(c) \/ Ends(c)
                         \/ Recorded(c)
    \/ JobEnds

Next ==
    \/ \E c \in Chains, p \in Pages, k \in Kinds : Send(c, p, k)
    \/ Moves

Spec == Init /\ [][Next]_vars /\ WF_vars(Moves)

-----------------------------------------------------------------------------
(* Properties                                                              *)

SendTypeOK ==
    /\ sending \subseteq Pages /\ cmgf \in {0, 1} /\ cscs \in {"IRA", "UCS2"}
    /\ \A c \in Chains : chain[c].at \in {"idle", "run", "wait", "told"}
    /\ sends \in 0..MaxSends /\ fails \in 0..MaxFail

\* The character set of the modem, which every page's answers depend on, is back
\* when no send is under way, however the sends went and however two of them
\* were interleaved, unless the very command that puts it back has failed.
CharsetRestored ==
    (\A c \in Chains : chain[c].at = "idle") /\ ~stuck => cscs = "IRA"

\* The page says that a message was sent only when every part of it was, unless
\* a send of another page has come between: seq of the job is not compared.
SuccessIsSent ==
    \A c \in Chains :
        chain[c].told = "sent" /\ ~chain[c].mixed
        => chain[c].sent = 1..Parts(chain[c].kind)

\* Every send comes to an end, and the page can send again.
Unsettled == sending # {}
SendEnds == Unsettled ~> ~Unsettled

\* What the bounds are: the sends are numbered from 1, zero is none of them.
SendBounds == Chains \subseteq Nat \ {0} /\ MaxSends \in Nat /\ MaxFail \in Nat

\* What a send may have before it while n of its parts are to be submitted.
ToSubmit(n) ==
    CASE n = 0 -> {<<>>, <<"text">>, <<"ira">>}
      [] n = 1 -> {<<"submit">>, <<"csca", "submit">>, <<"pdu", "csca", "submit">>,
                   <<"pdu?", "csca", "submit">>, <<"submit", "text">>, <<"submit", "ira">>,
                   <<"ucs2", "submit", "ira">>}
      [] n = 2 -> {<<"submit", "submit">>, <<"csca", "submit", "submit">>,
                   <<"pdu", "csca", "submit", "submit">>,
                   <<"pdu?", "csca", "submit", "submit">>, <<"submit", "submit", "text">>,
                   <<"csca", "submit", "submit", "text">>,
                   <<"pdu", "csca", "submit", "submit", "text">>,
                   <<"pdu?", "csca", "submit", "submit", "text">>,
                   <<"pdu", "pdu?", "csca", "submit", "submit", "text">>}

Lists == {<<"mode">>} \union ToSubmit(0) \union ToSubmit(1) \union ToSubmit(2)

\* The lists that put the character set back.
PutsBack == {<<"ira">>, <<"submit", "ira">>, <<"ucs2", "submit", "ira">>}

ToGo(c) == Parts(chain[c].kind) + 1 - chain[c].next

ChainType ==
    [at : {"idle", "run", "wait", "told"}, page : Pages \union {"none"}, kind : Kinds,
     todo : Lists, next : 1..3, sent : SUBSET (1..2), mixed : BOOLEAN,
     told : {"none", "sent", "failed"}]
JobType == [on : BOOLEAN, of : Chains \union {0}, part : Nat, ok : BOOLEAN]

\* Why: the parts submitted and those in the list are all there are; the job is
\* that of the part submitted last, as long as no other page has come between,
\* which is why a page sends one message at a time; and while the character set
\* is changed, some send has the command before it that puts it back.
ChainOK(c) ==
    /\ chain[c] \in ChainType
    /\ chain[c].at = "idle" => chain[c] = Idle
    /\ chain[c].at # "idle" => chain[c].page \in sending
    /\ chain[c].at = "wait" => chain[c].told = "none"
    /\ chain[c].at = "told" => chain[c].told # "none" /\ chain[c].todo = <<>>
    /\ chain[c].told = "sent" => chain[c].at = "told"
    /\ chain[c].told = "failed" => chain[c].todo \in {<<>>, <<"ira">>}
    /\ chain[c].told # "failed" /\ chain[c].at # "idle" =>
          \/ chain[c].at = "run" /\ chain[c].todo = <<"mode">> /\ chain[c].next = 1
          \/ ToGo(c) \in 0..2 /\ chain[c].todo \in ToSubmit(ToGo(c))

PartsSent(c) ==
    /\ job.of = c => chain[c].at # "idle" /\ job.part \in 1..(chain[c].next - 1)
    /\ chain[c].told # "failed" /\ ~chain[c].mixed =>
          IF chain[c].at = "wait"
          THEN /\ job.of = c /\ job.part = chain[c].next - 1
               /\ chain[c].sent \union {job.part} = 1..job.part
               /\ ~job.on /\ job.ok => job.part \in chain[c].sent
          ELSE chain[c].sent = 1..(chain[c].next - 1) /\ ~(job.on /\ job.of = c)

OnePerPage ==
    \A c, d \in Chains :
       chain[c].at # "idle" /\ chain[d].at # "idle" /\ chain[c].page = chain[d].page => c = d

CharsetComesBack == ~stuck /\ cscs = "UCS2" => \E c \in Chains : chain[c].todo \in PutsBack

SendInv ==
    /\ SendTypeOK /\ stuck \in BOOLEAN /\ DOMAIN chain = Chains
    /\ \A c \in Chains : ChainOK(c) /\ PartsSent(c)
    /\ job \in JobType
    /\ OnePerPage
    /\ CharsetComesBack
=============================================================================
