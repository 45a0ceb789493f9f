----------------------------- MODULE NtpqQuery -----------------------------
(***************************************************************************)
(* One mode 6 query of ntpq: doqueryex() sends a request, getresponse()    *)
(* puts the fragments of the response back together, and a request that    *)
(* timed out, or whose response stayed incomplete, is made once more.  The *)
(* other end is ntpd, which answers every request it receives and cuts the *)
(* answer where its buffer is full; between them UDP loses, repeats,       *)
(* delays and reorders.  A packet is lost when it is never taken out of    *)
(* the network: nothing makes ntpd serve a request, and select() may time  *)
(* out whatever is on its way.                                             *)
(*                                                                         *)
(* Data is abstracted to where it comes from: pktdata says for each offset *)
(* of the client's buffer which reply of the server the octet there was    *)
(* copied out of, 0 when none.                                             *)
(***************************************************************************)
EXTENDS Integers, Sequences, FiniteSets

CONSTANTS
    MaxFrags,       \* MAXFRAGS: the fragments the client can hold
    BufSize,        \* sizeof(pktdata)
    Layouts,        \* the ways to cut a reply: the offset each fragment ends at
    MaxQueries,     \* bound: queries a run makes
    MaxReplies,     \* bound: replies the server makes
    MaxInterrupts   \* bound: signals that interrupt select()

ASSUME QueryAssumption ==
    /\ MaxFrags \in Nat \ {0} /\ BufSize \in Nat \ {0}
    /\ MaxQueries \in Nat /\ MaxReplies \in Nat /\ MaxInterrupts \in Nat
    /\ \A cut \in Layouts :
         /\ cut \in Seq(Nat) /\ cut # << >>
         /\ \A i, j \in DOMAIN cut : i <= j => cut[i] <= cut[j]

VARIABLES
    phase,        \* where the client is: "idle", "send", "collect" or "recv"
    sequence,     \* number of the request the client waits on
    done,         \* the request has been made a second time
    frags,        \* offsets[] and counts[]: the fragments accepted so far
    seenlastfrag,
    late,         \* more than tospan seconds have gone by since tobase
    pktdata,      \* Offset -> reply the octet came from
    rsize,
    result,       \* what doqueryex() returned last
    requests,     \* requests in the network, by their sequence number
    responses,    \* fragments and errors in the network
    replies,      \* the replies the server has made: what they answer, their size
    queries, sends, interrupts, interrupted
                  \* counts for the bounds, and what happened to this request

client  == <<phase, sequence, done, frags, seenlastfrag, late, pktdata, rsize, result>>
network == <<requests, responses>>
counts  == <<queries, sends, interrupts, interrupted>>
queryVars == <<client, network, replies, counts>>

Offset == 0 .. BufSize - 1
Outcome == {"none", "ok", "timeout", "incomplete", "toomuch", "error", "fails"}

QueryInit ==
    /\ phase = "idle" /\ sequence = 0 /\ done = FALSE
    /\ frags = {} /\ seenlastfrag = FALSE /\ late = FALSE
    /\ pktdata = [o \in Offset |-> 0]
    /\ rsize = 0 /\ result = "none"
    /\ requests = {} /\ responses = {} /\ replies = << >>
    /\ queries = 0 /\ sends = 0 /\ interrupts = 0 /\ interrupted = FALSE

-----------------------------------------------------------------------------
(* ntpd: process_control() and the fragments ctl_flushpkt() sends.         *)

Fragment(reply, seq, cut, i) ==
    LET off == IF i = 1 THEN 0 ELSE cut[i - 1]
    IN  [seq |-> seq, reply |-> reply, off |-> off, cnt |-> cut[i] - off,
         more |-> i < Len(cut), err |-> FALSE]

(* ctl_error(): one packet with the error bit and no data.                 *)
ErrorPacket(reply, seq) ==
    [seq |-> seq, reply |-> reply, off |-> 0, cnt |-> 0, more |-> FALSE, err |-> TRUE]

(* Every request is answered when it arrives, a repeated one again: the    *)
(* server keeps no request.  What it answers may have changed in between,  *)
(* and so may the places where the answer is cut.                          *)
Serve(seq) ==
    /\ seq \in requests
    /\ Len(replies) < MaxReplies
    /\ LET r == Len(replies) + 1 IN
         \/ \E cut \in Layouts :
              /\ responses' = responses \cup {Fragment(r, seq, cut, i) : i \in DOMAIN cut}
              /\ replies' = Append(replies, [seq |-> seq, size |-> cut[Len(cut)]])
         \/ /\ responses' = responses \cup {ErrorPacket(r, seq)}
            /\ replies' = Append(replies, [seq |-> seq, size |-> 0])
    /\ \/ requests' = requests \ {seq}
       \/ requests' = requests            \* the network repeats it
    /\ UNCHANGED <<client, counts>>

-----------------------------------------------------------------------------
(* doqueryex()                                                             *)

Ask ==
    /\ phase = "idle" /\ queries < MaxQueries
    /\ queries' = queries + 1
    /\ sequence' = sequence + 1
    /\ done' = FALSE /\ phase' = "send" /\ sends' = 0
    /\ UNCHANGED <<frags, seenlastfrag, late, pktdata, rsize, result, network, replies,
                   interrupts, interrupted>>

(* sendrequest(), then the start of getresponse(), which forgets the       *)
(* fragments it held but not the octets in pktdata.                        *)
Send ==
    /\ phase = "send"
    /\ requests' = requests \cup {sequence}
    /\ phase' = "collect" /\ sends' = sends + 1
    /\ frags' = {} /\ seenlastfrag' = FALSE /\ late' = FALSE /\ rsize' = 0
    /\ interrupted' = FALSE
    /\ UNCHANGED <<sequence, done, pktdata, result, responses, replies, queries, interrupts>>

ReturnResult(res) == phase' = "idle" /\ result' = res /\ UNCHANGED <<sequence, done>>

SendFails ==
    /\ phase = "send" /\ ReturnResult("fails")
    /\ UNCHANGED <<frags, seenlastfrag, late, pktdata, rsize, network, replies, counts>>

(* getresponse() has returned a result: a timeout or an incomplete         *)
(* response has the request made again, once.  Only after an incomplete    *)
(* one does it get a new sequence number.                                  *)
Finish(res) ==
    IF ~done /\ res \in {"timeout", "incomplete"}
    THEN /\ sequence' = IF res = "incomplete" THEN sequence + 1 ELSE sequence
         /\ done' = TRUE /\ phase' = "send"
         /\ UNCHANGED result
    ELSE ReturnResult(res)

-----------------------------------------------------------------------------
(* getresponse()                                                           *)

TimedOut == Finish(IF frags = {} THEN "timeout" ELSE "incomplete")

SelectTimesOut ==
    /\ phase = "collect"
    /\ TimedOut
    /\ UNCHANGED <<frags, seenlastfrag, late, pktdata, rsize, network, replies, counts>>

SelectReady ==
    /\ phase = "collect" /\ responses # {}
    /\ phase' = "recv"
    /\ UNCHANGED <<sequence, done, frags, seenlastfrag, late, pktdata, rsize, result,
                   network, replies, counts>>

SelectFails ==
    /\ phase = "collect" /\ ReturnResult("fails")
    /\ UNCHANGED <<frags, seenlastfrag, late, pktdata, rsize, network, replies, counts>>

(* time(NULL) - tobase exceeds the time the client waits.                  *)
TimePasses ==
    /\ phase \in {"collect", "recv"} /\ ~late
    /\ late' = TRUE
    /\ UNCHANGED <<phase, sequence, done, frags, seenlastfrag, pktdata, rsize, result,
                   network, replies, counts>>

Extent(p) == p.off .. (p.off + p.cnt - 1)
Covered(F) == UNION {Extent(f) : f \in F}

(* A fragment at an offset already held, or one that reaches into its      *)
(* neighbours, is ignored.                                                 *)
Collides(p, F) ==
    \E f \in F : \/ f.off = p.off
                 \/ f.off < p.off /\ f.off + f.cnt > p.off
                 \/ f.off > p.off /\ p.off + p.cnt > f.off

(* offsets[0] == 0 and each fragment begins where the one before ends.     *)
NoHoles(F) ==
    LET size == Cardinality(Covered(F)) IN
    /\ \E first \in F : first.off = 0
    /\ Covered(F) = 0 .. size - 1
    /\ \A f \in F : f.off <= size

(* Mutant: the last fragment ends the response, with or without holes.     *)
EndAtLast(F, last) ==
    IF last
    THEN rsize' = Cardinality(Covered(F)) /\ Finish("ok")
    ELSE phase' = "collect" /\ UNCHANGED <<sequence, done, rsize, result>>

(* The label maybe_final: with a last fragment and no holes it is all here.*)
MaybeFinal(F, last) ==
    IF last /\ NoHoles(F)
    THEN rsize' = Cardinality(Covered(F)) /\ Finish("ok")
    ELSE phase' = "collect" /\ UNCHANGED <<sequence, done, rsize, result>>

(* Mutant: the sequence number of a response is not looked at.             *)
AnyWanted(p) == TRUE

(* ntohs(rpkt.sequence) and the opcode that goes with it.                  *)
Wanted(p) == p.seq = sequence

Ignored(p) ==
    \/ ~Wanted(p)
    \/ /\ ~p.err
       /\ p.off + p.cnt <= BufSize
       /\ \/ seenlastfrag /\ ~p.more                  \* a second last fragment
          \/ Cardinality(frags) < MaxFrags /\ Collides(p, frags)

(* Mutant: fragments are not held against the buffer.                      *)
TooManyOnly(p) == Wanted(p) /\ ~p.err /\ Cardinality(frags) > MaxFrags - 1

TooMuch(p) ==
    /\ Wanted(p) /\ ~p.err
    /\ \/ p.off + p.cnt > BufSize
       \/ /\ ~(seenlastfrag /\ ~p.more)
          /\ Cardinality(frags) > MaxFrags - 1

Taken(p) == responses' = responses \ {p} \/ responses' = responses

(* Mutant: only select() itself can time out.                              *)
NeverTooLate == FALSE

(* (uint32_t)time(NULL) - tobase > tospan                                  *)
TooLate == late

(* recv() after select() said so, too late: thrown away and taken for a    *)
(* timeout.                                                                *)
ReceiveLate(p) ==
    /\ phase = "recv" /\ TooLate /\ p \in responses
    /\ TimedOut
    /\ Taken(p)
    /\ UNCHANGED <<frags, seenlastfrag, late, pktdata, rsize, requests, replies, counts>>

ReceiveIgnored(p) ==
    /\ phase = "recv" /\ ~TooLate /\ p \in responses
    /\ Ignored(p)
    /\ phase' = "collect"
    /\ Taken(p)
    /\ UNCHANGED <<sequence, done, frags, seenlastfrag, late, pktdata, rsize, result,
                   requests, replies, counts>>

ReceiveError(p) ==
    /\ phase = "recv" /\ ~TooLate /\ p \in responses
    /\ ~Ignored(p)
    /\ \/ Wanted(p) /\ p.err /\ Finish("error")
       \/ TooMuch(p) /\ Finish("toomuch")
    /\ Taken(p)
    /\ UNCHANGED <<frags, seenlastfrag, late, pktdata, rsize, requests, replies, counts>>

ReceiveFragment(p) ==
    /\ phase = "recv" /\ ~TooLate /\ p \in responses
    /\ ~p.err /\ ~Ignored(p) /\ ~TooMuch(p)
    /\ frags' = frags \cup {[off |-> p.off, cnt |-> p.cnt]}
    /\ seenlastfrag' = (seenlastfrag \/ ~p.more)
    /\ pktdata' = [o \in Offset |-> IF o \in Extent(p) THEN p.reply ELSE pktdata[o]]
    /\ late' = FALSE                                   \* tobase = time(NULL)
    /\ MaybeFinal(frags', seenlastfrag')
    /\ Taken(p)
    /\ UNCHANGED <<requests, replies, counts>>

(* EINTR stands for "the last packet was received".                        *)
SelectInterrupted ==
    /\ phase = "collect" /\ interrupts < MaxInterrupts
    /\ interrupts' = interrupts + 1
    /\ interrupted' = TRUE
    /\ seenlastfrag' = TRUE
    /\ MaybeFinal(frags, TRUE)
    /\ UNCHANGED <<frags, late, pktdata, network, replies, queries, sends>>

Receive ==
    \E p \in responses : \/ ReceiveLate(p)  \/ ReceiveIgnored(p)
                         \/ ReceiveError(p) \/ ReceiveFragment(p)

QueryNext ==
    \/ \E seq \in requests : Serve(seq)
    \/ Ask \/ Send \/ SendFails
    \/ SelectReady \/ SelectTimesOut \/ SelectFails \/ SelectInterrupted \/ TimePasses
    \/ Receive

(* The client runs, its clock goes on, and select() returns with whatever  *)
(* is there or with a timeout.  The network and ntpd owe it nothing.       *)
Fairness ==
    /\ WF_queryVars(Send \/ SendFails)
    /\ WF_queryVars(TimePasses)
    /\ WF_queryVars(SelectReady \/ SelectTimesOut)
    /\ WF_queryVars(Receive)

QuerySpec == QueryInit /\ [][QueryNext]_queryVars
FairQuerySpec == QuerySpec /\ Fairness

-----------------------------------------------------------------------------
QueryTypeOK ==
    /\ phase \in {"idle", "send", "collect", "recv"}
    /\ sequence \in Nat /\ queries \in 0 .. MaxQueries /\ sends \in Nat
    /\ done \in BOOLEAN /\ seenlastfrag \in BOOLEAN /\ late \in BOOLEAN
    /\ frags \subseteq [off : Nat, cnt : Nat]
    /\ pktdata \in [Offset -> Nat] /\ rsize \in 0 .. BufSize /\ result \in Outcome
    /\ requests \subseteq Nat
    /\ responses \subseteq [seq : Nat, reply : Nat, off : Nat, cnt : Nat,
                            more : BOOLEAN, err : BOOLEAN]
    /\ replies \in Seq([seq : Nat, size : Nat])
    /\ interrupts \in 0 .. MaxInterrupts /\ interrupted \in BOOLEAN

Answered == phase = "idle" /\ result = "ok"

(* The replies the answer's octets were taken from.                        *)
Origins == {pktdata[o] : o \in 0 .. rsize - 1}

(* What doqueryex() hands over holds no octet left in the buffer by an     *)
(* earlier query or an earlier attempt, and no octet of a response to      *)
(* another request, however late or out of order fragments arrive, and     *)
(* also when a signal cuts the reception short.                            *)
AnswersThisRequest ==
    Answered => \A r \in Origins : r \in DOMAIN replies /\ replies[r].seq = sequence

(* The fragments of a response are put together without loss: when the     *)
(* server replied once to the request, what is handed over is that reply   *)
(* from its first octet to its last.  (Not when a signal arrived: EINTR is *)
(* taken for the last packet on purpose.)                                  *)
OneReplyIsWhole ==
    \A r \in DOMAIN replies :
        (/\ Answered /\ ~interrupted
         /\ replies[r].seq = sequence
         /\ \A q \in DOMAIN replies : replies[q].seq = sequence => q = r)
        => rsize = replies[r].size

(* A query comes to an end, even when the network keeps repeating packets  *)
(* the client has to ignore.                                               *)
EveryQueryEnds == (phase # "idle") ~> (phase = "idle")

(* ntpq.c:1575 gives a repeated request a new number "so we don't get      *)
(* confused about differing fragments": an answer is made of one reply.    *)
(* (As long as ntpd replies no more often than it was asked.)              *)
OneReplyPerAnswer ==
    (/\ Answered /\ ~interrupted
     /\ Cardinality({r \in DOMAIN replies : replies[r].seq = sequence}) <= sends)
    => Cardinality(Origins) <= 1
=============================================================================
