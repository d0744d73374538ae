--------------------------- MODULE SessionEngine ---------------------------
(***************************************************************************)
(* One device and the OMA DM session engine of mdmprotocol/mdm: Handle     *)
(* takes a message of a session, files the statuses and results it         *)
(* carries, and answers with the next commands of the device's queue.      *)
(*                                                                         *)
(* A handler runs from one call of the queue to the next in one step, so   *)
(* the handlers of two sessions, the callers that enqueue, cancel and      *)
(* prune commands, and the device interleave at every call.  Sessions are  *)
(* trusted (certificate authentication; the challenge is in SessionAuth)   *)
(* and one request of a session is handled at a time.  The device follows  *)
(* simulator/answer.go.                                                    *)
(***************************************************************************)
EXTENDS QueueTable, Sequences, TLC

CONSTANTS
    Kinds,        \* the assignments of "write", "large", "get", "bigget" or
                  \* "group" to IDs that are looked at
    UserScoped,   \* IDs of the commands under ./User
    FirstReads,   \* ID of the Get that queueFirstSessionReads enqueues
    Sessions,     \* session IDs
    Facts,        \* what package 1 may report, records [login, sync]
    GetStatuses,  \* the device's answers to a Get, a subset of Results
    Limit,        \* how many commands Deliverable returns (256)
    Budget,       \* how many commands fit one message (MaxMessageBytes)
    Chunks,       \* chunks of a large object
    EarlyStatus,  \* whether the Status of a chunked Get comes with the first chunk
    MaxSeq,       \* bound on enqueued commands
    MaxFaults,    \* bound on failing calls, timeouts, aborts and restarts
    MaxResends,   \* bound on requests the device sends again
    MaxCancels,   \* bound on calls of Cancel
    MaxPrunes     \* bound on calls of Prune

VARIABLES
    kind,     \* ID -> what the command of that ID is; never changes
    queue,    \* the device's command table
    seq,      \* the last Seq assigned
    answers,  \* ID -> items and member statuses stored with the result
    store,    \* session ID -> stored session (MemorySessions)
    handler,  \* session ID -> the request being handled
    wire,     \* session ID -> request on its way to the server
    client,   \* the device
    ran,      \* ID -> how often the device carried the command out
    told,     \* the <<ID, status>> pairs the device reported
    used      \* faults, resends, cancels and prunes so far

vars == <<kind, queue, seq, answers, store, handler, wire, client, ran, told, used>>

-----------------------------------------------------------------------------
(* A chunk of an object is its number; 0 is an item that is not chunked. *)
NoAsm == [id |-> "none", got |-> <<>>]
Whole(i) == IF kind[i] \in {"large", "bigget"} THEN [n \in 1..Chunks |-> n] ELSE <<0>>

(* syncml.Assembler.Add: the object is complete at the chunk without MoreData;
   the first chunk declares the size.  An error discards what was pending. *)
Add(asm, id, n) ==
    LET got  == Append(asm.got, n)
        last == n \in {0, Chunks}
        bad  == asm.got # <<>> /\ \/ asm.id # id
                                  \/ last /\ asm.got[1] = 1 /\ Len(got) # Chunks
    IN  [err |-> bad,
         asm |-> IF bad \/ last THEN NoAsm ELSE [id |-> id, got |-> got],
         out |-> IF last /\ ~bad THEN got ELSE <<>>]

-----------------------------------------------------------------------------
(* Sessions and requests.  ClientMsgID and ServerMsgID advance together, so a
   session has one number.  Sent and Children map MsgID/CmdID to a command;
   the CmdIDs of a reply are its positions.  asmMade and resMade tell whether
   the Assembler and the results map exist: they decide what a failed message
   leaves behind in the stored session. *)
NoObject == [id |-> "none", next |-> 0]
NoAnswer == [status |-> "none", items |-> <<>>, kids |-> 0]
NoSession == [msg |-> 0]
NoRequest == [msg |-> 0]
NoChunk == [ref |-> <<0, 0>>, uri |-> "none", n |-> 0]
Idle == [pc |-> "idle"]

NewSession ==
    [msg |-> 0, facts |-> [login |-> "none", sync |-> "none"],
     sent |-> <<>>, children |-> <<>>, outgoing |-> NoObject,
     asm |-> NoAsm, asmMade |-> FALSE, assembling |-> "none",
     results |-> [i \in Ids |-> NoAnswer], resMade |-> FALSE, closed |-> FALSE]

Request(m, type) ==
    [msg |-> m, kind |-> type, facts |-> NewSession.facts,
     statuses |-> {}, kids |-> {}, gets |-> {}, chunk |-> NoChunk]

Without(f, K) == [k \in DOMAIN f \ K |-> f[k]]

-----------------------------------------------------------------------------
(* fileResults: the complete Get results, then the chunk, if it is for a
   command this session sent. *)
Known(sess, req) == req.gets \cap DOMAIN sess.sent
HasChunk(sess, req) == req.chunk.ref \in DOMAIN sess.sent
ChunkAdded(sess, req) == Add(sess.asm, req.chunk.uri, req.chunk.n)

FileError(sess, req) ==
    \/ Known(sess, req) # {} /\ sess.asm.got # <<>>
    \/ HasChunk(sess, req) /\ ChunkAdded(sess, req).err

(* Mutant: every chunk is kept as an item of its own. *)
FileResultsUnassembled(sess, req) ==
    LET keys == Known(sess, req) \cup ({req.chunk.ref} \cap DOMAIN sess.sent)
    IN  [sess EXCEPT
          !.results = [i \in Ids |->
              IF \E k \in keys : sess.sent[k] = i THEN [@[i] EXCEPT !.items = Append(@, Whole(i))] ELSE @[i]],
          !.resMade = @ \/ keys # {}]
FileResults(sess, req) ==
    LET known == Known(sess, req)
        part  == HasChunk(sess, req)
        added == ChunkAdded(sess, req)
        done  == part /\ added.out # <<>>
        items(i) == IF \E k \in known : sess.sent[k] = i THEN <<Whole(i)>>
                    ELSE IF done /\ sess.sent[req.chunk.ref] = i THEN <<added.out>>
                    ELSE <<>>
    IN  [sess EXCEPT
          !.asm = IF part THEN added.asm ELSE @,
          !.asmMade = @ \/ part \/ known # {},
          !.assembling = IF part /\ ~done THEN sess.sent[req.chunk.ref]
                         ELSE IF part \/ known # {} THEN "none" ELSE @,
          !.results = [i \in Ids |-> [@[i] EXCEPT !.items = @ \o items(i)]],
          !.resMade = @ \/ done \/ known # {}]

(* Mutant: the entry is looked up by CmdRef alone. *)
FileStatusesAnyMessage(sess, req) ==
    LET ids == {sess.sent[k] : k \in {x \in DOMAIN sess.sent : \E s \in req.statuses : s[1][2] = x[2]}}
    IN  [sess EXCEPT
          !.results = [i \in Ids |-> IF i \in ids THEN [@[i] EXCEPT !.status = "ok"] ELSE @[i]],
          !.resMade = @ \/ ids # {},
          !.sent = Without(@, {s[1] : s \in req.statuses})]
(* fileStatus for every Status of the message: a member's Status goes to the
   group; an entry stays while the Results of its command are being assembled. *)
FileStatuses(sess, req) ==
    LET mine == {s \in req.statuses : s[1] \in DOMAIN sess.sent}
        kids == req.kids \cap DOMAIN sess.children
        of(i) == {s \in mine : sess.sent[s[1]] = i}
    IN  [sess EXCEPT
          !.results = [i \in Ids |->
              [@[i] EXCEPT !.status = IF of(i) = {} THEN @ ELSE (CHOOSE s \in of(i) : TRUE)[2],
                           !.kids = @ + Cardinality({k \in kids : sess.children[k] = i})]],
          !.resMade = @ \/ mine # {} \/ kids # {},
          !.sent = Without(@, {s[1] : s \in {t \in mine : sess.sent[t[1]] # sess.assembling}}),
          !.children = Without(@, kids)]

(* ackAndFile up to the hooks and queue calls of package 1. *)
Filed(sess, req) ==
    [FileStatuses(FileResults(sess, req), req) EXCEPT
       !.asm = IF req.kind = "drop" THEN NoAsm ELSE @,
       !.assembling = IF req.kind = "drop" THEN "none" ELSE @,
       !.facts = IF req.kind = "one" THEN req.facts ELSE @,
       !.closed = req.kind = "abort"]

(* What a failed message leaves in the stored session: GetSession copies the
   struct, so maps and pointers that the stored copy already has are shared
   with the handler's copy and everything else is as it was. *)
Surviving(old, sess, popped) ==
    [old EXCEPT !.sent = sess.sent,
                !.children = sess.children,
                !.results = IF old.resMade THEN sess.results ELSE @,
                !.asm = IF old.asmMade THEN sess.asm ELSE @,
                !.outgoing = IF popped THEN [@ EXCEPT !.next = @ + 1] ELSE @]

-----------------------------------------------------------------------------
(* Mutant: the signed-in user is not asked for. *)
ScopeAllowsAnyLogin(f, i) ==
    /\ f.sync = "user" => i \in UserScoped
    /\ f.sync = "device" => i \notin UserScoped
(* scopeAllows *)
ScopeAllows(f, i) ==
    /\ f.sync = "user" => i \in UserScoped
    /\ f.sync = "device" => i \notin UserScoped
    /\ i \in UserScoped => f.login = "user"

Ordered(S) ==
    CHOOSE s \in [1..Cardinality(S) -> S] :
        \A a, b \in DOMAIN s : a < b => queue[s[a]].seq < queue[s[b]].seq

(* Mutant: commands follow one that leaves in chunks. *)
BatchPastLarge(sess) ==
    Ordered({i \in Deliverable(queue, Limit) : ScopeAllows(sess.facts, i)})
(* The commands deliver sends: what the scope allows, in Seq order, up to the
   budget and to the first one that leaves in chunks. *)
Batch(sess) ==
    LET ready == Ordered({i \in Deliverable(queue, Limit) : ScopeAllows(sess.facts, i)})
        ends  == {Len(ready), Budget} \cup {n \in DOMAIN ready : kind[ready[n]] = "large"}
    IN  SubSeq(ready, 1, CHOOSE e \in ends : \A x \in ends : e <= x)

(* mapChildren numbers a group's member from the sizes of the two maps. *)
KidAt(sess, batch, p) ==
    Cardinality(DOMAIN sess.sent \cup {<<sess.msg, q>> : q \in 1..p})
      + Cardinality(DOMAIN sess.children)
      + Cardinality({q \in 1..p : kind[batch[q]] = "group"}) + 1000

Delivered(sess, batch) ==
    LET n == Len(batch)
        groups == {p \in 1..n : kind[batch[p]] = "group"}
        key(p) == <<sess.msg, KidAt(sess, batch, p)>>
        large == n > 0 /\ kind[batch[n]] = "large"
    IN  [sess EXCEPT
          !.sent = [k \in {<<sess.msg, p>> : p \in 1..n} |-> batch[k[2]]] @@ @,
          !.children = [k \in {key(p) : p \in groups} |->
                           batch[CHOOSE p \in groups : key(p) = k]] @@ @,
          !.outgoing = IF large THEN [id |-> batch[n], next |-> 2] ELSE @]

Reply(m, final, cmds) == [msg |-> m, final |-> final, cmds |-> cmds]

DeliverReply(sess, batch) ==
    Reply(sess.msg, Delivered(sess, batch).outgoing = NoObject,
          [p \in 1..Len(batch) |->
              [id |-> batch[p],
               chunk |-> IF kind[batch[p]] = "large" THEN 1 ELSE 0,
               kid |-> IF kind[batch[p]] = "group" THEN KidAt(sess, batch, p) ELSE 0]])

-----------------------------------------------------------------------------
Init ==
    /\ kind \in Kinds
    /\ queue = [i \in Ids |-> NoCommand]
    /\ seq = 0
    /\ answers = [i \in Ids |-> NoAnswer]
    /\ store = [s \in Sessions |-> NoSession]
    /\ handler = [s \in Sessions |-> Idle]
    /\ wire = [s \in Sessions |-> NoRequest]
    /\ client = [pc |-> "idle"]
    /\ ran = [i \in Ids |-> 0]
    /\ told = {}
    /\ used = [faults |-> 0, resends |-> 0, cancels |-> 0, prunes |-> 0]

Use(what, max) ==
    /\ used[what] < max
    /\ used' = [used EXCEPT ![what] = @ + 1]

(* The device takes the HTTP response if it still waits for it. *)
Respond(s, pc, reply) ==
    client' = IF client.pc = "wait" /\ client.sid = s
              THEN [client EXCEPT !.pc = pc, !.reply = reply] ELSE client

(* Mutant: an error is not reported to the device. *)
FailedSilently(s, sess, popped) ==
    /\ store' = IF store[s] = NoSession THEN store
                ELSE [store EXCEPT ![s] = Surviving(@, sess, popped)]
    /\ handler' = [handler EXCEPT ![s] = Idle]
    /\ UNCHANGED client
(* Handle returns an error. *)
Failed(s, sess, popped) ==
    /\ store' = IF store[s] = NoSession THEN store
                ELSE [store EXCEPT ![s] = Surviving(@, sess, popped)]
    /\ handler' = [handler EXCEPT ![s] = Idle]
    /\ Respond(s, "failed", NoRequest)

-----------------------------------------------------------------------------
(* Service.session: whether the request may open or continue the session. *)
InSequence(s, req) ==
    IF store[s] = NoSession THEN req.msg = 1 /\ req.kind = "one"
                            ELSE req.msg = store[s].msg + 1

Current(s, req) ==
    [(IF store[s] = NoSession THEN NewSession ELSE store[s]) EXCEPT !.msg = req.msg]

Arrived(s) == wire[s] # NoRequest /\ handler[s] = Idle

Reject(s) ==
    /\ Arrived(s)
    /\ ~InSequence(s, wire[s])
    /\ wire' = [wire EXCEPT ![s] = NoRequest]
    /\ Respond(s, "failed", NoRequest)
    /\ UNCHANGED <<kind, queue, seq, answers, store, handler, ran, told, used>>

(* A Results that does not fit the object being assembled fails the message. *)
RejectChunk(s) ==
    LET sess == Current(s, wire[s])
    IN  /\ Arrived(s)
        /\ InSequence(s, wire[s])
        /\ FileError(sess, wire[s])
        /\ wire' = [wire EXCEPT ![s] = NoRequest]
        /\ Failed(s, [sess EXCEPT !.asm = NoAsm], FALSE)
        /\ UNCHANGED <<kind, queue, seq, answers, ran, told, used>>

(* continueOrNext sends the next chunk, and the last one ends the object. *)
Continues(sess, req) ==
    req.kind = "next" /\ sess.outgoing # NoObject /\ sess.outgoing.next <= Chunks

Continued(sess) ==
    [sess EXCEPT
       !.sent = (<<sess.msg, 1>> :> sess.outgoing.id) @@ @,
       !.outgoing = IF @.next = Chunks THEN NoObject ELSE [@ EXCEPT !.next = @ + 1]]

(* Handle up to the first call of the queue. *)
Receive(s) ==
    LET req  == wire[s]
        sess == Filed(Current(s, req), req)
        next == sess.outgoing
        step(pc, after, reply, popped) ==
            [pc |-> pc, sess |-> after, reply |-> reply, popped |-> popped]
    IN  /\ Arrived(s)
        /\ InSequence(s, req)
        /\ ~FileError(Current(s, req), req)
        /\ wire' = [wire EXCEPT ![s] = NoRequest]
        /\ handler' = [handler EXCEPT ![s] =
             CASE sess.closed -> step("flush", sess, Reply(req.msg, TRUE, <<>>), FALSE)
               [] req.kind = "one" -> step("reads", sess, NoRequest, FALSE)
               [] Continues(sess, req) ->
                    step("flush", Continued(sess),
                         Reply(req.msg, next.next = Chunks,
                               <<[id |-> next.id, chunk |-> next.next, kid |-> 0]>>), TRUE)
               [] ~Continues(sess, req) /\ sess.asm.got # <<>> ->
                    step("flush", sess, Reply(req.msg, FALSE, <<>>), FALSE)
               [] OTHER -> step("fetch", sess, NoRequest, FALSE)]
        /\ UNCHANGED <<kind, queue, seq, answers, store, client, ran, told, used>>

(* recordPackageOne and queueFirstSessionReads: the read is enqueued once. *)
Reads(s) ==
    /\ handler[s].pc = "reads"
    /\ handler' = [handler EXCEPT ![s].pc = "fetch"]
    /\ IF queue[FirstReads].state = "absent"
       THEN /\ queue' = Enqueued(queue, FirstReads, seq + 1)
            /\ seq' = seq + 1
       ELSE UNCHANGED <<queue, seq>>
    /\ UNCHANGED <<kind, answers, store, wire, client, ran, told, used>>

(* deliver up to MarkSent. *)
Fetch(s) ==
    LET sess == handler[s].sess
        batch == Batch(sess)
    IN  /\ handler[s].pc = "fetch"
        /\ handler' = [handler EXCEPT
             ![s].pc = IF batch = <<>> THEN "flush" ELSE "mark",
             ![s].sess = Delivered(sess, batch),
             ![s].reply = DeliverReply(sess, batch)]
        /\ UNCHANGED <<kind, queue, seq, answers, store, wire, client, ran, told, used>>

Marking(s) == {c.id : c \in {handler[s].reply.cmds[p] : p \in DOMAIN handler[s].reply.cmds}}

(* Mutant: a redelivery is not counted. *)
MarkFirstOnly(s) ==
    /\ handler[s].pc = "mark"
    /\ Marking(s) \subseteq Stored(queue)
    /\ queue' = MarkedSent(queue, {i \in Marking(s) : queue[i].state = "pending"})
    /\ handler' = [handler EXCEPT ![s].pc = "flush"]
    /\ UNCHANGED <<kind, seq, answers, store, wire, client, ran, told, used>>
Mark(s) ==
    /\ handler[s].pc = "mark"
    /\ Marking(s) \subseteq Stored(queue)
    /\ queue' = MarkedSent(queue, Marking(s))
    /\ handler' = [handler EXCEPT ![s].pc = "flush"]
    /\ UNCHANGED <<kind, seq, answers, store, wire, client, ran, told, used>>

(* MarkSent stops at the first command that is gone. *)
MarkFails(s) ==
    LET cmds == handler[s].reply.cmds
        gone == {p \in DOMAIN cmds : cmds[p].id \notin Stored(queue)}
    IN  /\ handler[s].pc = "mark"
        /\ gone # {}
        /\ queue' = MarkedSent(queue, {cmds[p].id : p \in {q \in DOMAIN cmds : \A g \in gone : q < g}})
        /\ Failed(s, handler[s].sess, handler[s].popped)
        /\ UNCHANGED <<kind, seq, answers, wire, ran, told, used>>

(* flushResults, one StoreResult per step; the map is visited in any order. *)
Flushable(s) ==
    IF handler[s].pc = "flush" THEN {i \in Ids : handler[s].sess.results[i].status # "none"} ELSE {}

Flush(s, i) ==
    LET pr == handler[s].sess.results[i]
    IN  /\ i \in Flushable(s) \cap Stored(queue)
        /\ queue' = ResultStored(queue, i, pr.status, 1)
        /\ answers' = [answers EXCEPT ![i] = pr]
        /\ handler' = [handler EXCEPT ![s].sess.results[i] = NoAnswer]
        /\ UNCHANGED <<kind, seq, store, wire, client, ran, told, used>>

FlushFails(s) ==
    /\ Flushable(s) \ Stored(queue) # {}
    /\ Failed(s, handler[s].sess, handler[s].popped)
    /\ UNCHANGED <<kind, queue, seq, answers, wire, ran, told, used>>

(* Mutant: an assembler that was used counts as one in use. *)
HasWorkOnceAssembled(sess) ==
    \/ DOMAIN sess.sent # {}
    \/ DOMAIN sess.children # {}
    \/ sess.outgoing # NoObject
    \/ sess.asmMade
HasWork(sess) ==
    \/ DOMAIN sess.sent # {}
    \/ DOMAIN sess.children # {}
    \/ sess.outgoing # NoObject
    \/ sess.asm.got # <<>>

(* finish after flushResults. *)
End(s) ==
    LET h == handler[s]
        ending == h.sess.closed \/ (h.reply.final /\ ~HasWork(h.sess))
    IN  /\ h.pc = "flush"
        /\ Flushable(s) = {}
        /\ store' = [store EXCEPT ![s] = IF ending THEN NoSession ELSE h.sess]
        /\ handler' = [handler EXCEPT ![s] = Idle]
        /\ Respond(s, "reply", h.reply)
        /\ UNCHANGED <<kind, queue, seq, answers, wire, ran, told, used>>

(* A call of a hook or of the queue fails. *)
CallFails(s) ==
    /\ Flushable(s) = {} => handler[s].pc \in {"reads", "fetch", "mark"}
    /\ Use("faults", MaxFaults)
    /\ Failed(s, handler[s].sess, handler[s].popped)
    /\ UNCHANGED <<kind, queue, seq, answers, wire, ran, told>>

(* MemorySessions drops a session not seen for an hour; the device does not
   pause that long inside a session. *)
Expire(s) ==
    /\ store[s] # NoSession
    /\ handler[s] = Idle /\ wire[s] = NoRequest
    /\ client.pc # "idle" => client.sid # s
    /\ store' = [store EXCEPT ![s] = NoSession]
    /\ UNCHANGED <<kind, queue, seq, answers, handler, wire, client, ran, told, used>>

(* The server process restarts: sessions live in its memory, the queue in the
   database. *)
Restart ==
    /\ Use("faults", MaxFaults)
    /\ store' = [s \in Sessions |-> NoSession]
    /\ handler' = [s \in Sessions |-> Idle]
    /\ wire' = [s \in Sessions |-> NoRequest]
    /\ client' = IF client.pc = "wait" THEN [client EXCEPT !.pc = "failed"] ELSE client
    /\ UNCHANGED <<kind, queue, seq, answers, ran, told>>
-----------------------------------------------------------------------------
(* The device: simulator RunSession and answer. *)
Send(s, req) == wire' = [wire EXCEPT ![s] = req]

(* packageOne of a session the server does not know: SessionIDs are not reused
   while they are remembered. *)
OpenSession(s, f) ==
    LET req == [Request(1, "one") EXCEPT !.facts = f]
    IN  /\ client.pc = "idle"
        /\ store[s] = NoSession /\ handler[s] = Idle /\ wire[s] = NoRequest
        /\ client' = [pc |-> "wait", sid |-> s, req |-> req, reply |-> NoRequest,
                      facts |-> f, asm |-> NoAsm, upload |-> NoChunk]
        /\ Send(s, req)
        /\ UNCHANGED <<kind, queue, seq, answers, store, handler, ran, told, used>>

Uploading == client.upload # NoChunk

(* The device sends req next, with asm and upload as its new buffers. *)
Sends(req, asm, upload) ==
    /\ client' = [client EXCEPT !.pc = "wait", !.req = req, !.reply = NoRequest,
                                !.asm = asm, !.upload = upload]
    /\ Send(client.sid, req)

(* emitUpload: the next chunk, and with the last one the Status. *)
NextChunk ==
    LET up   == client.upload
        last == up.n = Chunks
        ends == last /\ ~EarlyStatus
        req  == [Request(client.req.msg + 1, "answer") EXCEPT
                   !.chunk = up, !.statuses = IF ends THEN {<<up.ref, "ok">>} ELSE {}]
    IN  /\ client.pc = "reply"
        /\ Uploading
        /\ Sends(req, client.asm, IF last THEN NoChunk ELSE [up EXCEPT !.n = @ + 1])
        /\ told' = IF ends THEN told \cup {<<up.uri, "ok">>} ELSE told
        /\ UNCHANGED <<kind, queue, seq, answers, store, handler, ran, used>>

(* The commands of the reply that are looked at when the Gets end with verdict v:
   an upload that starts ends the loop. *)
Starts(r, v) ==
    {p \in DOMAIN r.cmds : kind[r.cmds[p].id] = "bigget" /\ r.final /\ v = "ok"}
Handled(r, v) == {p \in DOMAIN r.cmds : \A b \in Starts(r, v) : p <= b}

(* The assembler after the first n commands, and whether command p is carried
   out: writes at once, a Get only in a final message. *)
Applies(i) == kind[i] \in {"write", "large", "group"}
AsmAfter(r, n) ==
    LET after[k \in 0..n] ==
          IF k = 0 THEN client.asm
          ELSE IF Applies(r.cmds[k].id)
               THEN Add(after[k - 1], r.cmds[k].id, r.cmds[k].chunk).asm
               ELSE after[k - 1]
    IN  after[n]
CarriesOut(r, p) ==
    IF Applies(r.cmds[p].id)
    THEN Add(AsmAfter(r, p - 1), r.cmds[p].id, r.cmds[p].chunk).out = Whole(r.cmds[p].id)
    ELSE r.final

Ran(r, v) ==
    ran' = [i \in Ids |->
              IF \E p \in Handled(r, v) : r.cmds[p].id = i /\ CarriesOut(r, p)
              THEN ran[i] + 1 ELSE ran[i]]

(* A message that is not final: what it carries is kept and the next message is
   asked for. *)
AskNext ==
    LET r == client.reply
    IN  /\ client.pc = "reply" /\ ~Uploading
        /\ ~r.final
        /\ Sends(Request(client.req.msg + 1, "next"), AsmAfter(r, Len(r.cmds)), NoChunk)
        /\ Ran(r, "ok")
        /\ UNCHANGED <<kind, queue, seq, answers, store, handler, told, used>>

(* A final message with commands: a Status each, the Results of the Gets, and
   the first chunk of a large one.  verdict is what the Gets find. *)
Answer(verdict) ==
    LET r == client.reply
        handled == Handled(r, verdict)
        n == Cardinality(handled)
        ref(p) == <<r.msg, p>>
        id(p) == r.cmds[p].id
        big == Starts(r, verdict) \cap handled
        up == [ref |-> ref(n), uri |-> id(n), n |-> 1]
        code(p) == IF kind[id(p)] \in {"get", "bigget"} THEN verdict ELSE "ok"
        closed == IF EarlyStatus THEN handled ELSE handled \ big
        req == [Request(client.req.msg + 1, "answer") EXCEPT
                  !.statuses = {<<ref(p), code(p)>> : p \in closed},
                  !.kids = {<<r.msg, r.cmds[p].kid>> : p \in {q \in handled : kind[id(q)] = "group"}},
                  !.gets = {ref(p) : p \in {q \in handled : kind[id(q)] = "get" /\ verdict = "ok"}},
                  !.chunk = IF big = {} THEN NoChunk ELSE up]
    IN  /\ client.pc = "reply" /\ ~Uploading
        /\ r.final /\ r.cmds # <<>>
        /\ Sends(req, AsmAfter(r, n), IF big = {} THEN NoChunk ELSE [up EXCEPT !.n = 2])
        /\ Ran(r, verdict)
        /\ told' = told \cup {<<id(p), code(p)>> : p \in closed}
        /\ UNCHANGED <<kind, queue, seq, answers, store, handler, used>>

(* The server's Final without a command ends the session. *)
Finish ==
    /\ client.pc = "reply" /\ ~Uploading
    /\ client.reply.final /\ client.reply.cmds = <<>>
    /\ client' = [pc |-> "idle"]
    /\ UNCHANGED <<kind, queue, seq, answers, store, handler, wire, ran, told, used>>

(* Alert 1223 instead of an answer. *)
Abort ==
    /\ client.pc = "reply"
    /\ Use("faults", MaxFaults)
    /\ Sends(Request(client.req.msg + 1, "abort"), NoAsm, NoChunk)
    /\ UNCHANGED <<kind, queue, seq, answers, store, handler, ran, told>>

(* Alert 1225: the device gives up the object it is uploading. *)
DropUpload ==
    /\ client.pc = "reply" /\ Uploading
    /\ Use("faults", MaxFaults)
    /\ Sends(Request(client.req.msg + 1, "drop"), client.asm, NoChunk)
    /\ UNCHANGED <<kind, queue, seq, answers, store, handler, ran, told>>

(* The connection breaks: the request is lost or still arrives, and its
   response is lost. *)
Timeout ==
    /\ client.pc = "wait"
    /\ Use("faults", MaxFaults)
    /\ client' = [client EXCEPT !.pc = "failed"]
    /\ wire' \in {wire, [wire EXCEPT ![client.sid] = NoRequest]}
    /\ UNCHANGED <<kind, queue, seq, answers, store, handler, ran, told>>

Resend ==
    /\ client.pc = "failed"
    /\ handler[client.sid] = Idle /\ wire[client.sid] = NoRequest
    /\ Use("resends", MaxResends)
    /\ client' = [client EXCEPT !.pc = "wait"]
    /\ Send(client.sid, client.req)
    /\ UNCHANGED <<kind, queue, seq, answers, store, handler, ran, told>>

Abandon ==
    /\ client.pc = "failed"
    /\ client' = [pc |-> "idle"]
    /\ UNCHANGED <<kind, queue, seq, answers, store, handler, wire, ran, told, used>>

-----------------------------------------------------------------------------
(* Callers of the queue. *)
EnqueueCommand(i) ==
    /\ seq < MaxSeq
    /\ i # FirstReads
    /\ queue[i].state = "absent"
    /\ queue' = Enqueued(queue, i, seq + 1)
    /\ seq' = seq + 1
    /\ UNCHANGED <<kind, answers, store, handler, wire, client, ran, told, used>>

CancelCommand(i) ==
    /\ queue[i].state \in Live
    /\ Use("cancels", MaxCancels)
    /\ queue' = Cancelled(queue, {i}, 1)
    /\ UNCHANGED <<kind, seq, answers, store, handler, wire, client, ran, told>>

PruneCommand(i) ==
    /\ queue[i].state \in Terminal
    /\ Use("prunes", MaxPrunes)
    /\ queue' = Pruned(queue, {i})
    /\ answers' = [answers EXCEPT ![i] = NoAnswer]
    /\ UNCHANGED <<kind, seq, store, handler, wire, client, ran, told>>

-----------------------------------------------------------------------------
Handle(s) ==
    \/ Reject(s) \/ RejectChunk(s) \/ Receive(s) \/ Reads(s) \/ Fetch(s)
    \/ Mark(s) \/ MarkFails(s) \/ (\E i \in Ids : Flush(s, i)) \/ FlushFails(s) \/ End(s)

Device ==
    \/ \E s \in Sessions, f \in Facts : OpenSession(s, f)
    \/ NextChunk \/ AskNext \/ (\E v \in GetStatuses : Answer(v)) \/ Finish \/ Abandon

Next ==
    \/ \E s \in Sessions : Handle(s) \/ CallFails(s) \/ Expire(s)
    \/ Restart \/ Device \/ Abort \/ DropUpload \/ Timeout \/ Resend
    \/ \E i \in Ids : EnqueueCommand(i) \/ CancelCommand(i) \/ PruneCommand(i)

Spec == Init /\ [][Next]_vars

(* Handlers and the device keep running, and old sessions expire. *)
FairSpec ==
    /\ Spec
    /\ \A s \in Sessions : WF_vars(Handle(s)) /\ WF_vars(Expire(s))
    /\ WF_vars(Device)
-----------------------------------------------------------------------------
(* Type invariant. *)
TypeOK ==
    /\ queue \in [Ids -> Command]
    /\ seq \in Nat
    /\ \A i \in Ids : answers[i].kids \in Nat /\ ran[i] \in Nat
    /\ \A s \in Sessions :
          /\ store[s].msg \in Nat /\ wire[s].msg \in Nat
          /\ handler[s].pc \in {"idle", "reads", "fetch", "mark", "flush"}
          /\ store[s] # NoSession => \A k \in DOMAIN store[s].sent : store[s].sent[k] \in Ids
    /\ client.pc \in {"idle", "wait", "reply", "failed"}
    /\ told \subseteq Ids \X Results

(* fileStatus, fileResults, flushResults: whatever was lost, repeated, delayed or
   failed, the result stored for a command is one the device reported for that
   very command. *)
ResultsAreReal ==
    \A i \in Ids : queue[i].state \in {"acknowledged", "failed"} => <<i, queue[i].result>> \in told

(* queue.go Result "Chunked Results are stored reassembled": the result of a
   successful Get is the whole object, once, and that of a group has the status
   of its member, once. *)
ResultsAreWhole ==
    \A i \in Ids : queue[i].state = "acknowledged" =>
        /\ kind[i] \in {"get", "bigget"} => answers[i].items = <<Whole(i)>>
        /\ kind[i] = "group" => answers[i].kids = 1

(* An acknowledged write was carried out on the device: for a large object all
   chunks arrived and were put together. *)
AckedIsApplied ==
    \A i \in Ids : queue[i].state = "acknowledged" => ran[i] > 0

(* queue.go "Attempts record the latest delivery": the device never carries
   a command out more often than the queue recorded deliveries of it. *)
AttemptsCover ==
    \A i \in Stored(queue) : ran[i] <= queue[i].attempts

(* deliver.go scopeAllows: a command under ./User is carried out only in a
   session whose package 1 reported a signed-in user, and until then it stays
   pending. *)
UserScopeHeld ==
    [][\A i \in UserScoped :
         /\ ran'[i] # ran[i] => client.facts.login = "user" /\ client.facts.sync # "device"
         /\ queue[i].state = "pending" /\ queue'[i].state = "sent"
            => \E s \in Sessions : handler[s].pc = "mark" /\ handler[s].sess.facts.login = "user"]_vars

(* queue.go Deliverable returns "pending ones and sent ones whose Status never
   arrived": a reply never carries a command whose Status is in the request it
   answers. *)
AnsweredNotRedelivered ==
    \A s \in Sessions : handler[s].pc = "mark" =>
        \A i \in Marking(s) : handler[s].sess.results[i].status = "none"

(* finish.go "The session ends when the server sends Final and has nothing
   pending": as long as no message was repeated and no upload given up, a server
   that answered the device's last message with Final and no command has dropped
   the session, unless it still waits for Statuses the device never sends.  Those
   are the ones of a message that ended in an early chunk of a large object (the
   device answers final messages only) and of commands behind a chunked Get (the
   device leaves the message when the upload starts).  Such a session stays until
   it expires. *)
FinishedIsGone ==
    [][/\ used.faults = 0 /\ used.resends = 0
       /\ client.pc = "reply" /\ client'.pc = "idle" /\ store[client.sid] # NoSession
       => LET sent == store[client.sid].sent
              early == {k[1] : k \in {x \in DOMAIN sent : kind[sent[x]] = "large"}}
              behind == {k \in DOMAIN sent : k[2] > 1 /\ \E i \in Ids \ {sent[k]} : kind[i] = "bigget"}
          IN  sent # <<>> /\ \A k \in DOMAIN sent : k[1] \in early \/ k \in behind]_vars

(* Every command that waits for the device is answered or withdrawn in the end,
   although messages fail, are lost or repeated a bounded number of times. *)
EventuallyAnswered ==
    \A i \in Ids \ UserScoped : queue[i].state \in Live ~> queue[i].state \notin Live

(* RunSession: every session of the device comes to an end. *)
SessionsEnd == client.pc # "idle" ~> client.pc = "idle"
=============================================================================
