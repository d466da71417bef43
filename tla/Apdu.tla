-------------------------------- MODULE Apdu --------------------------------
(***************************************************************************)
(* The command and response buffers of apdu.c, between the USB drivers and *)
(* the applets. A command may come in chained segments, which the card     *)
(* collects in chain_buf; a response longer than the host asked for is     *)
(* sent in parts, cut in place in the transmit buffer: the two bytes after *)
(* a part are saved in rdata_bk and replaced by a 61xx status, and GET     *)
(* RESPONSE puts them back.                                                *)
(*                                                                         *)
(* One command is handled at a time (UsbCard has the interleavings), by    *)
(* whichever interface sends it; all of them share chain and response      *)
(* state. A byte of the transmit buffer is a pair: its kind and a number.  *)
(* Header sizes, the size of a HID frame, the range of a status byte and   *)
(* of the chain buffer are scaled down.                                    *)
(***************************************************************************)
EXTENDS Integers, Sequences, SequencesExt

CONSTANTS
    Itfs,          \* interfaces in use: subset of {"ccid", "wcid", "hid"}
    Headers,       \* CLA INS P1 P2 of the commands that are not SELECT
    Select,        \* the header of SELECT by AID
    Segments,      \* the data of a command or segment: sequences
    ChainSize,     \* sizeof(chain_buf)
    Payloads,      \* names of responses
    MaxResponse,   \* longest response data of an applet
    Lengths,       \* values of Le
    StatusRange,   \* number of values of the second status byte
    CcidHeader, HidHeader, HidFrame,
    CcidMax        \* CCID_MAX_XFR_BLOCK_DATA_SIZE

SegmentBytes == UNION {{d[k] : k \in DOMAIN d} : d \in Segments}

\* What the constants have to be; MCTransport assumes it of its instance.
ConstantTypes ==
    /\ Itfs \subseteq {"ccid", "wcid", "hid"}
    /\ Select \notin Headers /\ "none" \notin Headers \cup {Select}
    /\ Segments \subseteq Seq(SegmentBytes)
    /\ ChainSize \in Nat \ {0} /\ MaxResponse \in Nat /\ StatusRange \in Nat \ {0}
    /\ Lengths \subseteq Nat
    /\ CcidHeader \in Nat /\ HidHeader \in Nat /\ HidFrame \in Nat /\ CcidMax \in Nat
    /\ MaxResponse + 2 <= CcidMax          \* the response fits the buffer

\* apdu.rdata - tx.buffer
Base(i) == IF i = "hid" THEN HidHeader ELSE CcidHeader

Cells(i) == 0 .. Base(i) + MaxResponse + 1

Zero == <<"zero", 0>>
HeaderByte == <<"header", 0>>
Stray == <<"stray", 0>>                  \* memory outside the response
More == <<"61", 0>>

\* Mutant: the number of bytes left is cut to a byte.
Remaining_Low(n) == <<"rest", n % StatusRange>>

\* The second status byte: 0 for more than it can say.
Remaining(n) == <<"rest", IF n >= StatusRange THEN 0 ELSE n>>

Payload(r, n) == [k \in 1 .. n |-> <<r, k>>]
StatusBytes(s) == <<<<s, 1>>, <<s, 2>>>>

VARIABLES
    is_chaining,
    chain_header,
    chain_buf,      \* the data collected, up to chain_ptr
    tx,             \* transmit buffer of each interface
    resp,           \* rdata_gr (interface and offset), rdata_bk, apdu.rlen, response_pending
    host,           \* per interface, what the host knows of its chain and of its response
    executed        \* history: the last data an applet was given, and what was meant

vars == <<is_chaining, chain_header, chain_buf, tx, resp, host, executed>>

NoHeader == "none"
NoBytes == <<Zero, Zero>>           \* rdata_bk is not read while nothing is pending
NoResponse == [itf |-> "none", gr |-> 0, bk |-> NoBytes, rlen |-> 0, pending |-> FALSE]
QuietHost == [sent |-> <<>>, hdr |-> NoHeader,
              name |-> "none", len |-> 0, got |-> <<>>, status |-> <<>>]

Init ==
    /\ is_chaining = FALSE
    /\ chain_header = NoHeader
    /\ chain_buf = <<>>
    /\ tx = [i \in Itfs |-> [c \in Cells(i) |-> Zero]]
    /\ resp = NoResponse
    /\ host = [i \in Itfs |-> QuietHost]
    /\ executed = [given |-> <<>>, meant |-> <<>>]

-----------------------------------------------------------------------------
\* Sending.

\* The host was told that there is more.
MorePending(h) == h.status # <<>> /\ h.status[1] = More

\* What the driver sends: size bytes from start, with its header in front.
Sent(t, start, size) ==
    [k \in 1 .. size |-> IF start + k - 1 \in DOMAIN t THEN t[start + k - 1] ELSE Stray]

Framed(i, t, start) ==
    [c \in DOMAIN t |-> IF c \in start - Base(i) .. start - 1 THEN HeaderByte ELSE t[c]]

\* The last two bytes are the status, the ones before data.
Received(h, bytes) ==
    LET n == Len(bytes) - 2
    IN  [h EXCEPT !.got = @ \o SubSeq(bytes, 1, n), !.status = SubSeq(bytes, n + 1, n + 2)]

\* Mutant: the bytes under the status are not saved.
Cut_NotSaved(t, r, from, n) ==
    LET at == from + n
    IN  [t |-> [t EXCEPT ![at] = More, ![at + 1] = Remaining(r.rlen - n)],
         r |-> [r EXCEPT !.gr = at, !.rlen = @ - n, !.pending = TRUE]]

\* A part of n bytes is cut off the response, which starts at from.
Cut(t, r, from, n) ==
    LET at == from + n
    IN  [t |-> [t EXCEPT ![at] = More, ![at + 1] = Remaining(r.rlen - n)],
         r |-> [r EXCEPT !.gr = at, !.bk = <<t[at], t[at + 1]>>, !.rlen = @ - n, !.pending = TRUE]]

\* apdu_next: the whole response, or its first part.
Next_(t, r, i, ne) ==
    IF r.rlen <= ne
      THEN [t |-> t, r |-> [r EXCEPT !.pending = FALSE], size |-> r.rlen + 2]
      ELSE LET c == Cut(t, r, Base(i), ne) IN [t |-> c.t, r |-> c.r, size |-> ne + 2]

\* apdu_limit_response, which only CCID calls.
Limited(p, i) ==
    IF i = "hid" \/ p.size <= CcidMax \/ p.r.rlen <= CcidMax - 2
      THEN p
      ELSE LET c == Cut(p.t, p.r, Base(i), CcidMax - 2) IN [t |-> c.t, r |-> c.r, size |-> CcidMax]

\* driver_init_hid clears the first frame of the buffer before the message is looked at.
Fresh(i) == [c \in Cells(i) |-> IF i = "hid" /\ c < HidFrame THEN Zero ELSE tx[i][c]]

\* apdu_finish, apdu_next and the driver: the applet answers n bytes of r.
Answer(i, h, ne, r, n, sw) ==
    LET all == Payload(r, n) \o StatusBytes(sw)
        fresh == Fresh(i)
        t0 == [c \in Cells(i) |-> IF c - Base(i) \in 0 .. n + 1 THEN all[c - Base(i) + 1] ELSE fresh[c]]
        r0 == [itf |-> i, gr |-> Base(i), bk |-> NoBytes, rlen |-> n, pending |-> FALSE]
        p == Limited(Next_(t0, r0, i, ne), i)
    IN  /\ tx' = [tx EXCEPT ![i] = Framed(i, p.t, Base(i))]
        /\ resp' = p.r
        /\ host' = [host EXCEPT ![i] =
                      Received([h EXCEPT !.name = r, !.len = n, !.got = <<>>], Sent(p.t, Base(i), p.size))]

-----------------------------------------------------------------------------
\* process_apdu

HeadersMatch(h) == is_chaining => h = chain_header

\* Mutant: the last byte of the buffer is used, as the check of the final
\* command does not expect.
FitsChain_Full(d) == Len(chain_buf) + Len(d) <= ChainSize

FitsChain(d) == Len(chain_buf) + Len(d) < ChainSize

DropChain == is_chaining' = FALSE /\ chain_buf' = <<>> /\ UNCHANGED chain_header

\* What the host has sent so far of the command it is sending.
HostData(i, h, d) == IF host[i].hdr = h THEN host[i].sent \o d ELSE d

ChainKept(i, h, d) == [host[i] EXCEPT !.hdr = h, !.sent = HostData(i, h, d)]
ChainOver(i) == [host[i] EXCEPT !.hdr = NoHeader, !.sent = <<>>]

\* A segment that is not the last one.
Segment(i, h, d) ==
    /\ HeadersMatch(h)
    /\ FitsChain(d)
    /\ chain_header' = IF is_chaining THEN chain_header ELSE h
    /\ chain_buf' = chain_buf \o d
    /\ is_chaining' = TRUE
    /\ Answer(i, ChainKept(i, h, d), 0, "none", 0, "ok")
    /\ UNCHANGED executed

\* 6883 or 6700: the chain is dropped. The command, or last segment, is refused too.
Refused(i, h, d, last) ==
    /\ last => is_chaining /\ h # Select
    /\ ~(HeadersMatch(h) /\ FitsChain(d))
    /\ DropChain
    /\ Answer(i, ChainOver(i), 0, "none", 0, "error")
    /\ UNCHANGED executed

\* Mutant: SELECT in the middle of a chain is given the chain's data.
Collected_Select(h, d) == IF is_chaining THEN chain_buf \o d ELSE d

\* SELECT is never the last segment of a chain.
Collected(h, d) == IF is_chaining /\ h # Select THEN chain_buf \o d ELSE d

\* A command, or the last segment of one: the applet runs.
Command(i, h, d, ne, r, n) ==
    /\ is_chaining /\ h # Select => HeadersMatch(h) /\ FitsChain(d)
    /\ DropChain
    /\ executed' = [given |-> Collected(h, d), meant |-> IF h = Select THEN d ELSE HostData(i, h, d)]
    /\ \/ Answer(i, ChainOver(i), ne, r, n, "ok")
       \/ n = 0 /\ Answer(i, ChainOver(i), ne, r, 0, "error")

\* apdu_process returns 0 for lengths that do not add up: nothing is answered.
Malformed(i) ==
    /\ tx' = [tx EXCEPT ![i] = Fresh(i)]
    /\ UNCHANGED <<is_chaining, chain_header, chain_buf, resp, host, executed>>

-----------------------------------------------------------------------------
\* GET RESPONSE in apdu_process, on the interface whose response is pending. (On
\* another one the offset is the difference of pointers into two buffers.)

\* The drivers are given an offset into the response; the HID driver counts it
\* from the buffer, where its header starts, the CCID driver from its header.
ContStart(i) ==
    LET offset == resp.gr - Base(i) IN IF i = "hid" THEN offset ELSE offset + CcidHeader

Restored(t) == [t EXCEPT ![resp.gr] = resp.bk[1], ![resp.gr + 1] = resp.bk[2]]

\* The driver, for a part that is not the first: it may cut the size down.
Continue(i, t, size) ==
    LET start == ContStart(i)
        part == IF i = "hid" \/ size <= CcidMax THEN size ELSE CcidMax
    IN  /\ tx' = [tx EXCEPT ![i] = Framed(i, t, start)]
        /\ host' = [host EXCEPT ![i] = Received(@, Sent(t, start, part))]

LastPart(i, ne) ==
    /\ resp.pending /\ resp.itf = i
    /\ resp.rlen <= ne
    /\ Continue(i, Restored(Fresh(i)), resp.rlen + 2)
    /\ resp' = [resp EXCEPT !.rlen = 0, !.gr = Base(i), !.bk = NoBytes, !.pending = FALSE]
    /\ UNCHANGED <<is_chaining, chain_header, chain_buf, executed>>

NextPart(i, ne) ==
    /\ resp.pending /\ resp.itf = i
    /\ resp.rlen > ne
    /\ LET c == Cut(Restored(Fresh(i)), resp, resp.gr, ne)
       IN  Continue(i, c.t, ne + 2) /\ resp' = c.r
    /\ UNCHANGED <<is_chaining, chain_header, chain_buf, executed>>

-----------------------------------------------------------------------------
Next ==
    \E i \in Itfs :
        \/ \E h \in Headers \cup {Select}, d \in Segments :
              \/ Segment(i, h, d)
              \/ \E last \in BOOLEAN : Refused(i, h, d, last)
              \/ \E ne \in Lengths, r \in Payloads, n \in 0 .. MaxResponse : Command(i, h, d, ne, r, n)
        \/ Malformed(i)
        \/ /\ MorePending(host[i])
           /\ \E ne \in Lengths : LastPart(i, ne) \/ NextPart(i, ne)

Spec == Init /\ [][Next]_vars

-----------------------------------------------------------------------------
\* Properties.

Byte == ({"zero", "header", "stray", "61", "rest", "ok", "error", "none"} \cup Payloads) \X (0 .. MaxResponse + StatusRange + 2)

\* The variables keep their types; the chain never fills chain_buf, and what is
\* left of a response ends inside its buffer.
TypeOK ==
    /\ is_chaining \in BOOLEAN
    /\ chain_header \in Headers \cup {Select, NoHeader}
    /\ Len(chain_buf) < ChainSize
    /\ \A i \in Itfs : tx[i] \in [Cells(i) -> Byte]
    /\ resp.pending => resp.gr + resp.rlen + 1 \in Cells(resp.itf)

\* The parts a host has received add up to a prefix of the response the applet
\* gave to its command, and to all of it once the status is not 61xx any more:
\* no byte is lost, doubled or overwritten by a status cut into the buffer.
ResponseIntact ==
    \A i \in Itfs :
        LET h == host[i] IN
        /\ IsPrefix(h.got, Payload(h.name, h.len))
        /\ h.status # <<>> /\ ~MorePending(h) =>
              /\ h.got = Payload(h.name, h.len)
              /\ h.status \in {StatusBytes("ok"), StatusBytes("error")}

\* 61xx tells how many bytes are left, 0 for more than a byte can say.
RemainingIsTold ==
    \A i \in Itfs :
        LET h == host[i] IN
        MorePending(h) =>
            LET left == h.len - Len(h.got) IN h.status[2][2] = (IF left < StatusRange THEN left ELSE 0)

\* The applet is given exactly the segments its host sent for this command: none
\* of a chain that was refused, given up or sent by somebody else.
CommandWhole == executed.given = executed.meant

=============================================================================
