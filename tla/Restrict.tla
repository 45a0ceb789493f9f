------------------------------ MODULE Restrict ------------------------------
(***************************************************************************)
(* The access list of ntp_restrict.c and what the daemon does to it:       *)
(* `restrict' lines, `restrict source', the entries that keep the daemon   *)
(* from its own interfaces, the requests of ntpdc, the associations that   *)
(* come and go, and the lookup each packet begins with.                    *)
(*                                                                         *)
(* IPv4 and IPv6 have a list each and the same code: one list is modelled. *)
(* It is the set `list' of its entries; LINK_SORT_SLIST() keeps them in    *)
(* the order SortsBefore, in which a lookup goes through them.  The entry  *)
(* with key DefaultKey is restrict_def4.  Addresses are numbers below      *)
(* Space and masks are contiguous, so that addr & mask drops the remainder.*)
(***************************************************************************)
EXTENDS Integers, FiniteSets

CONSTANTS
    Space,          \* number of addresses, a power of two
    Rules,          \* the `restrict' lines of the configuration
    SourceRules,    \* its `restrict source' lines
    Hosts,          \* the addresses associations are made with
    Locals,         \* the addresses of the interfaces
    Requests,       \* what ntpdc may ask for, as the fields of conf_restrict
    Window,         \* POOL_SOLICIT_WINDOW + 1
    MaxTime         \* bound: seconds

\* the flags that change how a packet of the host is treated, and the others
RES_FLAGS == {"ignore", "dontserve", "donttrust", "version", "nopeer", "noepeer",
              "limited"}
RES_ALLFLAGS == RES_FLAGS \cup {"noquery", "nomodify", "notrap", "lptrap", "kod",
                                "mssntp", "flake", "nomrulist"}
MFLAGS == 0 .. 7

ASSUME RestrictAssumption ==
    /\ Space \in Nat \ {0} /\ Window \in Nat \ {0} /\ MaxTime \in Nat
    /\ Hosts \subseteq 0 .. Space - 1 /\ Locals \subseteq 0 .. Space - 1
    /\ \A r \in Rules \cup Requests :
          r.addr \in Nat /\ r.mask \in 0 .. Space - 1 /\ r.rflags \subseteq RES_ALLFLAGS
    /\ \A r \in Rules \cup SourceRules : r.mflags \in MFLAGS
    /\ \A s \in SourceRules : s.rflags \subseteq RES_ALLFLAGS
    /\ \A q \in Requests :
          q.ippeerlimit \in MFLAGS /\ q.op \in {"flags", "unflag", "remove"}

VARIABLES
    tbl,        \* the list, res_limited_refcnt and mon_enabled
    source,     \* restrict_source_enabled, _mflags, _rflags
    peers,      \* the addresses associations exist with
    ifaces,     \* the interfaces that are open
    now         \* current_time

vars == <<tbl, source, peers, ifaces, now>>

INTERFACE == 1      \* RESM_INTERFACE, RESM_NTPONLY, RESM_SOURCE: one bit each,
NTPONLY   == 2      \* in this order
SOURCE    == 4
NtpOnly(mflags)   == (mflags \div NTPONLY) % 2 = 1
Interface(mflags) == mflags % 2 = 1

NTP_PORT == 123
OtherPort == 1024   \* stands for every other port
HostMask == Space - 1
Masked(a, mask) == a - (a % (Space - mask))

\* Masks are contiguous: what a longer one leaves out divides what a shorter one
\* leaves out.
ASSUME ContiguousMasks ==
    \A m, n \in {0, HostMask} \cup {r.mask : r \in Rules \cup Requests} :
        m <= n => (Space - m) % (Space - n) = 0

Key(a, mask, mflags) == [addr |-> Masked(a, mask), mask |-> mask, mflags |-> mflags]
KeyOf(e) == [addr |-> e.addr, mask |-> e.mask, mflags |-> e.mflags]
DefaultKey == Key(0, 0, 0)
Default == [addr |-> 0, mask |-> 0, mflags |-> 0, rflags |-> {}, expire |-> 0]

Limited(e) == "limited" \in e.rflags
LimitedEntries(es) == {e \in es : Limited(e)}

(***************************************************************************)
(* The helpers, each from one value of tbl to the next.                    *)
(***************************************************************************)
inc_res_limited(t) ==
    [t EXCEPT !.refcnt = @ + 1,
              !.mon = IF t.refcnt = 0 THEN @ \cup {"MON_RES"} ELSE @]

\* Mutant: the count is looked at before it goes down.
dec_res_limited_early(t) ==
    [t EXCEPT !.refcnt = @ - 1,
              !.mon = IF t.refcnt = 0 THEN @ \ {"MON_RES"} ELSE @]

dec_res_limited(t) ==
    [t EXCEPT !.refcnt = @ - 1,
              !.mon = IF t.refcnt = 1 THEN @ \ {"MON_RES"} ELSE @]

\* Mutant: every entry that goes is taken for one that limited rates.
free_res_counting(t, e) == [dec_res_limited(t) EXCEPT !.list = @ \ {e}]

free_res(t, e) ==
    [(IF Limited(e) THEN dec_res_limited(t) ELSE t) EXCEPT !.list = @ \ {e}]

\* Mutants: the shorter mask first; what never expires has expired.
SortsByAddress(r1, r2) ==
    \/ r1.addr > r2.addr
    \/ r1.addr = r2.addr /\ r1.mask < r2.mask
    \/ r1.addr = r2.addr /\ r1.mask = r2.mask /\ r1.mflags > r2.mflags
ExpiredAlways(e) == e.expire <= now

SortsBefore(r1, r2) ==
    \/ r1.addr > r2.addr
    \/ r1.addr = r2.addr /\ r1.mask > r2.mask
    \/ r1.addr = r2.addr /\ r1.mask = r2.mask /\ r1.mflags > r2.mflags

Expired(e) == e.expire # 0 /\ e.expire <= now

Matches(e, a, port) ==
    /\ e.addr = Masked(a, e.mask)
    /\ NtpOnly(e.mflags) => port = NTP_PORT

\* Where match_restrict4_addr() leaves the list.  An expired entry is freed,
\* its contents are cleared and then compared with the address: address 0
\* under mask 0 matches every packet.
StopsAt(es, a, port) ==
    CHOOSE e \in es :
        /\ Expired(e) \/ Matches(e, a, port)
        /\ \A f \in es \ {e} :
              Expired(f) \/ Matches(f, a, port) => SortsBefore(e, f)

match_restrict(t, a, port) ==
    LET e == StopsAt(t.list, a, port)
    IN  IF Expired(e)
        THEN [table |-> free_res(t, e), found |-> Default]
        ELSE [table |-> t, found |-> e]

\* hack_restrict() with RESTRICT_FLAGS, RESTRICT_UNFLAG, RESTRICT_REMOVE(IF)
Present(t, key) == \E e \in t.list : KeyOf(e) = key
Entry(t, key) == CHOOSE e \in t.list : KeyOf(e) = key

NewEntry(key, rflags, expire) ==
    [addr |-> key.addr, mask |-> key.mask, mflags |-> key.mflags,
     rflags |-> rflags, expire |-> expire]

AddEntry(t, e) ==
    [(IF Limited(e) THEN inc_res_limited(t) ELSE t) EXCEPT !.list = @ \cup {e}]

\* An entry that is there keeps its time to expire.
ReplaceEntry(t, old, new) ==
    LET t1 == [t EXCEPT !.list = (@ \ {old}) \cup {new}]
    IN  CASE Limited(new) /\ ~Limited(old) -> inc_res_limited(t1)
          [] Limited(old) /\ ~Limited(new) -> dec_res_limited(t1)
          [] OTHER -> t1

AddFlags(t, key, rflags, expire) ==
    IF Present(t, key)
    THEN LET e == Entry(t, key) IN ReplaceEntry(t, e, [e EXCEPT !.rflags = @ \cup rflags])
    ELSE AddEntry(t, NewEntry(key, rflags, expire))

SubFlags(t, key, rflags) ==
    IF Present(t, key)
    THEN LET e == Entry(t, key) IN ReplaceEntry(t, e, [e EXCEPT !.rflags = @ \ rflags])
    ELSE t

Remove(t, key, removeif) ==
    IF Present(t, key) /\ key # DefaultKey /\ (removeif \/ ~Interface(key.mflags))
    THEN free_res(t, Entry(t, key))
    ELSE t

\* restrict_source(), an address that is a host's, to add and to remove.
source_add(t, a, expire) ==
    LET m == match_restrict(t, a, NTP_PORT)
        specific == m.found.mask = HostMask
        fleeting == expire = 0 /\ specific /\ m.found.expire # 0
        t1 == IF fleeting THEN free_res(m.table, m.found) ELSE m.table
    IN  IF ~source.enabled THEN t
        ELSE IF specific /\ ~fleeting THEN t1
        ELSE AddFlags(t1, Key(a, HostMask, source.mflags), source.rflags, expire)

source_remove(t, a) ==
    IF source.enabled THEN Remove(t, Key(a, HostMask, 0), FALSE) ELSE t

-----------------------------------------------------------------------------
\* init_restrict(), init_mon() and mon_start(MON_ON), as ntpdmain() calls them
EmptyTable == [list |-> {Default}, refcnt |-> 0, mon |-> {"MON_ON"}]
NoSource == [enabled |-> FALSE, mflags |-> 0, rflags |-> {}]

Init ==
    /\ tbl = EmptyTable
    /\ source = NoSource
    /\ peers = {} /\ ifaces = {}
    /\ now = 0

\* A `restrict' line, at the start or by `ntpq :config'.
Configure(r) ==
    /\ tbl' = AddFlags(tbl, Key(r.addr, r.mask, r.mflags), r.rflags, 0)
    /\ UNCHANGED <<source, peers, ifaces, now>>

\* `restrict source': the flags are kept for the associations to come.
ConfigureSource(s) ==
    /\ source' = [enabled |-> TRUE, mflags |-> s.mflags, rflags |-> s.rflags]
    /\ UNCHANGED <<tbl, peers, ifaces, now>>

\* `enable monitor' and `disable monitor'
ConfigureMonitor(on) ==
    /\ tbl' = [tbl EXCEPT !.mon = IF on THEN @ \cup {"MON_ON"} ELSE @ \ {"MON_ON"}]
    /\ UNCHANGED <<source, peers, ifaces, now>>

\* do_restrict(): the request's match flags are handed on as the limit of
\* associations, and that limit as the match flags.
Request(q) ==
    /\ LET key == Key(q.addr, q.mask, q.ippeerlimit) IN
       tbl' = CASE q.op = "flags"  -> AddFlags(tbl, key, q.rflags, 0)
                [] q.op = "unflag" -> SubFlags(tbl, key, q.rflags)
                [] q.op = "remove" -> Remove(tbl, key, FALSE)
    /\ UNCHANGED <<source, peers, ifaces, now>>

InterfaceUp(a) ==
    /\ a \notin ifaces
    /\ ifaces' = ifaces \cup {a}
    /\ tbl' = AddFlags(tbl, Key(a, HostMask, NTPONLY + INTERFACE), {"ignore"}, 0)
    /\ UNCHANGED <<source, peers, now>>

InterfaceDown(a) ==
    /\ a \in ifaces
    /\ ifaces' = ifaces \ {a}
    /\ tbl' = Remove(tbl, Key(a, HostMask, NTPONLY + INTERFACE), TRUE)
    /\ UNCHANGED <<source, peers, now>>

\* restrictions(), which every packet that is received begins with
Receive(a, port) ==
    /\ tbl' = match_restrict(tbl, a, port).table
    /\ UNCHANGED <<source, peers, ifaces, now>>

\* pool_xmit(): a host of the pool is asked; if it is restricted it gets an
\* entry of its own for the time its answer may take.
Solicit(a) ==
    /\ a \notin peers
    /\ LET m == match_restrict(tbl, a, NTP_PORT) IN
       tbl' = IF m.found.rflags \cap RES_FLAGS = {} THEN m.table
              ELSE source_add(m.table, a, now + Window)
    /\ UNCHANGED <<source, peers, ifaces, now>>

NewPeer(a) ==
    /\ a \notin peers
    /\ peers' = peers \cup {a}
    /\ tbl' = source_add(tbl, a, 0)
    /\ UNCHANGED <<source, ifaces, now>>

Unpeer(a) ==
    /\ a \in peers
    /\ peers' = peers \ {a}
    /\ tbl' = source_remove(tbl, a)
    /\ UNCHANGED <<source, ifaces, now>>

Second ==
    /\ now < MaxTime
    /\ now' = now + 1
    /\ UNCHANGED <<tbl, source, peers, ifaces>>

\* rtems_ntpd_cleanup() and the initialisation of the next run: the entries
\* go to the free list, the counts are cleared, monitoring is stopped.
Restart ==
    /\ tbl' = EmptyTable
    /\ source' = NoSource
    /\ peers' = {} /\ ifaces' = {}
    /\ now' = 0

Next ==
    \/ \E r \in Rules : Configure(r)
    \/ \E s \in SourceRules : ConfigureSource(s)
    \/ \E on \in BOOLEAN : ConfigureMonitor(on)
    \/ \E q \in Requests : Request(q)
    \/ \E a \in Locals : InterfaceUp(a) \/ InterfaceDown(a)
    \/ \E a \in Hosts : Solicit(a) \/ NewPeer(a) \/ Unpeer(a)
    \/ \E a \in Hosts \cup Locals, port \in {NTP_PORT, OtherPort} : Receive(a, port)
    \/ Second
    \/ Restart

Spec == Init /\ [][Next]_vars

-----------------------------------------------------------------------------
EntryType == [addr : Int, mask : 0 .. Space - 1, mflags : MFLAGS,
              rflags : SUBSET RES_ALLFLAGS, expire : Nat]

TypeOK ==
    /\ tbl \in [list : SUBSET EntryType, refcnt : Nat, mon : SUBSET {"MON_ON", "MON_RES"}]
    /\ source \in [enabled : BOOLEAN, mflags : MFLAGS, rflags : SUBSET RES_ALLFLAGS]
    /\ peers \subseteq Hosts /\ ifaces \subseteq Locals
    /\ now \in 0 .. MaxTime

\* What a lookup relies on (INSIST(match != NULL), ntp_restrict.c:575): the
\* default entry is listed whatever is asked for, it never expires, and two
\* entries never share address, mask and match flags, so that the order of the
\* list decides between any two.
ListIsWhole ==
    /\ \E e \in tbl.list : KeyOf(e) = DefaultKey /\ e.expire = 0
    /\ \A e, f \in tbl.list : KeyOf(e) = KeyOf(f) => e = f

\* res_limited_refcnt counts the entries that limit rates, through every way
\* an entry can come, change, expire or go (ntp_restrict.c:365-380).
CountIsLimited == tbl.refcnt = Cardinality(LimitedEntries(tbl.list))

\* The clients are watched for as long as some entry limits their rate, and
\* not on its account when none does, through restarts as well; the count is
\* right, too, which the next entry to come or go relies on.
MonitoringOnDemand ==
    /\ CountIsLimited
    /\ "MON_RES" \in tbl.mon <=> \E e \in tbl.list : Limited(e)

\* While nothing on the list has expired, the first entry that matches is the
\* most specific one: no entry under it in the list has a longer mask, or the
\* same mask and more of the match flags (the comment at ntp_restrict.c:235).
MostSpecificFirst ==
    (\A e \in tbl.list : ~Expired(e)) =>
        \A a \in 0 .. Space - 1, port \in {NTP_PORT, OtherPort} :
            LET e == StopsAt(tbl.list, a, port)
            IN  /\ Matches(e, a, port)
                /\ \A f \in tbl.list :
                      Matches(f, a, port) => \/ f.mask < e.mask
                                             \/ f.mask = e.mask /\ f.mflags <= e.mflags

\* An entry that does not expire and was not made for an association leaves the
\* list when ntpdc asks for it, when its interface or an association with its
\* address goes (see HandsOffSpecific), or with the run: lookups, and
\* associations that come, never take it, whatever expires meanwhile.
ConfiguredStays ==
    [][\A e \in tbl.list :
         e.expire = 0 /\ e.mflags < SOURCE /\ ~Present(tbl', KeyOf(e)) =>
            \/ \E q \in Requests : q.op = "remove" /\ Request(q)
            \/ \E a \in Locals : InterfaceDown(a)
            \/ \E a \in peers : Unpeer(a)
            \/ Restart]_vars

\* "make sure you get the set of restrictions most specific to the address"
\* (ntp_restrict.c:27): the flags of a packet are those of the most specific
\* entry that has not expired.
LookupIsMostSpecific ==
    \A a \in 0 .. Space - 1, port \in {NTP_PORT, OtherPort} :
        \E e \in tbl.list :
            /\ ~Expired(e) /\ Matches(e, a, port)
            /\ \A f \in tbl.list :
                  ~Expired(f) /\ Matches(f, a, port) => f = e \/ SortsBefore(e, f)
            /\ match_restrict(tbl, a, port).found.rflags = e.rflags

\* "If there is a specific entry for this address, hands off"
\* (ntp_restrict.c:807): an association that goes takes no entry with it that
\* was not made for it.
HandsOffSpecific ==
    [][\A a \in peers : Unpeer(a) =>
         \A e \in tbl.list : e.mflags < SOURCE => Present(tbl', KeyOf(e))]_vars

\* restrict_source() "maintains dynamic 'restrict source ...' entries as peers
\* come and go" (ntp_restrict.c:777): one that stays has its association.
SourceEntryHasPeer ==
    \A e \in tbl.list : e.mflags >= SOURCE /\ e.expire = 0 => e.addr \in peers

\* "Blacklist our own addresses, no use talking to ourself" (ntp_io.c:2225)
OwnAddressIgnored ==
    \A a \in ifaces : \E e \in tbl.list :
        KeyOf(e) = Key(a, HostMask, NTPONLY + INTERFACE) /\ "ignore" \in e.rflags

\* An association that comes makes "way for the more persistent entry"
\* (ntp_restrict.c:816): its entry does not expire.
PeerEntryStays ==
    [][\A a \in peers' \ peers :
         source.enabled => \E e \in tbl'.list :
                               e.addr = a /\ e.mask = HostMask /\ e.expire = 0]_vars
=============================================================================
