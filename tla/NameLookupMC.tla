---------------------------- MODULE NameLookupMC ----------------------------
(* Two lookups, model values, and intervals of up to three seconds: 2-3-3. *)
(* That the longer intervals, which no lookup of this instance reaches, go *)
(* on as the comment in manage_dns_retry_interval() lists them is          *)
(* evaluated here.                                                         *)
EXTENDS NameLookup

Sequence == <<2, 3, 4, 6, 8, 12, 16, 24, 32, 48, 64, 96, 128, 192, 256, 384,
              512, 768, 1024>>

ASSUME IntervalsAsListed ==
    \A i \in 1 .. Len(Sequence) - 1 : NextInterval(Sequence[i]) = Sequence[i + 1]
=============================================================================
