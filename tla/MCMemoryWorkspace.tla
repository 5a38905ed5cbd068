------------------------- MODULE MCMemoryWorkspace --------------------------
(* The demo workspace and the identifiers of its records, in their order. *)
EXTENDS MemoryWorkspace

IdOrder ==
  <<"001", "002", "003", "004", "005", "091", "092", "11111111", "99999999", "CPR190515BB2", "CRL170822BB2",
    "EDE180101AA1", "ENT-COMPANY-001", "ENT-HIDDEN-SHELL-001", "ENT-HIDDEN-VENDOR-001", "ENT-SHELL-001",
    "ENT-VENDOR-001", "ENT-VENDOR-CONTROL-A", "ENT-VENDOR-CONTROL-B", "ESC240215BB2", "LSF200820CC3",
    "PCR150310AA1", "PMT-HIDDEN-001", "PMT-HIDDEN-DUP-001", "PMT-ROOT-001", "SOV240101AA1",
    "TX-HIDDEN-DUP-001", "TX-HIDDEN-HOP-001", "TX-HIDDEN-ROOT-001", "TX-HOP-001", "TX-LEGIT-001",
    "TX-LEGIT-002", "TX-RET-001", "TX-ROOT-001">>

Rank == [x \in {IdOrder[i] : i \in DOMAIN IdOrder} |-> CHOOSE i \in DOMAIN IdOrder : IdOrder[i] = x]

MCNames == DOMAIN Rank

MCBefore(x, y) == Rank[x] < Rank[y]

MCNorm(x) == x

MCPrefix(x) == x

MCRootIds == {"TX-ROOT-001"}

MCPaymentIds == {"PMT-HIDDEN-001", "PMT-HIDDEN-DUP-001", "PMT-ROOT-001"}

(* The round trip of the demo. *)
MCInvestigated == {<<"DET-ROUND-TRIP-CYCLE", "TX-ROOT-001">>}
=============================================================================
