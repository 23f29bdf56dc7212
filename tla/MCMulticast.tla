------------------------------ MODULE MCMulticast ------------------------------
EXTENDS MulticastRuntime, TLC

Row(row, source, gem, preview) ==
  [row |-> row, gem |-> gem, vlan |-> AnyVLAN, source |-> source, start |-> 1, stop |-> 1,
   bandwidth |-> 1, preview |-> preview, repeats |-> 1, resets |-> FALSE]

Base == [function |-> 1, version |-> 3, immediate |-> FALSE, rate |-> 0, robustness |-> 2, forward |-> FALSE,
         acl |-> << Row(1, Wild, 5, 0) >>, static |-> << >>]
Lent == [row |-> 3, group |-> 1, source |-> Wild, uniVLAN |-> 100, aniVLAN |-> 0, duration |-> 2,
         timeLeft |-> 1]
Policy == [profiles |-> (1 :> Base), profile |-> 1, services |-> << >>, allowed |-> << >>,
           limit |-> 0, bandwidth |-> 0, enforce |-> FALSE]

\* A proxy that ages silent clients and withdraws leaving ones at once; source 1 comes on a
\* VLAN of its own.
Proxy == [Policy EXCEPT
  !.profiles = (1 :> [Base EXCEPT !.function = 2, !.immediate = TRUE,
                        !.acl = << [Row(1, 1, 5, 0) EXCEPT !.vlan = 7], Row(2, Wild, 5, 0) >>])]

\* IGMPv2 aggregation with a learned robustness, under a limit of one group and one report a second;
\* wildcard joins are previews.
Limited1 == [Policy EXCEPT !.limit = 1,
  !.profiles = (1 :> [Base EXCEPT !.version = 2, !.rate = 1, !.robustness = 0,
                         !.acl = << Row(1, 1, 5, 0), Row(2, Wild, 6, 1) >>])]

\* Transparent snooping with immediate leave and a static range; joins from any source are
\* unauthorized but forwarded.
Snoop == [Policy EXCEPT !.allowed = << Lent >>,
  !.profiles = (1 :> [Base EXCEPT !.function = 0, !.immediate = TRUE, !.forward = TRUE,
                        !.acl = << Row(1, 1, 5, 0) >>, !.static = << [Row(1, Wild, 5, 0) EXCEPT !.vlan = AnyTag] >>])]

\* IGMPv1 service packages under an enforced bandwidth; an allowed preview lends row 2 for a while,
\* then only the per-row previews are left.
Package == [Policy EXCEPT !.enforce = TRUE, !.bandwidth = 1,
  !.services = << [row |-> 1, vlan |-> 200, limit |-> 0, bandwidth |-> 0, profile |-> 1],
                  [row |-> 2, vlan |-> AnyTag, limit |-> 1, bandwidth |-> 2, profile |-> 2] >>,
  !.allowed = << Lent >>,
  !.profiles = (1 :> Base) @@
               (2 :> [Base EXCEPT !.version = 1, !.immediate = TRUE,
                        !.acl = << [Row(1, 1, 5, 1) EXCEPT !.vlan = 7, !.resets = TRUE], Row(2, Wild, 6, 1) >>])]

\* Rejected by compile(): a service package names a profile that does not exist.
Broken == [Package EXCEPT !.profiles = (1 :> Base)]

mcConfigs == {Proxy, Limited1, Snoop, Package, Broken}
mcClients == {[addr |-> 1, mac |-> 1], [addr |-> 2, mac |-> 2]}

\* Two hosts that report from the unspecified address, under a policy without ageing.
mcTwins == {[addr |-> 0, mac |-> 1], [addr |-> 0, mac |-> 2]}
mcSpr == {[Policy EXCEPT !.profiles = (1 :> [Base EXCEPT !.immediate = TRUE])]}
mcVLAN == [tagged |-> TRUE, id |-> 100]
=============================================================================
