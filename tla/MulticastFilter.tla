--------------------------- MODULE MulticastFilter ---------------------------
(***************************************************************************)
(* What the tc egress chain of the Linux multicast backend does with a     *)
(* packet (internal/multicast/linux_backend.go).  rules are the dynamic    *)
(* rules by stream, static the rows of the static access lists.            *)
(***************************************************************************)
EXTENDS MulticastPolicy

\* effectiveExcludedSources: an exclusion gives way to an include rule on the same GEM,
\* whatever the ANI VLANs of the two rules are.
Excludes(rules, k, s) ==
  /\ k \in DOMAIN rules /\ s \in rules[k].excluded
  /\ LET specific == Key(s, k.group)
     IN specific \in DOMAIN rules => rules[specific].path.gem # rules[k].path.gem

\* downstreamVariants and the vlan_id of the filter: which packets a rule's ANI VLAN lets
\* through.  tag is the packet's outer VLAN, NoTag without one.
Carries(vlan, tag) ==
  CASE vlan = 0       -> tag = NoTag
    [] vlan = AnyTag  -> tag # NoTag
    [] vlan = AnyVLAN -> TRUE
    [] OTHER          -> tag = vlan

\* rebuildLocked: the filters of a GEM's chain that match a packet, with their preference.
\* Dynamic rules come before static ones, specific sources before the wildcard, the drops
\* of the excluded sources before the rule they belong to; the chain ends in a drop.
Filters(rules, static, s, g, gem, tag) ==
  LET On(k) == k \in DOMAIN rules /\ rules[k].path.gem = gem /\ Carries(rules[k].path.vlan, tag)
      wild == Key(Wild, g)
  IN  {<<1, "pass">> : x \in {k \in {Key(s, g)} : On(k)}}
 \cup {<<2, "drop">> : x \in {k \in {wild} : On(k) /\ Excludes(rules, k, s)}}
 \cup {<<3, "pass">> : x \in {k \in {wild} : On(k)}}
 \cup {<<4, "pass">> : x \in {r \in static : /\ r.gem = gem /\ Carries(r.vlan, tag)
                                              /\ AclMatches(r, Key(s, g))}}
 \cup {<<5, "drop">>}

Verdict(rules, static, s, g, gem, tag) ==
  LET hits == Filters(rules, static, s, g, gem, tag)
  IN (CHOOSE h \in hits : \A x \in hits : h[1] <= x[1])[2]
=============================================================================
