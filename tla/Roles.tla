------------------------------- MODULE Roles --------------------------------
(***************************************************************************)
(* assign_roles (src/src/domain/role_assignment/assigner.py): who attacked *)
(* whom, from the rule's target field, its attack_target metadata, its     *)
(* category and HOME_NET, in this order.  A pure function of the alert.    *)
(*                                                                         *)
(* A category is the set of the substrings of CATEGORY_RULES it contains;  *)
(* a value of attack_target is "client", "server" or "other", according to *)
(* the table it is found in.  The texts of the reasoning are left out.     *)
(***************************************************************************)
EXTENDS Naturals, Sequences

CONSTANTS NoIp,      \* a missing address field
          Null       \* no attacker, no victim

VARIABLE homeNet     \* SuricataConfig.home_net: the addresses of its networks

\* "HOME_NET" in membership_for_ip(ip); a missing field is in no network.
Internal(ip) == ip # NoIp /\ ip \in homeNet

-----------------------------------------------------------------------------
\* CATEGORY_RULES, in its order; every rule of a known pattern has confidence "medium".
CATEGORY_RULES ==
    << <<"command and control", "outbound_cnc">>,
       <<"trojan", "outbound_cnc">>,
       <<"malware", "outbound_cnc">>,
       <<"web application attack", "inbound_attack">>,
       <<"attempted administrator privilege", "inbound_attack">>,
       <<"attempted user privilege", "inbound_attack">>,
       <<"successful administrator privilege", "inbound_attack">>,
       <<"successful user privilege", "inbound_attack">>,
       <<"exploit kit", "inbound_attack">>,
       <<"shellcode detect", "inbound_attack">>,
       <<"denial of service", "inbound_attack">>,
       <<"network trojan", "inbound_attack">>,
       <<"attack response", "attack_response">>,
       <<"network scan", "scan">>,
       <<"policy violation", "unknown">>,
       <<"potentially bad traffic", "unknown">>,
       <<"misc activity", "unknown">>,
       <<"not suspicious", "unknown">>,
       <<"unknown traffic", "unknown">>,
       <<"decode of an rpc", "unknown">>,
       <<"inappropriate content", "unknown">> >>

Substrings == {CATEGORY_RULES[i][1] : i \in DOMAIN CATEGORY_RULES}

\* The first rule of the table that matches decides.
detect_pattern(category) ==
    LET matches == {i \in DOMAIN CATEGORY_RULES : CATEGORY_RULES[i][1] \in category}
    IN IF matches = {} THEN "unknown"
       ELSE CATEGORY_RULES[CHOOSE i \in matches : \A j \in matches : i <= j][2]

\* The first value found in one of the two tables decides.
classify_attack_target(values) ==
    LET known == {i \in DOMAIN values : values[i] # "other"}
    IN IF known = {} THEN "none"
       ELSE values[CHOOSE i \in known : \A j \in known : i <= j]

-----------------------------------------------------------------------------
Assignment(attacker, victim, confidence) ==
    [attacker |-> attacker, victim |-> victim, confidence |-> confidence]

ambiguous == Assignment(Null, Null, "ambiguous")

Inbound(a) == ~Internal(a.src) /\ Internal(a.dest)
Outbound(a) == Internal(a.src) /\ ~Internal(a.dest)

apply_outbound_cnc(a) ==
    IF Outbound(a) THEN Assignment(a.dest, a.src, "medium")
    ELSE IF Inbound(a) THEN Assignment(a.src, a.dest, "low")
    ELSE ambiguous

apply_inbound_attack(a) ==
    IF Inbound(a) THEN Assignment(a.src, a.dest, "medium")
    ELSE IF Outbound(a) THEN Assignment(a.src, a.dest, "low")
    ELSE ambiguous

apply_attack_response_Flipped(a) ==
    IF Outbound(a) THEN Assignment(a.dest, a.src, "medium")
    ELSE IF Inbound(a) THEN Assignment(a.dest, a.src, "low")
    ELSE ambiguous

apply_attack_response(a) ==
    IF Inbound(a) THEN Assignment(a.src, a.dest, "medium") ELSE ambiguous

\* Signals 3 and 4.
ByCategory(a) ==
    LET pattern == detect_pattern(a.category)
    IN CASE pattern = "outbound_cnc" -> apply_outbound_cnc(a)
         [] pattern = "inbound_attack" -> apply_inbound_attack(a)
         [] pattern = "attack_response" -> apply_attack_response(a)
         [] pattern = "scan" -> Assignment(a.src, a.dest, "medium")
         [] OTHER -> ambiguous

\* Signal 2 with packet direction for the client, as the code's comment warns against.
ByMetadata_PacketDirection(a) ==
    LET hint == classify_attack_target(a.attack_target)
        known == Internal(a.src) \/ Internal(a.dest)
    IN IF known /\ hint = "client" THEN Assignment(a.dest, a.src, "medium")
       ELSE IF known /\ hint = "server" THEN Assignment(a.src, a.dest, "medium")
       ELSE ByCategory(a)

\* Signal 2, and what follows it when it does not decide.
ByMetadata(a) ==
    LET hint == classify_attack_target(a.attack_target)
    IN IF hint = "client" /\ Inbound(a) THEN Assignment(a.src, a.dest, "medium")
       ELSE IF hint = "client" /\ Outbound(a) THEN Assignment(a.dest, a.src, "medium")
       ELSE IF hint = "server" /\ (Internal(a.src) \/ Internal(a.dest))
            THEN Assignment(a.src, a.dest, "medium")
       ELSE ByCategory(a)

\* Signal 1: the rule author's own declaration.
assign_roles(a) ==
    CASE a.target = "src_ip" -> Assignment(a.dest, a.src, "high")
      [] a.target = "dest_ip" -> Assignment(a.src, a.dest, "high")
      [] OTHER -> ByMetadata(a)
=============================================================================
