--------------------------- MODULE NetworkSelection ---------------------------
(***************************************************************************)
(* Choosing the network at start-up (mavryk/api environment.rs): the name  *)
(* given is lower-cased and matched by MavrykEnvironment::from_str against *)
(* each variant's supported_values in declaration order; the variant may   *)
(* carry a deprecation notice recommending other networks; its default     *)
(* configuration (default_networks) lists bootstrap addresses, which are  *)
(* then resolved one after another with parse_bootstrap_addr_port.         *)
(*                                                                         *)
(* A name is a record of its lower-case spelling and the case it was typed *)
(* in; to_ascii_lowercase keeps the spelling.  A bootstrap address keeps   *)
(* what the parser reads, brackets, colons and port digits; every other    *)
(* host character is "a" (see BootstrapAddr).                              *)
(***************************************************************************)
EXTENDS Naturals, Sequences, FiniteSets, TLC

CONSTANTS
    BootstrapDefaultPort,   \* default_port passed to the parser
    NoNetwork,              \* from_str's Err(ParseMavrykEnvironmentError)
    NoConfig,               \* no default configuration for the network
    NoNotice                \* check_deprecated_network() = None

BA == INSTANCE BootstrapAddr WITH addr <- <<>>, MaxLen <- 0,
                                  DefaultPort <- BootstrapDefaultPort

VARIABLES
    name,           \* the network name given, or NoNetwork before any
    selected,       \* from_str(name)
    notice,         \* check_deprecated_network(selected)
    config,         \* default_networks()[selected]: its bootstrap addresses
    pos,            \* addresses of config resolved so far
    peers,          \* (host, port) pairs resolved
    failed          \* some address failed to parse

vars == <<name, selected, notice, config, pos, peers, failed>>

-----------------------------------------------------------------------------
(* MavrykEnvironment, in declaration (EnumIter) order.                     *)
MavrykEnvironment ==
    <<"Custom", "Mainnet", "Sandbox", "Zeronet", "Alphanet", "Babylonnet",
      "Carthagenet", "Delphinet", "Edonet", "Edo2net", "Florencenet",
      "Granadanet", "Hangzhounet", "Ithacanet", "Jakartanet">>

Envs == {MavrykEnvironment[i] : i \in 1..Len(MavrykEnvironment)}

SupportedValuesTable ==
    [e \in Envs |->
        CASE e = "Custom" -> {"custom"} [] e = "Mainnet" -> {"mainnet"}
          [] e = "Sandbox" -> {"sandbox"} [] e = "Zeronet" -> {"zeronet"}
          [] e = "Alphanet" -> {"alphanet"} [] e = "Babylonnet" -> {"babylonnet", "babylon"}
          [] e = "Carthagenet" -> {"carthagenet", "carthage"}
          [] e = "Delphinet" -> {"delphinet", "delphi"}
          [] e = "Edonet" -> {"edonet", "edo"} [] e = "Edo2net" -> {"edo2net", "edo2"}
          [] e = "Florencenet" -> {"florencenet", "florence"}
          [] e = "Granadanet" -> {"granadanet", "granada"}
          [] e = "Hangzhounet" -> {"hangzhounet", "hangzhou"}
          [] e = "Ithacanet" -> {"ithacanet", "ithaca"}
          [] e = "Jakartanet" -> {"jakartanet", "jakarta"}]

(* A fault: a name copied onto the variant above the one it belongs to.    *)
DuplicatedName(e) ==
    SupportedValuesTable[e] \cup (IF e = "Hangzhounet" THEN {"ithaca"} ELSE {})

supported_values(e) == SupportedValuesTable[e]

possible_values == UNION {supported_values(e) : e \in Envs}

to_ascii_lowercase(n) == n.word

(* from_str: the first variant, in declaration order, listing the          *)
(* lower-cased name.                                                       *)
from_str(n) ==
    LET hits == {i \in 1..Len(MavrykEnvironment) :
                    to_ascii_lowercase(n) \in supported_values(MavrykEnvironment[i])}
    IN IF hits = {} THEN NoNetwork
       ELSE MavrykEnvironment[CHOOSE i \in hits : \A j \in hits : i <= j]

(* The notices, by what they say: the deprecated network's names and the  *)
(* names recommended instead.                                              *)
deprecated_testnet_notice(sel, alternates) ==
    [deprecated |-> supported_values(sel),
     recommended |-> UNION {supported_values(a) : a \in alternates}]

(* A fault: deprecated_net_notice called with selected and alternate       *)
(* swapped.                                                                *)
NetNoticeSwapped(sel, alternate) ==
    [deprecated |-> supported_values(alternate), recommended |-> supported_values(sel)]

deprecated_net_notice(sel, alternate) ==
    [deprecated |-> supported_values(sel), recommended |-> supported_values(alternate)]

check_deprecated_network(e) ==
    IF e \in {"Zeronet", "Alphanet", "Babylonnet", "Carthagenet"}
    THEN deprecated_testnet_notice(e, {"Delphinet", "Edo2net"})
    ELSE IF e = "Edonet" THEN deprecated_net_notice("Edonet", "Edo2net")
    ELSE NoNotice

(* default_networks: the bootstrap addresses of each configured network.   *)
(* Edonet's own configuration is commented out in the code; Edonet and     *)
(* Edo2net both get edo2net_cfg.                                           *)
Host == <<"a">>
HostPort(p) == Host \o <<":">> \o p
P29732 == <<"2", "9", "7", "3", "2">>
P9733 == <<"9", "7", "3", "3">>
Edo2netAddrs == <<Host, HostPort(P29732), Host, Host, Host, Host>>

(* The inserts before Delphinet: Mainnet to Carthagenet.                   *)
OlderNetworks ==
    ("Mainnet" :> <<Host, Host, Host>>) @@ ("Zeronet" :> <<Host, Host>>)
    @@ ("Alphanet" :> <<Host, Host>>) @@ ("Babylonnet" :> <<Host, Host, Host>>)
    @@ ("Carthagenet" :> <<Host, Host, Host, Host>>)

(* The inserts after edo2net_cfg: Florencenet to Jakartanet.               *)
NewerNetworks ==
    ("Florencenet" :> <<Host, Host, Host, Host, HostPort(P9733)>>)
    @@ ("Granadanet" :> <<Host, Host, Host>>)
    @@ ("Hangzhounet" :> <<Host, Host, Host, Host, Host>>)
    @@ ("Ithacanet" :> <<Host, Host, Host, Host>>)
    @@ ("Jakartanet" :> <<Host, Host, Host, Host>>)

(* The last insert: Sandbox, with no bootstrap peers.                      *)
SandboxNetwork == "Sandbox" :> <<>>

(* A fault: Edonet's own entry commented out and no redirect inserted.     *)
NetworksWithoutEdonet ==
    OlderNetworks @@ ("Delphinet" :> <<Host, Host, Host, Host>>)
    @@ ("Edo2net" :> Edo2netAddrs) @@ NewerNetworks @@ SandboxNetwork

(* Delphinet, Edonet's own configuration commented out, and the redirect: *)
(* Edonet and Edo2net both get edo2net_cfg.                                *)
default_networks ==
    OlderNetworks @@ ("Delphinet" :> <<Host, Host, Host, Host>>)
    @@ ("Edonet" :> Edo2netAddrs) @@ ("Edo2net" :> Edo2netAddrs)
    @@ NewerNetworks @@ SandboxNetwork

ConfigOf(e) == IF e \in DOMAIN default_networks THEN default_networks[e] ELSE NoConfig

(* The mavkit configuration files a Custom network may be started with: a *)
(* JSON object is a record of the fields present.  default_bootstrap_peers *)
(* may be missing, empty, or list addresses a user typed, one of them      *)
(* without a port number after its ':'.  The genesis, chain name and       *)
(* protocol overrides are carried over unchanged and no property reads     *)
(* them.                                                                   *)
MavkitFiles ==
    {[network |-> [chain_name |-> "SANDBOXED_MAVRYK"]]}
    \cup {[network |-> [chain_name |-> "SANDBOXED_MAVRYK", default_bootstrap_peers |-> p]] :
            p \in {<<>>, <<Host, HostPort(<<"9">>)>>, <<HostPort(<<"9">>), HostPort(<<>>)>>}}

(* try_from_json, then MavkitConfig::take_network: the bootstrap addresses *)
(* of the custom network, serde's default [] when the field is missing.    *)
take_network(f) ==
    IF "default_bootstrap_peers" \in DOMAIN f.network
    THEN f.network.default_bootstrap_peers ELSE <<>>

(* The names a user may give: every possible value, in three cases, and an *)
(* unknown one.                                                            *)
Names == [word : possible_values \cup {"mavryknet"}, case : {"lower", "upper", "title"}]

-----------------------------------------------------------------------------
Init ==
    /\ name = NoNetwork
    /\ selected = NoNetwork
    /\ notice = NoNotice
    /\ config = NoConfig
    /\ pos = 0
    /\ peers = {}
    /\ failed = FALSE

(* The node is started with network name n; Custom reads its configuration *)
(* from a mavkit file.                                                     *)
Select(n) ==
    \E f \in MavkitFiles :
    /\ name' = n
    /\ selected' = from_str(n)
    /\ notice' = IF from_str(n) = NoNetwork THEN NoNotice
                 ELSE check_deprecated_network(from_str(n))
    /\ config' = CASE from_str(n) = NoNetwork -> NoConfig
                    [] from_str(n) = "Custom" -> take_network(f)
                    [] OTHER -> ConfigOf(from_str(n))
    /\ pos' = 0
    /\ peers' = {}
    /\ failed' = FALSE

(* The next bootstrap address is parsed; an error is recorded.             *)
ResolveNext ==
    /\ config # NoConfig
    /\ pos < Len(config)
    /\ LET r == BA!parse_bootstrap_addr_port(config[pos + 1]) IN
       /\ peers' = IF r.ok THEN peers \cup {<<r.host, r.port>>} ELSE peers
       /\ failed' = (failed \/ ~r.ok)
    /\ pos' = pos + 1
    /\ UNCHANGED <<name, selected, notice, config>>

Next == (\E n \in Names : Select(n)) \/ ResolveNext

Spec == Init /\ [][Next]_vars

-----------------------------------------------------------------------------
(* Names are unambiguous: a name given in any case selects the one variant *)
(* listing it, although from_str stops at the first variant that matches. *)
NameSelectsItsNetwork ==
    name # NoNetwork =>
        IF \E e \in Envs : to_ascii_lowercase(name) \in supported_values(e)
        THEN {e \in Envs : to_ascii_lowercase(name) \in supported_values(e)} = {selected}
        ELSE selected = NoNetwork

(* The test test_parse_bootstrap_addr_port_for_all_environment: every      *)
(* network but Custom has a default configuration, and each of its         *)
(* bootstrap addresses parses.  A Custom network's addresses are the       *)
(* user's and may not.                                                     *)
DefaultBootstrapParses ==
    selected \notin {NoNetwork, "Custom"} => config # NoConfig /\ ~failed

(* A deprecation notice only recommends names that select a network which  *)
(* is configured and not itself deprecated, and never the network given.   *)
NoticeRecommendsLiveNetwork ==
    notice # NoNotice =>
        /\ to_ascii_lowercase(name) \in notice.deprecated
        /\ \A r \in notice.recommended :
              LET e == from_str([word |-> r, case |-> "lower"]) IN
              /\ e \notin {NoNetwork, selected}
              /\ check_deprecated_network(e) = NoNotice
              /\ ConfigOf(e) # NoConfig

=============================================================================
