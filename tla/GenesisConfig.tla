--------------------------- MODULE GenesisConfig ---------------------------
(***************************************************************************)
(* A custom network's genesis, from the mavkit configuration file to what  *)
(* the node starts from (octez_config.rs and environment.rs).              *)
(*                                                                         *)
(* MavrykEnvironmentConfiguration::try_from_json deserializes the file     *)
(* into MavkitConfig and take_network turns its network into the           *)
(* configuration: the genesis block, time and protocol strings carried     *)
(* over by From<MavkitGenesisChain>, and the genesis parameters turned     *)
(* into a PatchContext whose json is serde_json::to_string of a            *)
(* HashMap<String, String>.  The configuration's genesis_header,           *)
(* main_chain_id and genesis_additional_data then decode those strings.    *)
(*                                                                         *)
(* The harness loads one file up to MaxLoads times, as a node does at      *)
(* each start.  Base58check strings and RFC 3339 times are abstracted to   *)
(* small tables of what the decoders make of them; a HashMap serializes    *)
(* its entries in its iteration order, which std's RandomState makes       *)
(* differ from one map to the next, so every order is a possible json.     *)
(* Bootstrap peers are NetworkSelection's; protocol overrides are carried  *)
(* over unchanged and no property reads them.                              *)
(***************************************************************************)
EXTENDS Naturals, Sequences, SequencesExt

CONSTANTS
    MaxLoads,   \* loads of the same file
    None        \* Option::None

ASSUME MaxLoads \in Nat \ {0}

VARIABLES
    file,       \* the mavkit configuration file, as JSON fields present
    configs     \* the result of try_from_json at each load

vars == <<file, configs>>

Ok(v) == [f \in {"ok", "val"} |-> IF f = "ok" THEN TRUE ELSE v]
Err(e) == [f \in {"err", "ok"} |-> IF f = "ok" THEN FALSE ELSE e]

(* Base58check strings by what from_base58_check makes of them: the hash   *)
(* type the prefix names and the decoded bytes.  "BLockTypo" has a bad     *)
(* checksum.                                                                *)
B58 == ("BLockGenesis" :> [type |-> "BlockHash", bytes |-> "genesis"])
    @@ ("PtYuensgYB" :> [type |-> "ProtocolHash", bytes |-> "yuens"])
    @@ ("PrihK96nBA" :> [type |-> "ProtocolHash", bytes |-> "zero"])
    @@ ("LLoZS2LW3r" :> [type |-> "OperationListListHash", bytes |-> "empty"])

from_base58_check(type, s) ==
    IF s \in DOMAIN B58 /\ B58[s].type = type
    THEN Ok(B58[s].bytes) ELSE Err([kind |-> "FromBase58CheckError"])

PROTOCOL_HASH_ZERO_BASE58_CHECK == "PrihK96nBA"

get_empty_operation_list_list_hash ==
    from_base58_check("OperationListListHash", "LLoZS2LW3r")

(* chain_id_from_block_hash: the chain id is a digest of the block hash;   *)
(* distinct hashes give distinct ids.                                      *)
chain_id_from_block_hash(h) == Ok([chain_of |-> h])

(* OffsetDateTime::parse with Rfc3339, then unix_timestamp.  The third     *)
(* time has no 'T' and no offset and does not parse.                       *)
Rfc3339 == ("2018-06-30T16:07:32Z" :> 1530374852)
        @@ ("2021-03-04T20:02:00+01:00" :> 1614884520)

parse_from_rfc3339(time) ==
    IF time \in DOMAIN Rfc3339 THEN Ok(Rfc3339[time])
    ELSE Err([kind |-> "InvalidTime", time |-> time])

-----------------------------------------------------------------------------
(* octez_config.rs: MavkitConfig and the conversions of take_network.      *)

GenesisChainTimeBlockSwapped(mavkit) ==
    [time |-> mavkit.block, block |-> mavkit.timestamp, protocol |-> mavkit.protocol]

(* From<MavkitGenesisChain> for GenesisChain.                              *)
GenesisChainOf(mavkit) ==
    [time |-> mavkit.timestamp, block |-> mavkit.block, protocol |-> mavkit.protocol]

mavkit_default_context_key == "sandbox_parameter"

(* serde's view of MavkitGenesisParameters: a missing context_key is       *)
(* mavkit_default_context_key, missing values an empty map.  A map is the  *)
(* set of its keys; each key has one value.                                *)
MavkitGenesisParameters(gp) ==
    [context_key |-> IF "context_key" \in DOMAIN gp THEN gp.context_key
                     ELSE mavkit_default_context_key,
     values |-> IF "values" \in DOMAIN gp THEN gp.values ELSE {}]

(* TryFrom<MavkitGenesisParameters> for PatchContext: the json is the map's *)
(* entries in its iteration order, any order of them.  Serializing a map of *)
(* strings cannot fail, so the map_err never fires.                        *)
PatchContexts(gp) ==
    {[key |-> gp.context_key, json |-> j] : j \in SetToSeqs(gp.values)}

(* serde_json::from_str fails on a missing required field.                 *)
RequiredFields == {"chain_name", "genesis", "sandboxed_chain_name"}

(* try_from_json: from_str, then take_network's TryFrom; every result one  *)
(* load of the file can give.                                              *)
try_from_json(f) ==
    IF ~(RequiredFields \subseteq DOMAIN f.network)
    THEN {Err([kind |-> "ParseError"])}
    ELSE {Ok([genesis |-> GenesisChainOf(f.network.genesis),
              version |-> f.network.chain_name,
              enable_testchain |-> FALSE,
              patch_context_genesis_parameters |-> p]) :
            p \in IF "genesis_parameters" \in DOMAIN f.network
                  THEN PatchContexts(MavkitGenesisParameters(f.network.genesis_parameters))
                  ELSE {None}}

-----------------------------------------------------------------------------
(* environment.rs: resolving the configuration's genesis.                  *)

(* genesis_header_hash: the block string, or InvalidBlockHash naming it.   *)
genesis_header_hash(c) ==
    IF from_base58_check("BlockHash", c.genesis.block).ok
    THEN from_base58_check("BlockHash", c.genesis.block)
    ELSE Err([kind |-> "InvalidBlockHash", hash |-> c.genesis.block])

main_chain_id(c) ==
    IF genesis_header_hash(c).ok
    THEN chain_id_from_block_hash(genesis_header_hash(c).val)
    ELSE genesis_header_hash(c)

genesis_protocol(c) ==
    IF from_base58_check("ProtocolHash", c.genesis.protocol).ok
    THEN from_base58_check("ProtocolHash", c.genesis.protocol)
    ELSE Err([kind |-> "InvalidProtocolHash", hash |-> c.genesis.protocol])

genesis_time(c) == parse_from_rfc3339(c.genesis.time)

(* genesis_header: the hash is resolved first, so a file with a bad block  *)
(* and a bad time reports the block; the genesis is its own predecessor.   *)
genesis_header(c, context_hash, operation_list_list_hash) ==
    CASE ~genesis_header_hash(c).ok -> genesis_header_hash(c)
      [] ~genesis_time(c).ok -> genesis_time(c)
      [] OTHER -> Ok([level |-> 0, proto |-> 0,
                      predecessor |-> genesis_header_hash(c).val,
                      timestamp |-> genesis_time(c).val,
                      validation_pass |-> 0,
                      operations_hash |-> operation_list_list_hash,
                      fitness |-> <<>>, context |-> context_hash,
                      protocol_data |-> <<>>])

(* genesis_additional_data: the zero protocol hash, then the genesis       *)
(* protocol as the next one.                                               *)
genesis_additional_data(c) ==
    LET zero == from_base58_check("ProtocolHash", PROTOCOL_HASH_ZERO_BASE58_CHECK)
    IN CASE ~zero.ok -> Err([kind |-> "InvalidProtocolHash", hash |-> c.genesis.protocol])
         [] ~genesis_protocol(c).ok -> genesis_protocol(c)
         [] OTHER -> Ok([max_operations_ttl |-> 0, last_allowed_fork_level |-> 0,
                         protocol_hash |-> zero.val,
                         next_protocol_hash |-> genesis_protocol(c).val])

-----------------------------------------------------------------------------
(* The files a user may write: with or without sandboxed_chain_name; a     *)
(* genesis whose strings are right, swapped or mistyped; and no genesis    *)
(* parameters, an empty object, or values of one or two keys with the      *)
(* default or an own context key.                                          *)
GenesisParameterObjects ==
    {[values |-> {"genesis_pubkey"}],
     [values |-> {"genesis_pubkey", "bootstrap_accounts"}],
     [context_key |-> "patch", values |-> {"genesis_pubkey", "bootstrap_accounts"}]}

Networks ==
    [chain_name : {"SANDBOXED_MAVRYK"},
     genesis : [timestamp : DOMAIN Rfc3339 \cup {"2018-06-30 16:07:32"},
                block : {"BLockGenesis", "PtYuensgYB", "BLockTypo"},
                protocol : {"PtYuensgYB", "BLockGenesis"}]]

MavkitFiles ==
    LET WithSandbox(n) == {n, n @@ [sandboxed_chain_name |-> "SANDBOXED"]}
        WithParams(n) == {n} \cup {n @@ [genesis_parameters |-> gp] :
                                     gp \in GenesisParameterObjects \cup {[x \in {} |-> {}]}}
    IN {[network |-> m] : m \in UNION {UNION {WithParams(s) : s \in WithSandbox(n)} : n \in Networks}}

(* The context hash and operation list hash the genesis is built with.     *)
GenesisContext == "genesis_context"

Init ==
    /\ file \in MavkitFiles
    /\ configs = <<>>

(* A node starts and loads the file: try_from_config_file.                 *)
Load ==
    /\ Len(configs) < MaxLoads
    /\ \E r \in try_from_json(file) : configs' = Append(configs, r)
    /\ UNCHANGED file

Next == Load

Spec == Init /\ [][Next]_vars

-----------------------------------------------------------------------------
(* The genesis a loaded configuration resolves to is the file's: its       *)
(* header is built exactly when the file's block is a block hash and its   *)
(* timestamp RFC 3339, with the file's block as predecessor and the file's *)
(* timestamp, and otherwise fails naming the offending string, the block   *)
(* first; main_chain_id is the chain of that block; and the next protocol  *)
(* of genesis_additional_data is the file's protocol (From for             *)
(* GenesisChain, genesis_header, main_chain_id, genesis_additional_data).  *)
GenesisFollowsFile ==
    \A i \in 1..Len(configs) : configs[i].ok =>
        LET c == configs[i].val
            g == file.network.genesis
            blockOk == from_base58_check("BlockHash", g.block).ok
            hdr == genesis_header(c, GenesisContext, get_empty_operation_list_list_hash.val)
            add == genesis_additional_data(c)
        IN /\ hdr.ok <=> blockOk /\ g.timestamp \in DOMAIN Rfc3339
           /\ hdr.ok => /\ hdr.val.predecessor = B58[g.block].bytes
                        /\ hdr.val.timestamp = Rfc3339[g.timestamp]
                        /\ main_chain_id(c) = chain_id_from_block_hash(B58[g.block].bytes)
           /\ ~hdr.ok => hdr.err = IF blockOk
                                   THEN [kind |-> "InvalidTime", time |-> g.timestamp]
                                   ELSE [kind |-> "InvalidBlockHash", hash |-> g.block]
           /\ add.ok <=> from_base58_check("ProtocolHash", g.protocol).ok
           /\ add.ok => add.val.next_protocol_hash = B58[g.protocol].bytes

SameFileSameConfig ==
    \A i, j \in 1..Len(configs) : configs[i] = configs[j]
=============================================================================
