------------------------------ MODULE ZcashParams ------------------------------
(***************************************************************************)
(* ZcashParams::assert_zcash_params (mavryk/api environment.rs), run at   *)
(* every start of the node: the sapling parameter files must sit, both of *)
(* them, in one of the candidate directories the OCaml rustzcash library  *)
(* searches.  If none holds both, the configured init files are copied    *)
(* into $HOME/.zcash-params, which is one of the candidates.               *)
(*                                                                         *)
(* Paths are sequences of components as PathBuf::join builds them;        *)
(* the environment variables are set or not, and distinct when set.  A    *)
(* path whose first component is "" is relative to the working directory. *)
(* A file is absent, "partial" (fs::copy has created and truncated it but *)
(* not finished writing) or "complete".  Every filesystem call may fail,  *)
(* and the process may die at any step; a failed start is followed by     *)
(* another start.  Faults are bounded by MaxFaults.                        *)
(*                                                                         *)
(* Nodes are node processes started on one host by one user: they share   *)
(* the environment, the init files and $HOME, and run the check at the    *)
(* same time, each at its own pace.                                        *)
(***************************************************************************)
EXTENDS Naturals, Sequences, TLC

CONSTANTS
    Nodes,          \* node processes sharing the host
    MaxFaults       \* bound on failed filesystem calls and crashes

VARIABLES
    env,            \* [opam, home, xdg]: OPAM_SWITCH_PREFIX, HOME, XDG_DATA_HOME set
    init,           \* the init_sapling_*_params_file that exist
    files,          \* [<<dir, name>> -> "partial" | "complete"] for the files present
    dirs,           \* directories that exist
    pc,             \* [Nodes -> where assert_zcash_params is, or its outcome]
    faults          \* faults so far

vars == <<env, init, files, dirs, pc, faults>>

-----------------------------------------------------------------------------
Params == {"spend", "output"}     \* SAPLING_{SPEND,OUTPUT}_PARAMS_FILE_NAME

(* XDG_DATA_DIRS split at ':' (lines 913-920).  Unset, or not valid UTF-8, *)
(* it is the default "/usr/local/share/:/usr/share/"; set, it may be one  *)
(* directory, or hold an empty segment ("" itself, or a trailing ':'),     *)
(* which PathBuf::from makes the relative path "".                         *)
DefaultDataDirs == <<"/usr/local/share/", "/usr/share/">>
DataDirsSplits == {DefaultDataDirs, <<"">>, <<"/opt/share/">>, <<"/opt/share/", "">>}

Envs == [opam : BOOLEAN, home : BOOLEAN, xdg : BOOLEAN, data_dirs : DataDirsSplits]

(* A PathBuf is the sequence of its components; join appends one.         *)
join(p, c) == Append(p, c)

(* env::var_os("HOME"), or "/".                                            *)
HomeDir(e) == IF e.home THEN <<"$HOME">> ELSE <<"/">>

(* candidate_dirs: the opam switch, ~/.zcash-params, the XDG data home,    *)
(* then every segment of XDG_DATA_DIRS, each joined with zcash-params.     *)
candidate_dirs(e) ==
    LET data_home == IF e.xdg THEN <<"$XDG_DATA_HOME">> ELSE join(HomeDir(e), ".local/share/")
        data_dirs == <<data_home>> \o [i \in 1..Len(e.data_dirs) |-> <<e.data_dirs[i]>>]
    IN (IF e.opam THEN <<join(<<"$OPAM_SWITCH_PREFIX">>, "share/zcash-params")>> ELSE <<>>)
       \o <<join(HomeDir(e), ".zcash-params")>>
       \o [i \in 1..Len(data_dirs) |-> join(data_dirs[i], "zcash-params")]

Candidates == {candidate_dirs(env)[i] : i \in 1..Len(candidate_dirs(env))}

Exists(d, f) == <<d, f>> \in DOMAIN files

(* The probe loop: some candidate holds both files (Path::exists).         *)
Found == \E d \in Candidates : \A f \in Params : Exists(d, f)

(* A fault: the parameters put in ~/zcash-params, without the dot.         *)
ParamDirNoDot == join(HomeDir(env), "zcash-params")

(* home_dir.join(".zcash-params"), where the init files are copied to.     *)
zcash_param_dir == join(HomeDir(env), ".zcash-params")

(* A fault: the existence check made of the destination files instead.     *)
DestFilesExist == \A f \in Params : Exists(zcash_param_dir, f)

(* Both init_sapling_*_params_file exist.                                  *)
InitFilesExist == init = Params

Put(d, f, s) == [p \in DOMAIN files \cup {<<d, f>>} |-> IF p = <<d, f>> THEN s ELSE files[p]]

CanFail == faults < MaxFaults

-----------------------------------------------------------------------------
(* The disk at start: nothing, or a candidate holding both files or only  *)
(* the spend file, all complete; ~/.zcash-params may exist empty.          *)
Init ==
    /\ env \in Envs
    /\ init \in SUBSET Params
    /\ \E d \in Candidates \cup {<<>>}, some \in {Params, {"spend"}} :
          /\ files = IF d = <<>> THEN <<>> ELSE [p \in {<<d, f>> : f \in some} |-> "complete"]
          /\ \E empty \in {{}, {zcash_param_dir}} :
                dirs = {p[1] : p \in DOMAIN files} \cup empty
    /\ pc = [n \in Nodes |-> "probe"]
    /\ faults = 0

(* Lines 932-951, 954: the probe; both files in one candidate is Ok.       *)
Probe(n) ==
    /\ pc[n] = "probe"
    /\ pc' = [pc EXCEPT ![n] = IF Found THEN "ok" ELSE "check_init"]
    /\ UNCHANGED <<env, init, files, dirs, faults>>

(* Lines 956-967: an init file that does not exist is an Err.             *)
CheckInit(n) ==
    /\ pc[n] = "check_init"
    /\ pc' = [pc EXCEPT ![n] = IF InitFilesExist THEN "mkdir" ELSE "err"]
    /\ UNCHANGED <<env, init, files, dirs, faults>>

(* Lines 970-977: create_dir_all if ~/.zcash-params does not exist; its    *)
(* failure is returned by ?.  create_dir_all succeeds on a directory       *)
(* another node created in between.                                        *)
MakeDir(n) ==
    /\ pc[n] = "mkdir"
    /\ \/ /\ dirs' = dirs \cup {zcash_param_dir}
          /\ pc' = [pc EXCEPT ![n] = "open_spend"]
          /\ UNCHANGED faults
       \/ /\ zcash_param_dir \notin dirs /\ CanFail
          /\ pc' = [pc EXCEPT ![n] = "err"] /\ faults' = faults + 1
          /\ UNCHANGED dirs
    /\ UNCHANGED <<env, init, files>>

(* Lines 984-987: fs::copy of one file: it creates and truncates the       *)
(* destination, then writes it; either step may fail, and a failure after *)
(* the create leaves the partial file behind.                              *)
CopyOpen(n, f) ==
    /\ pc[n] = "open_" \o f
    /\ \/ /\ zcash_param_dir \in dirs
          /\ files' = Put(zcash_param_dir, f, "partial")
          /\ pc' = [pc EXCEPT ![n] = "write_" \o f]
          /\ UNCHANGED faults
       \/ /\ CanFail
          /\ pc' = [pc EXCEPT ![n] = "err"] /\ faults' = faults + 1
          /\ UNCHANGED files
    /\ UNCHANGED <<env, init, dirs>>

CopyWrite(n, f) ==
    /\ pc[n] = "write_" \o f
    /\ \/ /\ files' = Put(zcash_param_dir, f, "complete")
          /\ pc' = [pc EXCEPT ![n] = IF f = "spend" THEN "open_output" ELSE "ok"]
          /\ UNCHANGED faults
       \/ /\ CanFail
          /\ pc' = [pc EXCEPT ![n] = "err"] /\ faults' = faults + 1
          /\ UNCHANGED files
    /\ UNCHANGED <<env, init, dirs>>

(* The process dies at any step; the disk keeps what was written.          *)
Crash(n) ==
    /\ pc[n] \notin {"ok", "err"}
    /\ CanFail
    /\ pc' = [pc EXCEPT ![n] = "err"] /\ faults' = faults + 1
    /\ UNCHANGED <<env, init, files, dirs>>

(* The node is started again.                                              *)
Restart(n) ==
    /\ pc[n] \in {"ok", "err"}
    /\ pc' = [pc EXCEPT ![n] = "probe"]
    /\ UNCHANGED <<env, init, files, dirs, faults>>

Next ==
    \E n \in Nodes :
        \/ Probe(n) \/ CheckInit(n) \/ MakeDir(n)
        \/ \E f \in Params : CopyOpen(n, f) \/ CopyWrite(n, f)
        \/ Crash(n) \/ Restart(n)

(* The function runs to its end once called, and a node that failed to    *)
(* start is started again.                                                 *)
Fairness ==
    \A n \in Nodes :
        /\ WF_vars(Probe(n)) /\ WF_vars(CheckInit(n)) /\ WF_vars(MakeDir(n))
        /\ \A f \in Params : WF_vars(CopyOpen(n, f)) /\ WF_vars(CopyWrite(n, f))
        /\ WF_vars(pc[n] = "err" /\ Restart(n))

Spec == Init /\ [][Next]_vars /\ Fairness

-----------------------------------------------------------------------------
(* After assert_zcash_params returns Ok, both parameter files exist in one *)
(* of the directories the library searches, whether they were found there *)
(* or just copied to ~/.zcash-params.                                      *)
OkMeansPresent == \A n \in Nodes : pc[n] = "ok" => Found

(* With both init files in place, or the parameters already installed,    *)
(* the node eventually starts past the check, whatever copies or creates   *)
(* failed and wherever it died in between.                                 *)
EventuallyReady == (init = Params \/ Found) => \A n \in Nodes : <>(pc[n] = "ok")

(* Ok means the library has whole parameter files to load: one candidate  *)
(* holds both files, completely written.  The doc comment: "Checks        *)
(* correctly setup environment OS for zcash-params sapling".               *)
OkMeansUsable ==
    (\E n \in Nodes : pc[n] = "ok") =>
        \E d \in Candidates : \A f \in Params : Exists(d, f) /\ files[<<d, f>>] = "complete"

=============================================================================
