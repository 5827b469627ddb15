------------------------------- MODULE Config -------------------------------
(***************************************************************************)
(* NOSGEM.CFG (src/src/config.c).  A file is the sequence of what fgets    *)
(* makes of it: line[256] cuts a longer line into several, each of them    *)
(* read as a line.  A line that sets something is a name and a value; of   *)
(* any other one, empty, a comment or without "=", the name is "none".     *)
(***************************************************************************)
EXTENDS Integers, Sequences, SequencesExt

CONSTANTS ConfigFiles,    \* the files, or NoConfig, that fopen may find
          NoConfig,
          DefaultConfig,  \* nos_config_defaults: HOME, PAGE_LINES, MAX_BODY
          Word            \* 2^16: the range of unsigned int

ASSUME ConfigAssumption ==
    /\ Word \in Nat \ {0}
    /\ DefaultConfig = [name \in {"HOME", "PAGE_LINES", "MAX_BODY"} |->
                           DefaultConfig[name]]
    /\ DefaultConfig.PAGE_LINES \in 0..(Word - 1)
    /\ \A file \in ConfigFiles \ {NoConfig} :
           /\ file \in Seq(Range(file))
           /\ \A i \in DOMAIN file :
                  file[i].name = "PAGE_LINES" => file[i].value \in Int

(* PAGE_LINES: atoi in an unsigned int.                                    *)
Converted(setting) ==
    IF setting.name = "PAGE_LINES" THEN setting.value % Word ELSE setting.value

(* A file that cannot be opened leaves the defaults.                       *)
nos_config_load(file) ==
    LET Set(cfg, setting) ==
            IF setting.name \in DOMAIN cfg
            THEN [cfg EXCEPT ![setting.name] = Converted(setting)]
            ELSE cfg
    IN  IF file = NoConfig THEN DefaultConfig
        ELSE FoldLeft(Set, DefaultConfig, file)
=============================================================================
