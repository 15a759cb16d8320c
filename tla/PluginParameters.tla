-------------------------- MODULE PluginParameters --------------------------
(* The parameters of the plugin: which of them exclude each other            *)
(* (ProtobuftsPlugin.parameters), how they are parsed (PluginBase), and what *)
(* they set (makeInternalOptions). What is given is a set: the order and     *)
(* repetitions mean nothing. No parameter requires another one.              *)
EXTENDS Naturals, Sequences, FiniteSets, TLC

NoExcludes(names) == [n \in names |-> {}]

\* Each of the names excludes the others.
OneOf(names) == [n \in names |-> names \ {n}]

LongTypeSpec == OneOf({"long_type_string", "long_type_number", "long_type_bigint"})

MiscSpec ==
    NoExcludes({"generate_dependencies", "force_exclude_all_options", "keep_enum_prefix",
                "use_proto_field_name", "add_pb_suffix"})
    @@ OneOf({"ts_nocheck", "disable_ts_nocheck"})
    @@ OneOf({"eslint_disable", "no_eslint_disable"})

Years == {"es2015", "es2016", "es2017", "es2018", "es2019", "es2020"}

JavaScript == {"output_javascript"} \cup {"output_javascript_" \o y : y \in Years}

OnlySpec == "only_interface" :> JavaScript @@ "only_http" :> {"only_interface"}

OutputSpec ==
    OneOf({"output_typescript"} \cup JavaScript)
    @@ "output_legacy_commonjs" :> {"output_typescript"}

ClientSpec ==
    "client_none" :> {"client_generic", "client_grpc1"}
    @@ "client_generic" :> {"client_none", "client_grpc1", "force_client_none",
                            "force_disable_services"}
    @@ "client_grpc1" :> {"client_none", "client_generic", "force_client_none",
                          "force_disable_services"}
    @@ "force_client_none" :> {"client_none", "client_generic", "client_grpc1"}

ServerSpec ==
    "server_none" :> {"server_grpc1"}
    @@ "server_generic" :> {"server_none", "force_server_none", "force_disable_services"}
    @@ "server_grpc1" :> {"server_none", "force_server_none", "force_disable_services"}
    @@ "force_server_none" :> {}
    @@ "force_disable_services" :> {"client_generic", "client_grpc1", "server_generic",
                                    "server_grpc1"}

OptimizeSpec ==
    "optimize_speed" :> {"force_optimize_speed"}
    @@ "optimize_code_size" :> {"force_optimize_speed"}
    @@ "force_optimize_code_size" :> {"optimize_code_size", "force_optimize_speed"}
    @@ "force_optimize_speed" :> {"optimize_code_size", "force_optimize_code_size"}

excludes == LongTypeSpec @@ MiscSpec @@ OnlySpec @@ OutputSpec @@ ClientSpec @@ ServerSpec
            @@ OptimizeSpec

-----------------------------------------------------------------------------
(* parseOptions                                                              *)

validateOptionsSpec == \A n \in DOMAIN excludes : excludes[n] \subseteq DOMAIN excludes

Recognized(given) == given \subseteq DOMAIN excludes

OnlyKnown(given) == validateOptionsSpec /\ Recognized(given)  \* Mutant: exclusions are not looked at.

Accepts(given) ==
    /\ validateOptionsSpec
    /\ Recognized(given)
    /\ \A n \in given : excludes[n] \cap given = {}

-----------------------------------------------------------------------------
(* makeInternalOptions. Parameters that name the default set nothing.        *)

DefaultOptions ==
    [generateDependencies |-> FALSE, normalLongType |-> "BIGINT",
     normalOptimizeMode |-> "SPEED", forcedOptimizeMode |-> "unset",
     normalClientStyle |-> "generic", forcedClientStyle |-> "unset",
     normalServerStyle |-> "none", forcedServerStyle |-> "unset",
     forceExcludeAllOptions |-> FALSE, keepEnumPrefix |-> FALSE, useProtoFieldName |-> FALSE,
     tsNoCheck |-> FALSE, esLintDisable |-> FALSE,
     transpileTarget |-> "unset", transpileModule |-> "ES2015",
     forceDisableServices |-> FALSE, addPbSuffix |-> FALSE, onlyInterface |-> FALSE,
     onlyHttp |-> FALSE]

\* The flags that are set to true.
Flags(given) ==
    [generateDependencies |-> "generate_dependencies" \in given,
     forceExcludeAllOptions |-> "force_exclude_all_options" \in given,
     keepEnumPrefix |-> "keep_enum_prefix" \in given,
     useProtoFieldName |-> "use_proto_field_name" \in given,
     tsNoCheck |-> "ts_nocheck" \in given,
     esLintDisable |-> "eslint_disable" \in given,
     addPbSuffix |-> "add_pb_suffix" \in given,
     onlyInterface |-> "only_interface" \in given,
     onlyHttp |-> "only_http" \in given,
     forceDisableServices |-> "force_disable_services" \in given]

\* The value of the last parameter in `settings` that is given.
Setting(given, settings, default) ==
    LET set == {k \in DOMAIN settings : settings[k][1] \in given}
    IN  IF set = {} THEN default
        ELSE settings[CHOOSE k \in set : \A l \in set : l <= k][2]

StyleSettings ==
    [normalLongType |-> <<<<"long_type_string", "STRING">>, <<"long_type_number", "NUMBER">>>>,
     normalOptimizeMode |-> <<<<"optimize_code_size", "CODE_SIZE">>>>,
     forcedOptimizeMode |-> <<<<"force_optimize_speed", "SPEED">>,
                              <<"force_optimize_code_size", "CODE_SIZE">>>>,
     normalClientStyle |-> <<<<"client_none", "none">>, <<"client_grpc1", "grpc1">>>>,
     forcedClientStyle |-> <<<<"force_client_none", "none">>>>,
     normalServerStyle |-> <<<<"server_generic", "generic">>, <<"server_grpc1", "grpc1">>>>,
     forcedServerStyle |-> <<<<"force_server_none", "none">>>>]

TargetSettings ==
    [transpileTarget |-> <<<<"output_javascript", "es2020">>, <<"output_javascript_es2015", "es2015">>,
                           <<"output_javascript_es2016", "es2016">>,
                           <<"output_javascript_es2017", "es2017">>,
                           <<"output_javascript_es2018", "es2018">>,
                           <<"output_javascript_es2019", "es2019">>,
                           <<"output_javascript_es2020", "es2020">>>>,
     transpileModule |-> <<<<"output_legacy_commonjs", "CommonJS">>>>]

SettingsOf(o) == IF o \in DOMAIN StyleSettings THEN StyleSettings[o] ELSE TargetSettings[o]

makeInternalOptions(given) ==
    [o \in DOMAIN DefaultOptions |->
        IF o \in DOMAIN Flags(given) THEN Flags(given)[o]
        ELSE Setting(given, SettingsOf(o), DefaultOptions[o])]
=============================================================================
