--------------------------- MODULE MCConfigText ---------------------------
(***************************************************************************)
(* ConfigText with lines as in test/log.ini, and some that are not.        *)
(***************************************************************************)
EXTENDS ConfigTextProps, TLC

MCLowerCase ==
  [t \in {"[", "]", "=", "#", " ", BOM, "main", "b", "level", "enable", "limitsize",
          "reserve", "path", "name", "warn", "all", "alarm", "0", "yes", "-1", "./Dir"} |-> t]
  @@ [t \in {"./Dir"} |-> "./dir"]
  @@ ("Main" :> "main" @@ "Level" :> "level" @@ "WARN" :> "warn" @@ "ALARM" :> "alarm"
      @@ "./Dir" :> "./dir" @@ "./dir" :> "./dir")

MCNumbers == "0" :> 0 @@ "-1" :> -1
MCDefaultPath == <<"./dir">>

MCLines ==
  { <<BOM, " ", "[", "Main", "]">>, <<"[", "main", "]", " ">>, <<"[", "b", "]", "=", "0">>,
    <<"Level", " ", "=", " ", "WARN">>, <<"level", "=", "all">>, <<"level", "=", "ALARM">>,
    <<"enable", "=", "0">>, <<"enable", "=", "yes">>,
    <<"limitsize", "=", "-1">>, <<" ", "reserve", "=", "yes">>,
    <<"path", "=", "./Dir", "=", "0">>, <<"name", "=", "b">>,
    <<" ", "#", "level", "=", "WARN">>, <<"=", "b">> }
===========================================================================
