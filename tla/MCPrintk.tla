------------------------------- MODULE MCPrintk -------------------------------
(* Every directive, with values at the limits of the types; pairs, so that   *)
(* arguments and directives can get out of step; formats cut short.          *)
EXTENDS Printk

Directives ==
    { <<"%">> \o d : d \in Numeric \cup { <<"c">>, <<"s">>, <<"%">>, <<"z">>, <<"h", "z">>,
                                          <<"l", "z">>, <<"q", "z">> } }
Ends == { <<"%">>, <<"%", "h">>, <<"%", "q">> }

Plains == { <<"m">>, <<Tab>>, <<"%", Tab>> }

SomeFormats ==
    { <<p>> : p \in Directives \cup Ends \cup Plains }
    \cup { <<p, q>> : p \in Directives, q \in Directives \cup Ends \cup Plains }

Limits ==
    { <<0, 0, 0, 0>>, <<0, 0, 0, 10>>, <<0, 0, 0, 128>>, <<0, 0, 0, 32768>>,
      <<0, 0, 0, 65535>>, <<0, 0, 65535, 65535>>, <<0, 256, 0, 0>>,
      <<32767, 65535, 65535, 65535>>, <<32768, 0, 0, 0>>,
      <<65535, 65535, 65535, 65535>> }
=============================================================================
