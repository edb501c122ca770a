------------------------------- MODULE MCEdges -------------------------------
EXTENDS Edges
LibRs == Named(<<"src">>, "lib", "rs")
ARs == Named(<<"src">>, "a", "rs")
AModRs == Named(<<"src", "a">>, "mod", "rs")
MainPy == Named(<<"p">>, "main", "py")
InitPy == Named(<<"p">>, "__init__", "py")
UtilPy == Named(<<"p">>, "util", "py")
AppJs == Named(<<>>, "app", "js")
XJs == Named(<<"x">>, "index", "js")
MCPaths == {LibRs, ARs, AModRs, MainPy, InitPy, UtilPy, AppJs, XJs}
Ref(form, up, names) == [form |-> form, up |-> up, names |-> names]
MCImportsOf == [fv \in MCPaths \X {"v1","v2"} |->
   IF fv[2] = "v2" THEN <<>> ELSE
   CASE fv[1] = LibRs -> <<Ref("crate",0,<<"a","T">>), Ref("local",0,<<"a">>), Ref("bare",0,<<>>)>>
     [] fv[1] = ARs -> <<Ref("super",1,<<>>), Ref("self",0,<<"T">>)>>
     [] fv[1] = MainPy -> <<Ref("dots",0,<<>>), Ref("dotted",0,<<"p","util">>), Ref("unmodeled",0,<<>>)>>
     [] fv[1] = AppJs -> <<Ref("relative",0,<<"x">>), Ref("relative",1,<<"y">>), Ref("bare",0,<<>>)>>
     [] OTHER -> <<>>]
==============================================================================
