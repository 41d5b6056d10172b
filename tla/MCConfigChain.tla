---------------------------- MODULE MCConfigChain ----------------------------
EXTENDS ConfigChain
MCProfiles == <<"dev", "prod">>
MCDirs     == <<"src/main/resources", "config">>
MCOneDir   == <<"src/main/resources">>
MCThree    == <<"deployment1", "deployment2", "deployment3">>
MCTwo      == {"deployment1", "deployment3"}
MCValues   == {"a", "b", Blank}
=============================================================================
