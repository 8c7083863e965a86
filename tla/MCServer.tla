------------------------------- MODULE MCServer -----------------------------
EXTENDS Server, TLC

CONSTANTS s1, s2, s3, a, b

\* s3 has the name of s1.
Names3 == s1 :> a @@ s2 :> b @@ s3 :> a

Pointer(x) == Type(x, 1)
Redises == "default" :> <<0, 1>> @@ "limiter" :> <<0>> @@ "user" :> <<0>>
AllGiven == <<Pointer("boot"), Pointer("dbs"), Pointer("rdbs")>>
FewForeign == <<Pointer("dbs"), NilValue>>
MCBatches == {<<s1, s3>>, <<s2, NoService>>}
MCConfigured == <<s2>>
MCNeeds == s1 :> <<>> @@ s2 :> <<Pointer("rdbs")>> @@ s3 :> <<Type("store", 0)>>
MCMethods == {<<Pointer("dbs"), Type("store", 0)>>}
Order == <<"d1", "d2">>
=============================================================================
