------------------------------ MODULE MCConfig ------------------------------
(* Flags of each type, values that look like flags, and two config files. *)
EXTENDS Config, TLC

Word(text) == [text |-> text, flag |-> Nil, value |-> Nil]
Flag(text, flag) == [text |-> text, flag |-> flag, value |-> Nil]
Inline(text, flag, value) == [text |-> text, flag |-> flag, value |-> value]

MCArgs == {
    Word("--"), Word("a.yaml"),
    Flag("-config", "config"), Inline("-config=b.yaml", "config", "b.yaml"),
    Inline("-config=", "config", ""),
    Flag("-root", "root"), Inline("-root=.", "root", "."),
    Flag("-port", "port"), Inline("-port=8080", "port", "8080"),
    Flag("-strict", "strict"), Inline("-strict=false", "strict", "false"),
    Inline("-strict=8080", "strict", "8080"),
    Inline("-tls-key-file=k.pem", "tls-key-file", "k.pem"),
    Flag("-version", "version"), Flag("-bogus", "bogus")}

MCTexts == {a.text : a \in MCArgs} \cup ({a.value : a \in MCArgs} \ {Nil})
             \cup {"", "true", "false", "0", "9090", "info", "c.pem"}

MCDefault == ("root" :> "." @@ "port" :> "8080" @@ "metrics-port" :> "0"
    @@ "log-level" :> "info" @@ "strict" :> "false" @@ "tls" :> "false"
    @@ "tls-cert-file" :> "" @@ "tls-key-file" :> "")

MCKind == [f \in DOMAIN MCDefault \cup {"config", "version"} |->
    IF f \in {"version", "strict", "tls"} THEN "bool"
    ELSE IF f \in {"port", "metrics-port"} THEN "int" ELSE "string"]

MCNumbers == {"0", "8080", "9090"}

\* b.yaml turns TLS on with half of what it needs.
MCFiles ==
    "a.yaml" :> ("root" :> "" @@ "port" :> "9090" @@ "metrics-port" :> "8080"
                    @@ "strict" :> "true" @@ "tls" :> "false")
    @@ "b.yaml" :> ("strict" :> "false" @@ "tls" :> "true" @@ "tls-cert-file" :> "c.pem")

MCLegal == "root" :> MCTexts \ {""} @@ "port" :> {"8080", "9090"}
    @@ "metrics-port" :> MCNumbers @@ "log-level" :> {"debug", "info", "warn", "error"}

MCReadable == {"c.pem", "k.pem"}
=============================================================================
