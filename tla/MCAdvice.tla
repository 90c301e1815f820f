------------------------------ MODULE MCAdvice ------------------------------
(***************************************************************************)
(* Repositories of three files with a few findings, and every finding, or   *)
(* two of a smaller choice, in a few repositories of two files.             *)
(***************************************************************************)
EXTENDS Advice

Line(wording, hint) == [wording |-> wording, hint |-> hint]

File(name, extension, words, readable, text) ==
    [name |-> name, extension |-> extension, words |-> words, readable |-> readable, text |-> text]
Stating1(name, text) == File(name, "other", {}, TRUE, text)

Poms == {Stating1("pom.xml", text) : text \in
            {<<Line("source", <<17>>), Line("release", <<24>>)>>,
             <<Line("other", << >>), Line("property", <<Rest>>)>>,
             <<Line("source", <<1, Rest, 8>>)>>, <<Line("other", << >>)>>}}
Gradles == {Stating1("build.gradle", <<Line("assigned", <<Quote, 25, Quote>>), Line("toolchain", <<17>>)>>),
            Stating1("build.gradle.kts", <<Line("other", << >>), Line("toolchain", <<100>>)>>),
            File("build.gradle", "other", {}, FALSE, <<Line("toolchain", <<23>>)>>)}
Others == {Stating1("package.json", <<Line("directive", <<Rest, 24, Rest>>)>>),
           Stating1("package.json", << >>),
           Stating1("go.mod", <<Line("directive", <<1, Rest, 22>>)>>),
           Stating1("Cargo.toml", <<Line("assigned", <<Rest>>)>>),
           Stating1("Gemfile", <<Line("other", << >>), Line("directive", <<Quote, 3, Quote>>)>>),
           Stating1(".ruby-version", <<Line("blank", << >>), Line("other", <<2>>)>>),
           Stating1("pyproject.toml", <<Line("assigned", <<Quote, Rest, 3, Quote>>)>>),
           Stating1("runtime.txt", <<Line("blank", << >>), Line("other", <<Rest, 3>>)>>)}
Source == File("App.java", "java", {"nginx"}, TRUE, << >>)

RuntimeFiles == Poms \cup Gradles \cup Others \cup {Source}

Finding(file, category, prefix, language, kind, risk) ==
    [file |-> file, category |-> category, prefix |-> prefix, language |-> language,
     kind |-> kind, risk |-> risk]
JavaJwt == Finding(1, "jwt", "other", "java", "other", "quantum-vulnerable")
JsJwt == Finding(2, "jwt", "other", "javascript", "other", "quantum-vulnerable")
Tls(file) == Finding(file, "tls", "other", "unstated", "other", "quantum-vulnerable")

Dependency(name, words, purl) ==
    [name |-> name, words |-> words, purl |-> purl, pkg |-> purl # ""]
Jose == Dependency("jose", {}, "pkg:npm/jose")
OpenSsl == Dependency("openssl-sys", {"openssl"}, "pkg:cargo/openssl-sys")
Bcprov == Dependency("org.bouncycastle:bcprov-jdk18on", {"bouncycastle", "bcprov"}, "")
Named == Dependency("java-bouncycastle", {"bouncycastle"}, "pkg:generic/java-bouncycastle")

Profiles ==
    [files : [1..3 -> RuntimeFiles], dependencies : {<<Jose, OpenSsl>>, <<Bcprov>>},
     findings : {<<JavaJwt, JsJwt, Tls(1), Tls(3)>>}]

\* Where findings are: a language, a middleware in the path, or both.
Places == {File("App.java", "java", {}, TRUE, << >>),
           File("token.ts", "ts", {"envoy"}, TRUE, << >>),
           File("main.go", "go", {}, TRUE, << >>),
           File("sign.py", "py", {}, TRUE, << >>), File("sign.rs", "rs", {}, TRUE, << >>),
           File("sign.rb", "rb", {}, TRUE, << >>),
           File("site.conf", "conf", {"apache", "haproxy"}, TRUE, << >>),
           File("gateway.yaml", "yaml", {"kubernetes", "istio"}, TRUE, << >>),
           File("tls.yaml", "yaml", {"ingress", "traefik"}, TRUE, << >>)}
Java25 == Stating1("pom.xml", <<Line("release", <<25>>)>>)

Categories == {"middleware", "tls", "jwt", "pki", "cryptoapi", "crypto"}
Languages == {"unstated", "java", "ts", "golang", "rs", "py", "rb", "cobol"}
Prefixes == {"k8s", "nginx", "dep", "other"}

OneFinding ==
    {[files |-> <<p, q>>, dependencies |-> << >>, findings |-> <<f>>] :
        p \in Places, q \in {Java25, Source},
        f \in {Finding(1, c, x, l, k, r) : c \in Categories, x \in Prefixes, l \in Languages,
                 k \in {"private_key", "other"}, r \in {"quantum-vulnerable", "other"}}}

TwoFindings ==
    {[files |-> <<p, q>>, dependencies |-> <<Named>>, findings |-> <<f, g>>] :
        p \in Places, q \in Places,
        f \in {Finding(1, c, x, "unstated", "other", "other") : c \in Categories, x \in Prefixes},
        g \in {Finding(2, c, x, "unstated", "other", "other") : c \in Categories, x \in Prefixes}}

MCInputs == Profiles \cup OneFinding \cup TwoFindings
=============================================================================
