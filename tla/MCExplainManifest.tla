-------------------------- MODULE MCExplainManifest -------------------------
(***************************************************************************)
(* Instances of ExplainManifest: a sound package for each architecture and *)
(* its variants, each off in a file or two, and the command lines.         *)
(***************************************************************************)
EXTENDS ExplainManifest

ubuntu22  == <<"ubuntu-22.04", "amd64">>
amazon23  == <<"amazonlinux-2023", "arm64">>
alpine    == <<"alpine", "amd64">>
docker    == <<"docker-image">>

Libc(lo, hi) == "libc.so.6" :> {GLIBC(lo), GLIBC(hi)}
Ssl(n)       == "libssl.so.3" :> {OPENSSL(0), OPENSSL(n)}

Elf(arch, requires) ==
  [isElf |-> TRUE, arch |-> arch, needed |-> {"libc.so.6"}, rpath |-> None, runpath |-> None,
   exported |-> {}, imported |-> {"malloc"}, functions |-> {}, requires |-> requires,
   modules |-> {}, openssl |-> None, flags |-> None, dwarf |-> {}]

(* arm64 stands for amazonlinux-2023-arm64, which has rpaths, not runpaths,*)
(* and libcrypt.so.2.                                                      *)
Runpath(arch, elf, dirs) == IF arch = "AARCH64" THEN [elf EXCEPT !.rpath = Scalar(dirs)]
                                                ELSE [elf EXCEPT !.runpath = Scalar(dirs)]
NginxElf(arch) ==
  Runpath(arch, [Elf(arch, Ssl(2) @@ Libc(2, 17)) EXCEPT
    !.needed = {"libc.so.6", IF arch = "AARCH64" THEN "libcrypt.so.2" ELSE "libcrypt.so.1"},
    !.exported = {"pcre2_general_context_free_8"},
    !.functions = {"ngx_http_lua_kong_ffi", "ngx_stream_lua_kong_ffi"},
    !.modules = {"lua-kong-nginx-module"}, !.openssl = Text({"OpenSSL 3.2"}),
    !.flags = Text({"--prefix"}), !.dwarf = {"ngx_http_request_t"}], RpathAll)

File(at) == [at |-> at, kind |-> "file", mode |-> 420, uid |-> 1000,
             gid |-> IF at \in Suites!KongFiles \cup {"bin/kong"} THEN 0 ELSE 1000,
             content |-> Text({"kong:x:1000"}), elf |-> NotElf]
ElfFile(at, elf) == [File(at) EXCEPT !.elf = elf]

Sound(arch) == <<
  File("ca.crt"), File("group"), File("kong.conf.default"), File("kong.logrotate"), File("passwd"),
  File("bin/kong"), File("google.proto"), File("kong.proto"), File("openssl.h"),
  ElfFile("kong/lib/libxslt.so.1", Runpath(arch, Elf(arch, Libc(2, 17)), RpathKong)),
  ElfFile("lib/libfoo.so", Elf(arch, Libc(2, 17))),
  ElfFile("lib/libssl.so.3", Elf(arch, Libc(2, 17))),
  ElfFile("libatc_router.so", [Elf(arch, Ssl(2) @@ Libc(2, 28)) EXCEPT
                                 !.functions = {"router_execute"}]),
  ElfFile("sbin/nginx", NginxElf(arch)) >>

(* The package with the entry put in the place of the one at its path, and *)
(* without what lies at a path.                                            *)
With(pkg, e) == [i \in 1..Len(pkg) |-> IF pkg[i].at = e.at THEN e ELSE pkg[i]]
Without(pkg, at) == SelectSeq(pkg, LAMBDA e : e.at # at)

(* "ok" is the sound package, "n" its nginx, "other" the other architecture. *)
Variants(arch, other, ok, n) ==
  LET nginx(elf) == With(ok, ElfFile("sbin/nginx", elf))
      so(requires) == With(ok, ElfFile("lib/libfoo.so", Elf(arch, requires)))
  IN << ok,
        \* nginx: debug build, old pcre, other OpenSSL or none, stripped, static, no ELF, a link
        nginx([n EXCEPT !.flags = Text({"--prefix", "with-debug"})]),
        nginx([n EXCEPT !.exported = @ \cup {"pcre_free"}]),
        nginx([n EXCEPT !.needed = @ \cup {"libpcre2-8.so.0"}]),
        nginx([n EXCEPT !.openssl = Text({"OpenSSL 3.1"}), !.requires = Ssl(3) @@ Libc(2, 17)]),
        nginx([n EXCEPT !.openssl = None]),
        nginx([n EXCEPT !.functions = {}, !.dwarf = {}]),
        nginx([n EXCEPT !.needed = {}]),
        nginx(NotElf),
        With(ok, [ElfFile("sbin/nginx", n) EXCEPT !.kind = "link"]),
        \* the other of rpath and runpath, and the other architecture
        nginx([n EXCEPT !.rpath = n.runpath, !.runpath = n.rpath]),
        With(ok, ElfFile("lib/libfoo.so", Elf(other, Libc(2, 17)))),
        \* a library that spans the maximum, one above it, one with a newer OpenSSL behind
        \* one without the key, one that needs no version, one that is no ELF
        so(Libc(17, 38)), so(Libc(38, 39)), so(Ssl(3) @@ Libc(2, 17)), so(<<>>),
        With(ok, File("lib/libfoo.so")),
        With(so(Libc(38, 39)), ElfFile("libatc_router.so", Elf(arch, Libc(40, 41)))),
        so("libstdc++.so.6" :> {GLIBCXX(11)} @@ Libc(2, 17)),
        so("libstdc++.so.6" :> {CXXABI(3), GLIBCXX(31)} @@ Libc(2, 17)),
        \* a versioned library outside the lib directories, a wasm module
        ok \o <<ElfFile("share/x.so.1", Elf(other, Libc(2, 17)))>>,
        <<ElfFile("modules/ngx_wasm_module.so",
                  Runpath(arch, Elf(arch, Libc(2, 17)), RpathAll \cup {"/bazel"}))>> \o ok,
        \* an extra rpath that transform hides, a strange one that it does not
        With(ok, ElfFile("kong/lib/libxslt.so.1",
                         Runpath(arch, Elf(arch, Libc(2, 17)), RpathKong \cup {"/bazel"}))),
        With(ok, ElfFile("kong/lib/libxslt.so.1",
                         Runpath(arch, Elf(arch, Libc(2, 17)), {"/bazel"}))),
        \* missing, linked or odd files
        Without(ok, "google.proto"), Without(ok, "sbin/nginx"), Without(ok, "ca.crt"),
        With(ok, [File("lib/libfoo.so") EXCEPT !.kind = "link"]),
        With(ok, [File("kong.logrotate") EXCEPT !.kind = "link", !.content = Raises]),
        With(ok, [File("passwd") EXCEPT !.content = [kind |-> "undecodable"]]),
        With(ok, [File("passwd") EXCEPT !.content = Text({})]),
        With(ok, [File("passwd") EXCEPT !.content = Text({"root"})]),
        With(ok, [File("group") EXCEPT !.kind = "dir"]),
        With(ok, [File("kong.proto") EXCEPT !.uid = 0]),
        With(ok, [File("bin/kong") EXCEPT !.gid = 1000]) >>

MCPackages ==
  Variants("X86_64", "AARCH64", Sound("X86_64"), NginxElf("X86_64"))
  \o Variants("AARCH64", "X86_64", Sound("AARCH64"), NginxElf("AARCH64"))

FileList == {"libatc_router.so", "modules/ngx_wasm_module.so", "lib/libfoo.so",
             "lib/libssl.so.3", "kong/lib/libxslt.so.1", "google.proto", "kong.proto",
             "sbin/nginx", "kong.logrotate"}

MCReference == ubuntu22 :> [package |-> Sound("X86_64"), globs |-> FileList]
               @@ amazon23 :> [package |-> Sound("AARCH64"), globs |-> FileList]

Line(path, suite, out) ==
  [path |-> path, image |-> FALSE, root |-> FALSE, suite |-> suite, output |-> out,
   globs |-> FileList, opts |-> {}]
Image(line) == [line EXCEPT !.image = TRUE, !.path = "none", !.globs = {"**"}]
AllOpts == {"owners", "mode", "size", "arch", "imported_symbols", "exported_symbols",
            "version_requirement"}

MCArguments ==
  {Line("archive", s, "file") : s \in {ubuntu22, amazon23}}
  \cup {Line("archive", alpine, "stdout"), Line("archive", ubuntu22, "stdout")}
  \cup {[Image(Line("none", docker, "none")) EXCEPT !.root = TRUE]}
  \cup {[Line("archive", NoSuite, o) EXCEPT !.opts = AllOpts] : o \in {"file", "stdout"}}
  \cup {Line("archive", NoSuite, "none"), Line("none", ubuntu22, "none"),
        Line("directory", ubuntu22, "none"), Line("other", ubuntu22, "none"),
        Line("archive", <<"unknown">>, "file"), Image(Line("none", docker, "none"))}
=============================================================================
