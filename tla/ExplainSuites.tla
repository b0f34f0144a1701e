---------------------------- MODULE ExplainSuites ---------------------------
(***************************************************************************)
(* The suites of scripts/explain_manifest: suites.py as the sequence of    *)
(* words each function says to the chain, and config.py's table of targets *)
(* with the arm64 twins it derives from the amd64 ones.                    *)
(*                                                                         *)
(* A glob is the set of PackageFiles' paths it matches.                    *)
(***************************************************************************)
EXTENDS PackageFiles

expect(globs) == <<[op |-> "expect", x |-> globs]>>
attr(name)    == <<[op |-> "attribute", x |-> name]>>
keyed(k)      == <<[op |-> "key", x |-> k]>>
is_not        == <<[op |-> "not"]>>
exists        == <<[op |-> "exists"]>>
says(verb, x) == <<[op |-> "verb", verb |-> verb, x |-> x]>>

Nginx == {"sbin/nginx"}
KongFiles == {"google.proto", "kong.proto", "openssl.h", "lib/libfoo.so",
              "lib/libssl.so.3", "kong/lib/libxslt.so.1"}

(* Two of the twenty-one functions of Kong's patches stand for them all.   *)
PatchedFunctions == <<"ngx_http_lua_kong_ffi", "ngx_stream_lua_kong_ffi">>

There(globs)         == expect(globs) \o exists
Is(name, verb, x)    == attr(name) \o says(verb, x)
IsNot(name, verb, x) == attr(name) \o is_not \o says(verb, x)

Below(lib, version) ==
  attr("version_requirement") \o keyed(lib) \o says("less_than", version)
NotAbove(lib, version) ==
  attr("version_requirement") \o keyed(lib) \o is_not \o says("greater_than", version)
OpenSSLBelow(minor) ==
  Below("libssl.so.3", OPENSSL(minor)) \o Below("libcrypto.so.3", OPENSSL(minor))

Patched ==
  attr("functions") \o says("contain", PatchedFunctions[1]) \o says("contain", PatchedFunctions[2])

(* common_suites in four parts: the files that must be there, how nginx is  *)
(* linked, what is compiled into it, and the libraries it depends on.       *)
Included ==
  There({"google.proto"}) \o There({"kong.proto"}) \o There({"kong.conf.default"})
  \o There({"kong.logrotate"}) \o There({"openssl.h"})

Linked ==
  expect(Nginx) \o Is("rpath", "equal", RpathAll)
  \o expect(Nginx) \o Is("has_dwarf_info", "equal", TRUE)
                   \o Is("has_ngx_http_request_t_DW", "equal", TRUE)
  \o expect(Nginx) \o Is("exported_symbols", "contain", "pcre2_general_context_free_8")
                   \o IsNot("exported_symbols", "contain", "pcre_free")
                   \o IsNot("needed_libraries", "contain_match", {"libpcre.so.1"})
                   \o IsNot("needed_libraries", "contain_match", {"libpcreposix.so.0"})
                   \o IsNot("needed_libraries", "contain_match", {"libpcre2-8.so.0"})

Compiled ==
  expect(Nginx) \o IsNot("nginx_compile_flags", "match", "with-debug")
  \o expect(Nginx) \o Patched
  \o expect({"libatc_router.so"}) \o Is("functions", "contain", "router_execute")

Depends(libcrypt) ==
  expect(Nginx) \o Is("needed_libraries", "contain", libcrypt)
  \o expect(Nginx) \o Is("nginx_compiled_openssl", "match", "OpenSSL 3.2") \o OpenSSLBelow(3)
  \o expect(EndsInSo) \o OpenSSLBelow(3)

common_suites(libcrypt) == Included \o Linked \o Compiled \o Depends(libcrypt)

(* A maximum of 0 is one the target does not give.                         *)
LibcNotAbove(max) ==
  expect(EndsInSo) \o NotAbove("libc.so.6", GLIBC(max)) \o NotAbove("libdl.so.2", GLIBC(max))
                   \o NotAbove("libpthread.so.0", GLIBC(max))
                   \o NotAbove("librt.so.1", GLIBC(max))
LibcxxNotAbove(version) == expect(EndsInSo) \o NotAbove("libstdc++.so.6", version)

libc_libcpp_suites(libc_max, libcxx_max, cxxabi_max) ==
  (IF libc_max = 0 THEN <<>> ELSE LibcNotAbove(libc_max))
  \o (IF libcxx_max = 0 THEN <<>> ELSE LibcxxNotAbove(GLIBCXX(libcxx_max)))
  \o (IF cxxabi_max = 0 THEN <<>> ELSE LibcxxNotAbove(CXXABI(cxxabi_max)))

arm64_suites ==
  expect(SoAnywhere) \o Is("arch", "equal", "AARCH64")
  \o expect(Nginx) \o Is("arch", "equal", "AARCH64")

OwnedBy(uid, gid, globs) ==
  expect(globs) \o Is("uid", "equal", uid) \o Is("gid", "equal", gid)

kong_uid == 1000
kong_gid == 1000

Users == expect({"passwd"}) \o Is("text_content", "match", "kong:x:1000")
         \o expect({"group"}) \o Is("text_content", "match", "kong:x:1000")

Owned == OwnedBy(kong_uid, 0, KongFiles) \o OwnedBy(kong_uid, 0, {"bin/kong"})
         \o OwnedBy(kong_uid, kong_gid, {"bin/luarocks"})
         \o OwnedBy(kong_uid, kong_gid, {"etc/luarocks"})
         \o OwnedBy(kong_uid, kong_gid, {"lib/lua"})
         \o OwnedBy(kong_uid, kong_gid, {"lib/luarocks"})
         \o OwnedBy(kong_uid, kong_gid, {"sbin/nginx", "libatc_router.so",
                                         "modules/ngx_wasm_module.so"})
         \o OwnedBy(kong_uid, kong_gid, {"share/x.so.1"})

docker_suites == Users \o Owned \o There({"ca.crt"})

(***************************************************************************)
(* config.targets.  A target is <<distribution, architecture>>; "fixture"  *)
(* names the manifest it is compared with.                                 *)
(***************************************************************************)
Suite(target, carried, libcrypt, libc_max, libcxx_max, cxxabi_max) ==
  [manifest |-> target, use_rpath |-> carried = "rpath",
   tests |-> common_suites(libcrypt) \o libc_libcpp_suites(libc_max, libcxx_max, cxxabi_max)]

amd64(distro) == <<distro, "amd64">>
arm64(distro) == <<distro, "arm64">>
NoManifest == <<>>

(* Of each distribution: what its packages carry, the libcrypt they link    *)
(* (.2 where libxcrypt_no_obsolete_api is set), and the newest libc,        *)
(* libstdc++ and cxxabi.                                                   *)
Table == {
  <<"alpine",           "rpath",   "libcrypt.so.1",  0, 29, 13>>,
  <<"amazonlinux-2",    "rpath",   "libcrypt.so.1", 26, 24, 11>>,
  <<"amazonlinux-2023", "runpath", "libcrypt.so.2", 34, 29, 13>>,
  <<"el7",              "rpath",   "libcrypt.so.1", 17, 19,  7>>,
  <<"el8",              "rpath",   "libcrypt.so.1", 28, 25, 11>>,
  <<"el9",              "rpath",   "libcrypt.so.2", 34, 29, 13>>,
  <<"ubuntu-20.04",     "runpath", "libcrypt.so.1", 30, 28, 12>>,
  <<"ubuntu-22.04",     "runpath", "libcrypt.so.1", 35, 29, 13>>,
  <<"debian-10",        "runpath", "libcrypt.so.1", 28, 25, 11>>,
  <<"debian-11",        "runpath", "libcrypt.so.1", 31, 28, 12>>,
  <<"debian-12",        "runpath", "libcrypt.so.1", 36, 30, 13>>}
Distributions == {row[1] : row \in Table}

amd64_target(d) ==
  LET row == CHOOSE r \in Table : r[1] = d
  IN Suite(amd64(d), row[2], row[3], row[4], row[5], row[6])

docker_image  == <<"docker-image">>
docker_target == [manifest |-> NoManifest, use_rpath |-> FALSE, tests |-> docker_suites]

(* The twins: el7 and el8 have none.                                       *)
Twinned == Distributions \ {"el7", "el8"}

arm64_target(d) ==
  LET e == amd64_target(d)
  IN [manifest  |-> arm64(d),
      use_rpath |-> e.use_rpath \/ d = "amazonlinux-2023",
      tests     |-> e.tests \o arm64_suites]

targets ==
  [t \in {amd64(d) : d \in Distributions} \cup {arm64(d) : d \in Twinned} \cup {docker_image} |->
     IF t = docker_image THEN docker_target
     ELSE IF t[2] = "amd64" THEN amd64_target(t[1]) ELSE arm64_target(t[1])]
=============================================================================
