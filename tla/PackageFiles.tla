---------------------------- MODULE PackageFiles ----------------------------
(***************************************************************************)
(* What scripts/explain_manifest/explain.py knows of a file of a package:  *)
(* the classes FileInfo, ElfFileInfo and NginxInfo, main.py's choice       *)
(* between them, and config.py's transform.                                *)
(*                                                                         *)
(* A file info is a record with the path and a function "attrs" whose      *)
(* DOMAIN is the set of attributes that hasattr() finds: an attribute the  *)
(* constructor did not set, or whose lazy evaluation gives a false value,  *)
(* is not in it.  A value is tagged with the Python type that the verbs of *)
(* expect.py distinguish.                                                  *)
(***************************************************************************)
EXTENDS Integers, Sequences, FiniteSets, FiniteSetsExt, Functions, TLC

None     == [kind |-> "none"]
Absent   == [kind |-> "absent"]
Raises   == [kind |-> "raises"]              \* evaluating the attribute raises
Scalar(x) == [kind |-> "scalar", v |-> x]
Text(s)   == [kind |-> "text", v |-> s]      \* s: the patterns found in it
ListOf(s) == [kind |-> "list", v |-> s]
Dict(f)   == [kind |-> "dict", v |-> f]

(* Symbol versions, as LooseVersion orders them: the name of the version   *)
(* set first, its last number next.                                        *)
CXXABI(n)  == n
GLIBCXX(n) == 100 + n
GLIBC(n)   == 200 + n
OPENSSL(n) == 300 + n
SameSet(v, w) == v \div 100 = w \div 100

(***************************************************************************)
(* Paths of a package, one for each way the program tells paths apart.     *)
(***************************************************************************)
EndsInSo    == {"libatc_router.so", "lib/libfoo.so", "modules/ngx_wasm_module.so"}
InBinOrLib  == {"lib/libssl.so.3", "lib/libfoo.so", "kong/lib/libxslt.so.1",
                "bin/kong", "bin/luarocks"}
SoAnywhere  == EndsInSo \cup {"lib/libssl.so.3", "kong/lib/libxslt.so.1", "share/x.so.1"}

RpathKong == {"/usr/local/kong/lib"}
RpathAll  == {"/usr/local/openresty/luajit/lib", "/usr/local/kong/lib",
              "/usr/local/openresty/lualib"}

(* What pyelftools finds in a file; required versions are finitely many.   *)
NotElf == [isElf |-> FALSE]
VersionsKnown(elf) ==
  elf.isElf => \A lib \in DOMAIN elf.requires :
                 elf.requires[lib] \subseteq Int /\ IsFiniteSet(elf.requires[lib])

Truthy(w) == /\ w.kind \notin {"none", "absent"}
             /\ w.kind \in {"list", "text"} => w.v # {}
             /\ w.kind = "dict" => DOMAIN w.v # {}
Present(f) == RestrictValues(f, LAMBDA w : w.kind # "absent")
WhenTruthy(w) == IF Truthy(w) THEN w ELSE Absent
\* The attributes of a class and those that its subclass adds.
Together(f, g) == [a \in DOMAIN f \cup DOMAIN g |-> IF a \in DOMAIN f THEN f[a] ELSE g[a]]

(***************************************************************************)
(* FileInfo: the link or the directory flag, mode and owner of the entry   *)
(* itself (lstat), the size unless it is a link, and two lazy contents: an *)
(* empty file has no content attribute, a directory or a dangling link     *)
(* raises when it is opened, and text that is not utf-8 when it is decoded.*)
(***************************************************************************)
Opened(e) == IF e.kind = "dir" \/ e.content.kind = "raises" THEN Raises
             ELSE WhenTruthy(e.content)

FileAttrs(e) ==
  [link           |-> IF e.kind = "link" THEN Scalar("target") ELSE Absent,
   directory      |-> IF e.kind = "dir" THEN Scalar(TRUE) ELSE Absent,
   mode           |-> Scalar(e.mode),
   uid            |-> Scalar(e.uid),
   gid            |-> Scalar(e.gid),
   size           |-> IF e.kind = "link" THEN Absent ELSE Scalar("size"),
   binary_content |-> IF e.content.kind = "undecodable" THEN Scalar("bytes") ELSE Opened(e),
   text_content   |-> IF e.content.kind = "undecodable" THEN Raises ELSE Opened(e)]

(* ElfFileInfo: five attributes every instance has, filled when the file   *)
(* parses as ELF; the symbol lists are lazy and exist only then.           *)
ElfAttrs(e) ==
  LET b == e.elf IN
  Together(FileAttrs(e),
     [arch                 |-> IF b.isElf THEN Scalar(b.arch) ELSE None,
      needed_libraries     |-> ListOf(IF b.isElf THEN b.needed ELSE {}),
      rpath                |-> IF b.isElf THEN b.rpath ELSE None,
      runpath              |-> IF b.isElf THEN b.runpath ELSE None,
      version_requirement  |-> Dict(IF b.isElf THEN b.requires ELSE <<>>),
      get_exported_symbols |-> IF b.isElf THEN ListOf(b.exported) ELSE None,
      get_imported_symbols |-> IF b.isElf THEN ListOf(b.imported) ELSE None,
      exported_symbols     |-> IF b.isElf THEN WhenTruthy(ListOf(b.exported)) ELSE Absent,
      imported_symbols     |-> IF b.isElf THEN WhenTruthy(ListOf(b.imported)) ELSE Absent,
      functions            |-> IF b.isElf THEN WhenTruthy(ListOf(b.functions)) ELSE Absent])

(* NginxInfo: nothing more when the file needs no library at all.          *)
NginxAttrs(e) ==
  IF ~e.elf.isElf \/ e.elf.needed = {} THEN ElfAttrs(e)
  ELSE Together(ElfAttrs(e),
       [nginx_modules             |-> ListOf(e.elf.modules),
        nginx_compiled_openssl    |-> e.elf.openssl,
        nginx_compile_flags       |-> e.elf.flags,
        has_dwarf_info            |-> Scalar(e.elf.dwarf # {}),
        has_ngx_http_request_t_DW |-> Scalar("ngx_http_request_t" \in e.elf.dwarf)])

(***************************************************************************)
(* walk_files: nginx whatever it is, then the .so files and what lies in a *)
(* bin or lib directory, their symbolic links left out, then the rest; and *)
(* transform, which hides the random rpaths of two libraries.              *)
(***************************************************************************)
Class(e) == IF e.at = "sbin/nginx" THEN "NginxInfo"
            ELSE IF e.at \in EndsInSo \cup InBinOrLib THEN "ElfFileInfo"
            ELSE "FileInfo"

SkippedLink(e) == Class(e) = "ElfFileInfo" /\ e.kind = "link"

Attributes(e) ==
  Present(CASE Class(e) = "NginxInfo"   -> NginxAttrs(e)
            [] Class(e) = "ElfFileInfo" -> ElfAttrs(e)
            [] Class(e) = "FileInfo"    -> FileAttrs(e))

ExpectedRpath == [p \in {"kong/lib/libxslt.so.1", "modules/ngx_wasm_module.so"} |->
                    IF p = "kong/lib/libxslt.so.1" THEN RpathKong ELSE RpathAll]

transform(at, attrs) ==
  LET Has(a) == Truthy(attrs[a]) /\ ExpectedRpath[at] \subseteq attrs[a].v
      Set(a) == [attrs EXCEPT ![a] = Scalar(ExpectedRpath[at])]
  IN IF at \notin DOMAIN ExpectedRpath THEN attrs
     ELSE IF Has("rpath") THEN Set("rpath")
     ELSE IF Has("runpath") THEN Set("runpath")
     ELSE attrs

FileInfo(e) == [at |-> e.at, class |-> Class(e), attrs |-> transform(e.at, Attributes(e))]

(* A set of globs is the set of the paths they match; "**" is any path.    *)
glob_match(at, globs) == "**" \in globs \/ at \in globs

(* The items of s at the positions in S, in order: a loop that appends what *)
(* it keeps.                                                               *)
Kept(s, S) ==
  LET upTo[i \in 0..Len(s)] == IF i = 0 THEN <<>>
                               ELSE IF i \in S THEN Append(upTo[i-1], s[i]) ELSE upTo[i-1]
  IN  upTo[Len(s)]

(* "package" is in the order of sorted(rglob("*")).                        *)
walk_files(package, globs) ==
  LET kept == Kept(package, {i \in 1..Len(package) : /\ glob_match(package[i].at, globs)
                                                     /\ ~SkippedLink(package[i])})
  IN [i \in 1..Len(kept) |-> FileInfo(kept[i])]

(***************************************************************************)
(* explain: what a file's entry of the manifest shows under the options.   *)
(* It raises on a size or on nginx facts that the info does not have.      *)
(***************************************************************************)
FileShown(info, opts) ==
  (DOMAIN info.attrs \cap {"link", "directory"})
  \cup (IF "owners" \in opts THEN {"uid", "gid"} ELSE {})
  \cup (opts \cap {"mode", "size"})

SymbolsOption == [get_exported_symbols |-> "exported_symbols",
                  get_imported_symbols |-> "imported_symbols"]

ElfShown(info, opts) ==
  LET asked == {"needed_libraries", "rpath", "runpath"}
               \cup (opts \cap {"arch", "version_requirement"})
      symbols == {a \in DOMAIN SymbolsOption :
                    SymbolsOption[a] \in opts /\ info.attrs[a].kind # "none"}
  IN symbols \cup {a \in asked : Truthy(info.attrs[a])}

NginxShown == {"nginx_modules", "nginx_compiled_openssl", "has_dwarf_info",
               "has_ngx_http_request_t_DW"}

Shown(info, opts) ==
  FileShown(info, opts)
  \cup (IF info.class = "FileInfo" THEN {} ELSE ElfShown(info, opts))
  \cup (IF info.class = "NginxInfo" THEN NginxShown ELSE {})

ExplainRaises(info, opts) == ~ (Shown(info, opts) \subseteq DOMAIN info.attrs)
explain(info, opts) == [a \in Shown(info, opts) |-> info.attrs[a]]

(* write_manifest: the entries of the files the list names, in order.      *)
Listed(infos, globs) == Kept(infos, {i \in 1..Len(infos) : glob_match(infos[i].at, globs)})
ManifestRaises(infos, globs, opts) ==
  \E i \in 1..Len(Listed(infos, globs)) : ExplainRaises(Listed(infos, globs)[i], opts)
write_manifest(infos, globs, opts) ==
  LET l == Listed(infos, globs)
  IN [i \in 1..Len(l) |-> <<l[i].at, explain(l[i], opts)>>]
=============================================================================
