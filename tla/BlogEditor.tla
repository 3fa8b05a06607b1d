----------------------------- MODULE BlogEditor -----------------------------
(***************************************************************************)
(* The pictures of a blog that is being written in blog-edit.html, and the  *)
(* upload directory of UploadController behind it.  Requests run            *)
(* concurrently, their answers come in any order, and axios gives one up    *)
(* after two seconds (common.js) although the server may still serve it.    *)
(* A file name is a path under the upload directory, which nginx serves as  *)
(* /imgs: the page puts that in front of the names it is given, and sends   *)
(* them back as they are.                                                   *)
(***************************************************************************)
EXTENDS Integers, Sequences, SequencesExt

CONSTANTS Pictures,     \* bound: names createNewFileName draws, each once
          MaxDeletes    \* bound: clicks on a delete button

VARIABLES fileList,     \* the names the page shows and will submit
          uploads,      \* uploads the page waits for
          deletes,      \* deletions the page waits for: the index and the name
          stored,       \* files in the upload directory
          orders,       \* requests the server has yet to serve
          given,        \* files whose upload was answered
          clicks,
          overlapped,   \* a deletion began while the page waited for another
          removed       \* names whose deletion was answered

editorVars == <<fileList, uploads, deletes, stored, orders, given, clicks, overlapped, removed>>

EditorInit ==
    /\ fileList = <<>> /\ uploads = {} /\ deletes = {}
    /\ stored = {} /\ orders = {} /\ given = {}
    /\ clicks = 0 /\ overlapped = FALSE /\ removed = {}

FileName(p) == <<p>>
FileNames == { FileName(p) : p \in Pictures }
OnPage(file) == <<"imgs">> \o file
Store(file) == [do |-> "store", name |-> file]
Unlink(name) == [do |-> "unlink", name |-> name]
Used == stored \cup uploads \cup given \cup { file \in FileNames : Store(file) \in orders }

FileSelected(file) ==
    /\ file \notin Used
    /\ uploads' = uploads \cup {file}
    /\ orders' = orders \cup {Store(file)}
    /\ UNCHANGED <<fileList, deletes, stored, given, clicks, overlapped, removed>>

\* uploadImage: transferTo a file of a new name.
UploadImage(file) ==
    /\ Store(file) \in orders
    /\ orders' = orders \ {Store(file)}
    /\ stored' = stored \cup {file}
    /\ UNCHANGED <<fileList, uploads, deletes, given, clicks, overlapped, removed>>

UploadAnswered(file) ==
    /\ file \in uploads /\ file \in stored
    /\ uploads' = uploads \ {file}
    /\ fileList' = Append(fileList, OnPage(file))
    /\ given' = given \cup {file}
    /\ UNCHANGED <<deletes, stored, orders, clicks, overlapped, removed>>

\* An error or the timeout: a message is shown, the list stays.
UploadFailed(file) ==
    /\ file \in uploads
    /\ uploads' = uploads \ {file}
    /\ UNCHANGED <<fileList, deletes, stored, orders, given, clicks, overlapped, removed>>

\* deletePic(i): the name is read now, the index is used when the answer comes.
DeletePic(i) ==
    /\ clicks < MaxDeletes
    /\ i \in DOMAIN fileList
    /\ clicks' = clicks + 1
    /\ deletes' = deletes \cup {[id |-> clicks', i |-> i, name |-> fileList[i]]}
    /\ orders' = orders \cup {Unlink(fileList[i])}
    /\ overlapped' = (overlapped \/ deletes # {})
    /\ UNCHANGED <<fileList, uploads, stored, given, removed>>

\* deleteBlogImg: FileUtil.del of the name it was sent under the upload
\* directory, where it succeeds also if there is no such file.
DeleteBlogImg(name) ==
    /\ Unlink(name) \in orders
    /\ orders' = orders \ {Unlink(name)}
    /\ stored' = stored \ {name}
    /\ UNCHANGED <<fileList, uploads, deletes, given, clicks, overlapped, removed>>

\* then: splice(i, 1).
Splice(list, i) == IF i \in DOMAIN list THEN RemoveAt(list, i) ELSE list
DeleteAnswered(d) ==
    /\ d \in deletes
    /\ Unlink(d.name) \notin orders
    /\ deletes' = deletes \ {d}
    /\ fileList' = Splice(fileList, d.i)
    /\ removed' = removed \cup {d.name}
    /\ UNCHANGED <<uploads, stored, orders, given, clicks, overlapped>>

(* Mutant of DeleteFailed: the picture leaves the list all the same. *)
DeleteFailedQuietly(d) ==
    /\ d \in deletes
    /\ deletes' = deletes \ {d}
    /\ fileList' = Splice(fileList, d.i)
    /\ UNCHANGED <<uploads, stored, orders, given, clicks, overlapped, removed>>

DeleteFailed(d) ==
    /\ d \in deletes
    /\ deletes' = deletes \ {d}
    /\ UNCHANGED <<fileList, uploads, stored, orders, given, clicks, overlapped, removed>>

EditorNext ==
    \/ \E file \in FileNames :
           \/ FileSelected(file) \/ UploadImage(file)
           \/ UploadAnswered(file) \/ UploadFailed(file)
           \/ DeleteBlogImg(OnPage(file))
    \/ \E i \in DOMAIN fileList : DeletePic(i)
    \/ \E d \in deletes : DeleteAnswered(d) \/ DeleteFailed(d)

EditorSpec == EditorInit /\ [][EditorNext]_editorVars

-----------------------------------------------------------------------------
\* The list the page will submit: each picture whose upload was answered, once,
\* except those whose deletion was answered, whatever uploads ended meanwhile;
\* and each of them is a file that is served.  It holds as long as the page waits
\* for one deletion at a time: an index read before one answer is stale after
\* another, and the wrong picture goes.
PicturesMatch ==
    ~overlapped =>
        /\ IsInjective(fileList)
        /\ ToSet(fileList) = { OnPage(file) : file \in given } \ removed
        /\ \A i \in DOMAIN fileList : \E file \in stored : fileList[i] = OnPage(file)
=============================================================================
